-------------------------- MODULE MCWaveformSender --------------------------
(* An instance of the sender for TLC: packets of one or two messages, and  *)
(* waits of a unit of time at most.                                        *)
EXTENDS WaveformSender

Pairs == [k \in Kinds |-> IF k = "trigparams" THEN 2 ELSE 1]
ShortWait == [k \in Kinds |-> 0]
=============================================================================
