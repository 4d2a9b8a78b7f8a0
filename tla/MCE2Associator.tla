--------------------------- MODULE MCE2Associator ---------------------------
(***************************************************************************)
(* Instances of the associator for TLC: a few triggers of a few stations   *)
(* on a line.                                                              *)
(***************************************************************************)
EXTENDS E2Associator

(* Station A triggers twice on its channel, the second time in better      *)
(* agreement with B; C is far away and goes with neither.                  *)
MixSta  == <<"A", "A", "B", "C">>
MixChan == <<"A1", "A1", "B1", "C1">>
MixPos  == <<0, 0, 1, 3>>
MixTime == <<0, 3, 2, 12>>

(* A trigger of noise, 1, goes with the last of three that belong together *)
(* but not with the first two.                                             *)
NoiseSta  == <<"A", "B", "C", "D">>
NoiseChan == <<"A1", "B1", "C1", "D1">>
NoisePos  == <<0, 3, 4, 6>>
NoiseTime == <<0, 5, 6, 6>>
=============================================================================
