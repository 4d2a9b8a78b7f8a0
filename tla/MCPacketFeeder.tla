--------------------------- MODULE MCPacketFeeder ---------------------------
(* Instances of the packet feeder for TLC: two stations, each with a queue *)
(* of its own.                                                             *)
EXTENDS PacketFeeder, TLC

CONSTANTS a, b

TwoQueues == (a :> 0) @@ (b :> 1)

(* One station loses one sample, which is no gap, loses two, sends one     *)
(* again, all again; the other has gaps, and a packet that comes late.     *)
OffsetsOfBoth == (a :> {2, 4, -6}) @@ (b :> {0, 1, 2, -1, -2})
=============================================================================
