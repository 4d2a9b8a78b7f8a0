--------------------------- MODULE WaveformBuffer ---------------------------
(***************************************************************************)
(* What one channel of a waveform processor (class WP) does with a packet: *)
(* the gap check of datapkt/wp.cc, EWP2::reset and the buffer of samples   *)
(* of ElarmSWP2/ProcessBuffer.cc.  A sample is the number of its period,   *)
(* so that 1/samplerate is 1, and its value is left out.                   *)
(***************************************************************************)
EXTENDS Integers, Sequences

CONSTANTS
  MaxDuration     \* max_duration of a buffer

ASSUME MaxDurationAssumption == MaxDuration \in Nat

(* A RawPacket, and a SamplePacket: samples start .. start + length - 1.   *)
Packets == [start : Nat, length : Nat \ {0}]
EndTime(p) == p.start + p.length - 1

(* dataq and next_sample are of ProcessBuffer; firsttime and lasttime of   *)
(* WP: the time at which the next packet is expected.                      *)
Processors ==
  [firsttime : BOOLEAN, lasttime : Nat, dataq : Seq(Packets), next_sample : Nat]

NewProcessor ==
  [firsttime |-> TRUE, lasttime |-> 0, dataq |-> <<>>, next_sample |-> 0]

Last(q) == q[Len(q)]

(* The samples of a packet, and all samples of a deque, in its order.      *)
Run(p) == [i \in 1 .. p.length |-> p.start + i - 1]

Samples(q) ==
  LET upto[k \in 0 .. Len(q)] ==
        IF k = 0 THEN <<>> ELSE upto[k - 1] \o Run(q[k])
  IN upto[Len(q)]

-----------------------------------------------------------------------------
(* Mutant of IsGap: two lost samples are tolerated.                        *)
IsGapLater(w, p) == ~w.firsttime /\ p.start - w.lasttime > 2

(* A gap: more than one sample after the end of the previous packet.       *)
IsGap(w, p) == ~w.firsttime /\ p.start - w.lasttime > 1

(* EWP2::reset clears the buffer; checkgap then takes the next packet for  *)
(* the first.  Restarting the picker and the other modules is theirs.      *)
Reset(w) == [w EXCEPT !.firsttime = TRUE, !.dataq = <<>>, !.next_sample = 0]

CheckGap(w, p) ==
  LET checked == IF IsGap(w, p) THEN Reset(w) ELSE [w EXCEPT !.firsttime = FALSE]
  IN [checked EXCEPT !.lasttime = p.start + p.length]

(* Mutant of NewPart: the last sample is taken twice.                      *)
NewPartOverlapping(q, p) ==
  IF q = <<>> \/ p.start > EndTime(Last(q)) THEN p
  ELSE [start |-> EndTime(Last(q)), length |-> EndTime(p) - EndTime(Last(q)) + 1]

(* The part of a packet that is later than all data.                       *)
NewPart(q, p) ==
  IF q = <<>> \/ p.start > EndTime(Last(q)) THEN p
  ELSE [start |-> EndTime(Last(q)) + 1, length |-> EndTime(p) - EndTime(Last(q))]

(* The packets dropped at the front of a deque that spans too much time;   *)
(* one always stays.                                                       *)
Dropped(q) ==
  CHOOSE k \in 0 .. Len(q) - 1 :
    /\ k = Len(q) - 1 \/ EndTime(Last(q)) - EndTime(q[k + 1]) <= MaxDuration
    /\ \A l \in 0 .. k - 1 : EndTime(Last(q)) - EndTime(q[l + 1]) > MaxDuration

(* Mutant of Stale: a packet that ends with the data is not refused.       *)
StaleIfEarlier(q, p) == q # <<>> /\ EndTime(Last(q)) > EndTime(p)

Stale(q, p) == q # <<>> /\ EndTime(Last(q)) >= EndTime(p)

(* putPacket.                                                              *)
PutPacket(w, p) ==
  IF Stale(w.dataq, p) THEN w
  ELSE LET q == Append(w.dataq, NewPart(w.dataq, p))
           k == Dropped(q)
           next == w.next_sample - Len(Samples(SubSeq(q, 1, k)))
       IN [w EXCEPT !.dataq = SubSeq(q, k + 1, Len(q)),
                    !.next_sample = IF next < 0 THEN 0 ELSE next]

(* getData: what has not been handed out.                                  *)
Data(w) ==
  LET all == Samples(w.dataq) IN SubSeq(all, w.next_sample + 1, Len(all))
AfterData(w) == [w EXCEPT !.next_sample = @ + Len(Data(w))]

(* EWP2::process: the gap check, the packet, and the data to the modules.  *)
Received(w, p) == PutPacket(CheckGap(w, p), p)

-----------------------------------------------------------------------------
(* Whether the packet at k follows the one before it.                      *)
Follows(q, k) == q[k].start - EndTime(q[k - 1]) <= 2
=============================================================================
