---------------------------- MODULE PacketFeeder ----------------------------
(***************************************************************************)
(* The packet feeder of the waveform processor: datapkt/ewfeeder.cc with   *)
(* its queues (LockedQueue.h), threads and channels (DataChannel.cc).      *)
(*                                                                         *)
(* ewfeeder::start, the main thread, reads packets from a ring or a replay *)
(* file and pushes each into the queue that the hash of its station        *)
(* selects; process_packet, one thread per queue, pops them and hands them *)
(* to the waveform processor of their channel.                             *)
(*                                                                         *)
(* A processor has one channel here.  Errors and gaps of the ring lose     *)
(* packets, a source may send samples again.                               *)
(***************************************************************************)
EXTENDS WaveformBuffer, FiniteSets

CONSTANTS
  Threads,        \* 0 .. numthreads - 1, with their queues
  Channels,
  HashOf,         \* [Channels -> Threads], the same for a station
  PacketLength,
  Offsets,        \* [Channels -> where a packet may start after the last]
  QueueLimit,     \* a replay slows down at longer queues: 400
  MaxPackets,     \* bound of the packets read
  MaxLoads,       \* bound of the changes of the channel file
  NullPacket      \* what releases a thread at the end of a replay

VARIABLES
  replaying,      \* whether start reads a file
  rocknroll,      \* _rocknroll
  main,           \* where start is
  packet,         \* the packet it has read
  released,       \* queues that have their null packet
  pktq,           \* [Threads -> queue]
  mywaitflag,
  thread,         \* [Threads -> where process_packet is]
  pinfo,          \* [Threads -> packet]
  eew,            \* [Threads -> the processor it has looked up]
  eewmap,         \* [Channels -> number of its processor, 0 for none]
  loads,          \* number of the newest processors
  wp,             \* [Channels -> state of its processor]
  sent,           \* history: [Channels -> time of the end of its packets]
  count,          \* history: packets read and not yet finished with
  handed,         \* history: [Channels -> samples given to the modules]
  restarted,      \* history: [Channels -> how many, when they restarted]
  reads           \* number of packets read

source == <<replaying, sent, reads>>
channels == <<eewmap, loads>>
threads == <<thread, pinfo, eew>>
given == <<handed, restarted>>
queues == <<pktq, mywaitflag>>
vars == <<replaying, rocknroll, main, packet, released, pktq, mywaitflag,
          thread, pinfo, eew, eewmap, loads, wp, sent, count, given, reads>>

ASSUME PacketFeederAssumption ==
  /\ HashOf \in [Channels -> Threads]
  /\ PacketLength \in Nat \ {0} /\ Offsets \in [Channels -> SUBSET Int]
  /\ {QueueLimit, MaxPackets, MaxLoads} \subseteq Nat
  /\ IsFiniteSet(Threads) /\ IsFiniteSet(Channels)

ChannelPackets == [ch : Channels, raw : Packets]
Infos == ChannelPackets \cup {NullPacket}
ASSUME NullPacketAssumption == NullPacket \notin ChannelPackets

MainSteps == {"outer", "inner", "push", "drain", "release", "join", "stopped"}
Steps == {"none", "test", "pop", "wait", "woken", "find", "process", "done"}

(* The numbers of channels and threads never change; a handle is a channel *)
(* and the number of the processor that it had.                            *)
NoHandle == <<NullPacket, 0>>
Handles == (Channels \X Nat) \cup {NoHandle}

Started == {t \in Threads : thread[t] # "none"}

-----------------------------------------------------------------------------
Init ==
  /\ replaying \in BOOLEAN
  /\ rocknroll = TRUE
  /\ main = "outer"
  /\ packet = NullPacket
  /\ released = {}
  /\ pktq = [t \in Threads |-> <<>>]
  /\ mywaitflag = [t \in Threads |-> FALSE]
  /\ thread = [t \in Threads |-> "none"]
  /\ pinfo = [t \in Threads |-> NullPacket]
  /\ eew = [t \in Threads |-> NoHandle]
  /\ eewmap = [c \in Channels |-> 1]
  /\ loads = 1
  /\ wp = [c \in Channels |-> NewProcessor]
  /\ sent = [c \in Channels |-> 0]
  /\ count = 0
  /\ handed = [c \in Channels |-> <<>>]
  /\ restarted = [c \in Channels |-> 0]
  /\ reads = 0

-----------------------------------------------------------------------------
(* The queue, LockedQueue: each operation holds its lock.                  *)

(* Mutant of Wakes: nobody is told of a packet.                            *)
WakesNobody(t) == FALSE

Wakes(t) == mywaitflag[t] /\ thread[t] = "wait"

Push(t, info) ==
  /\ pktq' = [pktq EXCEPT ![t] = Append(@, info)]
  /\ mywaitflag' = [mywaitflag EXCEPT ![t] = FALSE]
  /\ thread' = IF Wakes(t) THEN [thread EXCEPT ![t] = "woken"]
               ELSE thread

Pop(t) ==
  /\ pktq[t] # <<>>
  /\ pinfo' = [pinfo EXCEPT ![t] = Head(pktq[t])]
  /\ pktq' = [pktq EXCEPT ![t] = Tail(@)]
  /\ thread' = [thread EXCEPT ![t] = "find"]

-----------------------------------------------------------------------------
(* The main thread, ewfeeder::start.                                       *)

mainOnly == <<released, queues, threads, wp, given>>

(* Live, the outer loop: an Earthworm request to terminate ...             *)
Terminate ==
  /\ main = "outer" /\ ~replaying /\ rocknroll
  /\ rocknroll' = FALSE
  /\ main' = "stopped"
  /\ UNCHANGED <<source, packet, mainOnly, channels, count>>

(* ... or the next look at the channel file, readChannels: processors of   *)
(* channels that are gone are deleted, of changed ones deleted and made    *)
(* anew.  A file without channels is an error and nothing happens.         *)
ReadChannelData(now, changed) ==
  /\ main = "outer" /\ ~replaying /\ rocknroll
  /\ loads < MaxLoads /\ now # {}
  /\ LET fresh == {c \in now : eewmap[c] = 0 \/ c \in changed}
     IN /\ eewmap' = [c \in Channels |-> IF c \notin now THEN 0
                                         ELSE IF c \in fresh THEN loads + 1
                                         ELSE eewmap[c]]
        /\ wp' = [c \in Channels |-> IF c \in fresh \/ c \notin now
                                     THEN NewProcessor ELSE wp[c]]
        /\ handed' = [c \in Channels |-> IF c \in fresh \/ c \notin now
                                         THEN <<>> ELSE handed[c]]
        /\ restarted' = [c \in Channels |-> IF c \in fresh \/ c \notin now
                                            THEN 0 ELSE restarted[c]]
  /\ loads' = loads + 1
  /\ main' = "inner"
  /\ UNCHANGED <<source, rocknroll, packet, released, queues, threads, count>>

EnterInner ==
  /\ main = "outer" /\ rocknroll
  /\ main' = "inner"
  /\ UNCHANGED <<source, rocknroll, packet, mainOnly, channels, count>>

(* tport_getmsg or readPacketFromFile, up to the queue of the packet and   *)
(* its thread, which are created for the first one.                        *)
ReadPacket(c, d) ==
  /\ main = "inner"
  /\ reads < MaxPackets
  /\ sent[c] + d >= 0
  /\ packet' = [ch |-> c, raw |-> [start |-> sent[c] + d, length |-> PacketLength]]
  /\ sent' = [sent EXCEPT ![c] = @ + d + PacketLength]
  /\ count' = count + 1
  /\ reads' = reads + 1
  /\ main' = "push"
  /\ thread' = [thread EXCEPT ![HashOf[c]] = IF @ = "none" THEN "test" ELSE @]
  /\ UNCHANGED <<replaying, rocknroll, released, queues, pinfo, eew, wp, given,
                 channels>>

PushPacket ==
  /\ main = "push"
  /\ replaying => Len(pktq[HashOf[packet.ch]]) <= QueueLimit
  /\ Push(HashOf[packet.ch], packet)
  /\ main' = "inner"
  /\ packet' = NullPacket
  /\ UNCHANGED <<source, rocknroll, released, pinfo, eew, channels, wp, given,
                 count>>

(* GET_NONE: back to the outer loop; the end of the file: out of it.       *)
NoMorePackets ==
  /\ main = "inner"
  /\ main' = IF replaying THEN "drain" ELSE "outer"
  /\ UNCHANGED <<source, rocknroll, packet, mainOnly, channels, count>>

(* Mutant of Drained: the queues are not waited for.                       *)
DrainedAlways == TRUE

Drained == \A t \in Threads : pktq[t] = <<>>

Drain ==
  /\ main = "drain" /\ Drained
  /\ rocknroll' = FALSE
  /\ main' = "release"
  /\ UNCHANGED <<source, packet, mainOnly, channels, count>>

(* Each thread gets a null packet, as it may be waiting for one.           *)
Release(t) ==
  /\ main = "release"
  /\ t \in Started \ released
  /\ Push(t, NullPacket)
  /\ released' = released \cup {t}
  /\ UNCHANGED <<source, rocknroll, main, packet, pinfo, eew, channels, wp,
                 given, count>>

Released ==
  /\ main = "release" /\ Started \subseteq released
  /\ main' = "join"
  /\ UNCHANGED <<source, rocknroll, packet, mainOnly, channels, count>>

Join ==
  /\ main = "join" /\ \A t \in Started : thread[t] = "done"
  /\ main' = "stopped"
  /\ UNCHANGED <<source, rocknroll, packet, mainOnly, channels, count>>

Main ==
  \/ Terminate \/ EnterInner \/ PushPacket \/ NoMorePackets
  \/ \E now, changed \in SUBSET Channels : ReadChannelData(now, changed)
  \/ \E c \in Channels : \E d \in Offsets[c] : ReadPacket(c, d)
  \/ Drain \/ (\E t \in Threads : Release(t)) \/ Released \/ Join

-----------------------------------------------------------------------------
(* The thread of a queue, process_packet.                                  *)

threadOnly == <<source, rocknroll, main, packet, released, channels>>

TestRocknRoll(t) ==
  /\ thread[t] = "test"
  /\ thread' = [thread EXCEPT ![t] = IF rocknroll THEN "pop" ELSE "done"]
  /\ UNCHANGED <<threadOnly, queues, pinfo, eew, wp, given, count>>

(* pop: an empty queue is waited for once, and not looked at again.        *)
PopOrWait(t) ==
  /\ thread[t] = "pop"
  /\ \/ /\ Pop(t)
        /\ UNCHANGED mywaitflag
     \/ /\ pktq[t] = <<>>
        /\ mywaitflag' = [mywaitflag EXCEPT ![t] = TRUE]
        /\ thread' = [thread EXCEPT ![t] = "wait"]
        /\ UNCHANGED <<pktq, pinfo>>
  /\ UNCHANGED <<threadOnly, eew, wp, given, count>>

PopWoken(t) ==
  /\ thread[t] = "woken"
  /\ Pop(t)
  /\ UNCHANGED <<threadOnly, mywaitflag, eew, wp, given, count>>

(* getWPHandle, under the lock of the channels.  The null packet has no    *)
(* channel that is known.                                                  *)
GetWPHandle(t) ==
  /\ thread[t] = "find"
  /\ LET info == pinfo[t]
         known == info # NullPacket /\ eewmap[info.ch] # 0
     IN /\ eew' = [eew EXCEPT ![t] = IF known THEN <<info.ch, eewmap[info.ch]>>
                                     ELSE NoHandle]
        /\ thread' = [thread EXCEPT ![t] = IF known THEN "process" ELSE "test"]
        /\ count' = IF known \/ info = NullPacket THEN count ELSE count - 1
  /\ UNCHANGED <<threadOnly, queues, pinfo, wp, given>>

(* The channel is black-listed, or the packet is too old.                  *)
Ignore(t) ==
  /\ thread[t] = "process"
  /\ thread' = [thread EXCEPT ![t] = "test"]
  /\ eew' = [eew EXCEPT ![t] = NoHandle]
  /\ count' = count - 1
  /\ UNCHANGED <<threadOnly, queues, pinfo, wp, given>>

(* eew->process.  The lock is released: the processor may be deleted by    *)
(* now.  What then becomes of its memory is left out.                      *)
Alive(h) == h = NoHandle \/ eewmap[h[1]] = h[2]

Process(t) ==
  /\ thread[t] = "process"
  /\ LET c == pinfo[t].ch
         w == Received(wp[c], pinfo[t].raw)
     IN IF Alive(eew[t])
        THEN /\ wp' = [wp EXCEPT ![c] = AfterData(w)]
             /\ handed' = [handed EXCEPT ![c] = @ \o Data(w)]
             /\ restarted' = [restarted EXCEPT ![c] =
                  IF IsGap(wp[c], pinfo[t].raw) THEN Len(handed[c]) ELSE @]
        ELSE UNCHANGED <<wp, given>>
  /\ thread' = [thread EXCEPT ![t] = "test"]
  /\ eew' = [eew EXCEPT ![t] = NoHandle]
  /\ count' = count - 1
  /\ UNCHANGED <<threadOnly, queues, pinfo>>

ProcessPacket(t) ==
  \/ TestRocknRoll(t) \/ PopOrWait(t) \/ PopWoken(t)
  \/ GetWPHandle(t) \/ Ignore(t) \/ Process(t)

Next == Main \/ \E t \in Threads : ProcessPacket(t)

Spec == Init /\ [][Next]_vars

(* The threads run.                                                        *)
FairSpec == Spec /\ WF_vars(Main) /\ \A t \in Threads : WF_vars(ProcessPacket(t))

-----------------------------------------------------------------------------
(* The types of the state.                                                 *)
TypeOK ==
  /\ replaying \in BOOLEAN /\ rocknroll \in BOOLEAN
  /\ main \in MainSteps
  /\ packet \in Infos
  /\ released \subseteq Threads
  /\ pktq \in [Threads -> Seq(Infos)]
  /\ mywaitflag \in [Threads -> BOOLEAN]
  /\ thread \in [Threads -> Steps]
  /\ pinfo \in [Threads -> Infos]
  /\ eew \in [Threads -> Handles]
  /\ eewmap \in [Channels -> Nat] /\ loads \in Nat
  /\ wp \in [Channels -> Processors]
  /\ sent \in [Channels -> Int] /\ count \in Nat /\ reads \in Nat
  /\ handed \in [Channels -> Seq(Nat)] /\ restarted \in [Channels -> Nat]

(* The modules get, since EWP2::reset restarted them, each sample at most  *)
(* once and in the order of time, and all that is in a buffer: overlaps,   *)
(* late and repeated packets and the dropping of old packets do not        *)
(* confuse next_sample.                                                    *)
HandedOutInOrder ==
  \A c \in Channels :
    LET h == handed[c] IN
    /\ \A k \in restarted[c] + 2 .. Len(h) : h[k - 1] < h[k]
    /\ wp[c].dataq # <<>> => /\ Len(h) > restarted[c]
                            /\ Last(h) = EndTime(Last(wp[c].dataq))
    /\ Data(wp[c]) = <<>>

(* No sample comes twice over restarts either, as long as no packet of the *)
(* channel ends before the one read before it.  A late one sets the time   *)
(* at which the next packet is expected back, so that the next one seems   *)
(* to follow a gap, and its samples are handed out again.                  *)
ReadInOrder(c) == \A d \in Offsets[c] : d >= -PacketLength

HandedOutOnce ==
  \A c \in Channels : ReadInOrder(c) =>
    \A k \in 2 .. Len(handed[c]) : handed[c][k - 1] < handed[c][k]

(* The buffer, over which the modules index samples by their time, has a   *)
(* gap between the first two packets at most.  There it may have one,      *)
(* although wp.h says of reset "called if gaps found": the packet after a  *)
(* gap is taken for the first, and the one after that is not checked.      *)
GapOnlyInFront ==
  \A c \in Channels : \A k \in 3 .. Len(wp[c].dataq) : Follows(wp[c].dataq, k)

(* LockedQueue::pop waits with an "if" and looks at the flag of the queue: *)
(* no thread waits at a queue that has a packet, and none that is woken    *)
(* finds the queue empty, because a queue has one consumer.  Wake-ups      *)
(* without a signal, which POSIX allows, are left out.                     *)
NoLostWakeUp ==
  \A t \in Threads :
    /\ thread[t] = "wait" => mywaitflag[t] /\ pktq[t] = <<>>
    /\ thread[t] = "woken" => pktq[t] # <<>>

(* A replay ends when every packet has been processed, or ignored, ...     *)
ReplayComplete == main = "stopped" /\ replaying => count = 0

(* ... and it ends: no thread waits for a packet for ever.                 *)
ReplayEnds == main = "drain" ~> main = "stopped"

=============================================================================
