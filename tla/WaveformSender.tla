--------------------------- MODULE WaveformSender ---------------------------
(***************************************************************************)
(* The sender of the waveform processor: ElarmSWP2/EWP2Sender.cc.  The     *)
(* threads of the packet feeder put triggers, trigger parameters and peaks *)
(* into queues; the send thread, sendData, moves each queue into a second  *)
(* one that only it uses and sends that in packets; sendMonitor watches    *)
(* that no send hangs.  stop, called by the main thread, lets the send     *)
(* thread empty everything and joins both.                                 *)
(*                                                                         *)
(* A message is its number among all messages.  A send that throws has     *)
(* sent nothing.  The channel list and the text messages are left out: the *)
(* send thread sends them after the triggers, on a producer of its own,    *)
(* without sendPacket, its lock, its test of the transport or its catch.   *)
(* So what is not modelled is that an exception there is not caught, that  *)
(* the monitor does not see a send that hangs there, and that the channel  *)
(* list is cleared before it is sent.                                      *)
(***************************************************************************)
EXTENDS Integers, Sequences, FiniteSets

CONSTANTS
  MaxPerPacket,   \* [Kinds -> messages in a packet]
  Wait,           \* [Kinds -> how long the first message is held]
  MaxQueueTime,
  Restart,        \* exit when a send takes too long
  MaxMessages,    \* bound of the messages
  MaxTime         \* bound of the clock

VARIABLES
  now,
  sent_in,        \* number of messages given to send
  queue,          \* [Kinds -> sequence of messages], trigparams ...
  queue_start,    \* [Kinds -> time of the first message]
  send_queue,     \* [Kinds -> sequence of messages], trigparams_send ...
  packet_id,
  step,           \* where sendData is: a step and its kind
  connected_to_amq,
  transport_ok,
  stop_signal,
  shutdown,
  sendLock,       \* whether a send is under way
  monitor,        \* where sendMonitor is
  caller,         \* where the main thread is
  ids,            \* history: ids of the packets sent
  wire,           \* history: [Kinds -> sequence of messages sent]
  removed,        \* history: messages too old
  due,            \* history: messages put in before stop
  failed          \* history: a send failed after stop

clock == <<now, sent_in>>
life == <<connected_to_amq, transport_ok, stop_signal>>
vars == <<now, sent_in, queue, queue_start, send_queue, packet_id, step,
          connected_to_amq, transport_ok, stop_signal, shutdown, sendLock,
          monitor, caller, ids, wire, removed, due, failed>>

(* In the order in which sendData looks at them.                           *)
KindAt == <<"trigparams", "gmpeaks", "triggers">>
Kinds == {"trigparams", "gmpeaks", "triggers"}

ASSUME WaveformSenderAssumption ==
  /\ MaxPerPacket \in [Kinds -> Nat \ {0}] /\ Wait \in [Kinds -> Nat]
  /\ MaxPerPacket["triggers"] = 1
  /\ {MaxQueueTime, MaxMessages, MaxTime} \subseteq Nat /\ Restart \in BOOLEAN

(* num 0: the null TriggerParams at the end.                               *)
Messages == [num : Nat, at : Nat]
SendSteps ==
  ({"take", "send"} \X (1 .. 3))
    \cup {<<s, 0>> : s \in {"connect", "turn", "closed", "exited"}}

Nums(s) == {s[k].num : k \in DOMAIN s}
Ending == step[1] \in {"closed", "exited"}

-----------------------------------------------------------------------------
Init ==
  /\ now = 0 /\ sent_in = 0
  /\ queue = [k \in Kinds |-> <<>>]
  /\ queue_start = [k \in Kinds |-> 0]
  /\ send_queue = [k \in Kinds |-> <<>>]
  /\ packet_id = 0
  /\ step = <<"connect", 0>>
  /\ connected_to_amq = FALSE /\ transport_ok = TRUE
  /\ stop_signal = FALSE /\ shutdown = 0
  /\ sendLock = FALSE
  /\ monitor = "test"
  /\ caller = "running"
  /\ ids = <<>> /\ wire = [k \in Kinds |-> <<>>]
  /\ removed = {} /\ due = {} /\ failed = FALSE

Tick ==
  /\ now < MaxTime
  /\ now' = now + 1
  /\ UNCHANGED <<sent_in, queue, queue_start, send_queue, packet_id, step, life,
                 shutdown, sendLock, monitor, caller, ids, wire, removed, due, failed>>

-----------------------------------------------------------------------------
(* send, by a thread of the feeder: drops what is too old, and appends.    *)
Expired(s) == {k \in DOMAIN s : \A l \in 1 .. k : now - s[l].at > MaxQueueTime}

Put(k) ==
  /\ sent_in < MaxMessages /\ step[1] # "exited"
  /\ LET n == Cardinality(Expired(queue[k]))
         rest == SubSeq(queue[k], n + 1, Len(queue[k]))
     IN /\ queue' = [queue EXCEPT ![k] = Append(rest, [num |-> sent_in + 1, at |-> now])]
        /\ removed' = removed \cup Nums(SubSeq(queue[k], 1, n))
  /\ queue_start' = IF queue[k] = <<>> /\ k # "triggers"
                    THEN [queue_start EXCEPT ![k] = now] ELSE queue_start
  /\ sent_in' = sent_in + 1
  /\ UNCHANGED <<now, send_queue, packet_id, step, life, shutdown, sendLock,
                 monitor, caller, ids, wire, due, failed>>

(* transportInterrupted and transportResumed, by the bus library.          *)
TransportChanges ==
  /\ connected_to_amq /\ ~Ending
  /\ transport_ok' = ~transport_ok
  /\ UNCHANGED <<clock, queue, queue_start, send_queue, packet_id, step,
                 connected_to_amq, stop_signal, shutdown, sendLock, monitor,
                 caller, ids, wire, removed, due, failed>>

-----------------------------------------------------------------------------
(* The send thread.                                                        *)

senderOnly == <<clock, monitor, caller, due, transport_ok, stop_signal>>

(* connectToAmq; a failure is tried again.  Until it succeeds the main     *)
(* thread does not call stop.                                              *)
Connect ==
  /\ step[1] = "connect"
  /\ connected_to_amq' = TRUE
  /\ step' = <<"take", 1>>
  /\ UNCHANGED <<senderOnly, queue, queue_start, send_queue, packet_id, shutdown,
                 sendLock, ids, wire, removed, failed>>

IsDue(k) ==
  \/ Len(queue[k]) >= MaxPerPacket[k]
  \/ queue[k] # <<>> /\ now - queue_start[k] > Wait[k]
  \/ shutdown > 0

(* At shutdown the trigger parameters end with a null one.                 *)
Null == [num |-> 0, at |-> now]

Take(i) ==
  /\ step = <<"take", i>>
  /\ LET k == KindAt[i]
         last == IF k = "trigparams" /\ shutdown > 0 THEN <<Null>> ELSE <<>>
     IN IF k = "triggers" \/ IsDue(k)
        THEN /\ send_queue' = [send_queue EXCEPT ![k] = @ \o queue[k] \o last]
             /\ queue' = [queue EXCEPT ![k] = <<>>]
        ELSE UNCHANGED <<send_queue, queue>>
  /\ step' = <<"send", i>>
  /\ UNCHANGED <<senderOnly, queue_start, packet_id, shutdown, sendLock,
                 ids, wire, removed, failed, connected_to_amq>>

(* Mutant of NextKind: what failed is tried again at once.                 *)
NextKindWhenSent(i) ==
  IF send_queue[KindAt[i]] # <<>> THEN <<"send", i>>
  ELSE IF i < 3 THEN <<"take", i + 1>> ELSE <<"turn", 0>>

NextKind(i) == IF i < 3 THEN <<"take", i + 1>> ELSE <<"turn", 0>>

(* sendPacket takes the lock ...                                           *)
BeginSend(i) ==
  /\ step = <<"send", i>> /\ send_queue[KindAt[i]] # <<>>
  /\ transport_ok /\ ~sendLock
  /\ sendLock' = TRUE
  /\ UNCHANGED <<senderOnly, queue, queue_start, send_queue, packet_id, step,
                 shutdown, ids, wire, removed, failed, connected_to_amq>>

Batch(k) ==
  LET s == send_queue[k]
  IN SubSeq(s, 1, IF Len(s) < MaxPerPacket[k] THEN Len(s) ELSE MaxPerPacket[k])

(* Mutant of AfterBatch: all is cleared after a packet.                    *)
AfterBatchCleared(k) == <<>>

AfterBatch(k) == SubSeq(send_queue[k], Len(Batch(k)) + 1, Len(send_queue[k]))

(* Mutant of IdAfterFailure: the id is spent.                              *)
IdAfterFailureSpent(id) == id + 1

IdAfterFailure(id) == id

(* ... and the packet is sent, ...                                         *)
Sent(i) ==
  /\ step = <<"send", i>> /\ sendLock
  /\ sendLock' = FALSE
  /\ LET k == KindAt[i] IN
     /\ wire' = [wire EXCEPT ![k] = @ \o Batch(k)]
     /\ send_queue' = [send_queue EXCEPT ![k] = AfterBatch(k)]
  /\ ids' = Append(ids, packet_id)
  /\ packet_id' = packet_id + 1
  /\ UNCHANGED <<senderOnly, queue, queue_start, step, shutdown, removed, failed,
                 connected_to_amq>>

(* ... or it is not, is kept for the next time, and the next kind's turn.  *)
NotSent(i) ==
  /\ step = <<"send", i>> /\ send_queue[KindAt[i]] # <<>>
  /\ sendLock \/ ~transport_ok
  /\ sendLock' = FALSE
  /\ packet_id' = IdAfterFailure(packet_id)
  /\ failed' = (failed \/ stop_signal)
  /\ step' = NextKind(i)
  /\ UNCHANGED <<senderOnly, queue, queue_start, send_queue, shutdown, ids, wire,
                 removed, connected_to_amq>>

AllSent(i) ==
  /\ step = <<"send", i>> /\ send_queue[KindAt[i]] = <<>>
  /\ step' = NextKind(i)
  /\ UNCHANGED <<senderOnly, queue, queue_start, send_queue, packet_id, shutdown,
                 sendLock, ids, wire, removed, failed, connected_to_amq>>

(* Mutant of LastTurn: one turn after stop, which may have begun before.   *)
LastTurnAtOnce(n) == n >= 1

(* Mutant of LastTurn: one turn more.                                      *)
LastTurnLate(n) == n >= 3

(* Mutant of LastTurn: only when everything was sent.                      *)
LastTurnWhenEmpty(n) == n >= 2 /\ \A k \in Kinds : send_queue[k] = <<>>

LastTurn(n) == n >= 2

(* After stop the loop is run once more, to empty the queues.              *)
Turn ==
  /\ step[1] = "turn"
  /\ shutdown' = IF stop_signal THEN shutdown + 1 ELSE shutdown
  /\ step' = IF LastTurn(shutdown') THEN <<"closed", 0>> ELSE <<"take", 1>>
  /\ UNCHANGED <<senderOnly, queue, queue_start, send_queue, packet_id, sendLock,
                 ids, wire, removed, failed, connected_to_amq>>

SendData ==
  \/ Connect \/ Turn
  \/ \E i \in 1 .. 3 : Take(i) \/ BeginSend(i) \/ Sent(i) \/ NotSent(i) \/ AllSent(i)

-----------------------------------------------------------------------------
(* sendMonitor; the limit of its wait is outside.                          *)
monitorOnly == <<clock, queue, queue_start, send_queue, packet_id, life, shutdown,
                 sendLock, caller, ids, wire, removed, due, failed>>

MonitorTest ==
  /\ monitor = "test" /\ step[1] # "exited"
  /\ monitor' = IF stop_signal THEN "done" ELSE "lock"
  /\ UNCHANGED <<monitorOnly, step>>

MonitorLocks ==
  /\ monitor = "lock" /\ ~sendLock /\ step[1] # "exited"
  /\ monitor' = "test"
  /\ UNCHANGED <<monitorOnly, step>>

SendTakesTooLong ==
  /\ monitor = "lock" /\ sendLock /\ step[1] # "exited"
  /\ monitor' = "test"
  /\ step' = IF Restart THEN <<"exited", 0>> ELSE step
  /\ UNCHANGED monitorOnly

Monitor == MonitorTest \/ MonitorLocks \/ SendTakesTooLong

-----------------------------------------------------------------------------
(* The main thread calls stop, if ever connected.                          *)
callerOnly == <<clock, queue, queue_start, send_queue, packet_id, step,
                connected_to_amq, transport_ok, sendLock, monitor, ids, wire, removed,
                failed>>

Stop ==
  /\ caller = "running" /\ connected_to_amq /\ step[1] # "exited"
  /\ caller' = "stopping"
  /\ shutdown' = 0
  /\ stop_signal' = TRUE
  /\ due' = (1 .. sent_in) \ removed
  /\ UNCHANGED callerOnly

Join ==
  /\ caller = "stopping" /\ step[1] = "closed" /\ monitor = "done"
  /\ caller' = "joined"
  /\ UNCHANGED <<callerOnly, stop_signal, shutdown, due>>

Next ==
  \/ Tick \/ TransportChanges \/ (\E k \in Kinds : Put(k))
  \/ SendData \/ Monitor \/ Stop \/ Join

Spec == Init /\ [][Next]_vars

(* The threads run, and a send returns or throws: after an interruption    *)
(* the library reconnects.                                                 *)
FairSpec == Spec /\ WF_vars(SendData) /\ WF_vars(Monitor) /\ WF_vars(Join)

-----------------------------------------------------------------------------
(* The types of the state.                                                 *)
TypeOK ==
  /\ now \in 0 .. MaxTime /\ sent_in \in 0 .. MaxMessages
  /\ queue \in [Kinds -> Seq(Messages)]
  /\ queue_start \in [Kinds -> 0 .. MaxTime]
  /\ send_queue \in [Kinds -> Seq(Messages)]
  /\ packet_id \in Nat
  /\ step \in SendSteps
  /\ {connected_to_amq, transport_ok, stop_signal, sendLock, failed} \subseteq BOOLEAN
  /\ shutdown \in 0 .. 2
  /\ monitor \in {"test", "lock", "done"}
  /\ caller \in {"running", "stopping", "joined"}
  /\ ids \in Seq(Nat) /\ wire \in [Kinds -> Seq(Messages)]
  /\ removed \subseteq Nat /\ due \subseteq Nat

(* A message is on the wire, or in one of the two queues, or was too old:  *)
(* a failed send neither loses nor repeats one, and of one kind they keep  *)
(* their order.                                                            *)
InOnePlaceInOrder ==
  LET all(k) == wire[k] \o send_queue[k] \o queue[k]
  IN /\ \A k \in Kinds : \A m, n \in DOMAIN all(k) :
          m < n /\ all(k)[m].num # 0 /\ all(k)[n].num # 0 =>
            all(k)[m].num < all(k)[n].num
     /\ \A k, l \in Kinds : k # l => Nums(all(k)) \cap Nums(all(l)) \subseteq {0}
     /\ (UNION {Nums(all(k)) : k \in Kinds}) \ {0} = (1 .. sent_in) \ removed

(* Receivers see the packets of all kinds under consecutive ids.           *)
IdsConsecutive == \A n \in 1 .. Len(ids) : ids[n] = n - 1

(* What was put in before stop is sent before the thread ends, unless it   *)
(* grew too old or a send failed meanwhile.                                *)
Flushed ==
  step[1] = "closed" /\ ~failed =>
    due \subseteq removed \cup UNION {Nums(wire[k]) : k \in Kinds}

(* The null TriggerParams, on which EPIC stops, is the last and comes once,*)
(* even when the feeder goes on sending.                                   *)
NullLast ==
  LET all == wire["trigparams"] \o send_queue["trigparams"]
  IN /\ \A n \in 1 .. Len(all) : all[n].num = 0 => n = Len(all)
     /\ step[1] = "closed" =>
          all # <<>> /\ all[Len(all)].num = 0

(* stop returns, also when nothing can be sent any more.                   *)
StopEnds == caller = "stopping" ~> caller = "joined" \/ step[1] = "exited"
=============================================================================
