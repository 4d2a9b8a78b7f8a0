----------------------- MODULE WaveformSender_proofs -----------------------
(***************************************************************************)
(* Proofs about the sender of the waveform processor: whatever the bus and *)
(* the other threads do, no message is lost, repeated or reordered, packet *)
(* ids are consecutive, stop flushes the queues and the null               *)
(* TriggerParams comes last.  For any sizes, waits and bounds.             *)
(***************************************************************************)
EXTENDS WaveformSender, SequenceTheorems, FiniteSetTheorems, TLAPS

Ordered(s) ==
  \A m, n \in DOMAIN s :
    m < n /\ s[m].num # 0 /\ s[n].num # 0 => s[m].num < s[n].num

Before(s, t) ==
  \A m \in DOMAIN s, n \in DOMAIN t :
    s[m].num # 0 /\ t[n].num # 0 => s[m].num < t[n].num

NoNull(s) == \A n \in DOMAIN s : s[n].num # 0

-----------------------------------------------------------------------------
(* Sequences of messages.                                                  *)

LEMMA MessageSeq ==
  ASSUME NEW s \in Seq(Messages)
  PROVE  /\ Len(s) \in Nat /\ DOMAIN s = 1 .. Len(s)
         /\ \A n \in DOMAIN s : s[n] \in Messages /\ s[n].num \in Nat
<1>1. Len(s) \in Nat /\ DOMAIN s = 1 .. Len(s)
  BY LenProperties
<1>2. \A n \in DOMAIN s : s[n] \in Messages
  BY <1>1, ElementOfSeq
<1> QED  BY <1>1, <1>2 DEF Messages

LEMMA Assoc ==
  ASSUME NEW s \in Seq(Messages), NEW t \in Seq(Messages), NEW u \in Seq(Messages)
  PROVE  (s \o t) \o u = s \o (t \o u)
<1> DEFINE x == (s \o t) \o u
           y == s \o (t \o u)
<1>1. x \in Seq(Messages) /\ y \in Seq(Messages)
  BY ConcatProperties
<1>2. /\ Len(x) = Len(s) + Len(t) + Len(u) /\ Len(y) = Len(x)
      /\ Len(s) \in Nat /\ Len(t) \in Nat /\ Len(u) \in Nat
  OBVIOUS
<1>3. \A i \in 1 .. Len(x) : x[i] = y[i]
  BY <1>2
<1> HIDE DEF x, y
<1>4. x = y
  BY <1>1, <1>2, <1>3, SeqEqual
<1> QED  BY <1>4 DEF x, y

LEMMA AssocFour ==
  ASSUME NEW w \in Seq(Messages), NEW s \in Seq(Messages),
         NEW q \in Seq(Messages), NEW t \in Seq(Messages)
  PROVE  w \o ((s \o q) \o t) = (w \o (s \o q)) \o t
<1> DEFINE x == s \o q
<1>1. x \in Seq(Messages)
  BY ConcatProperties
<1> HIDE DEF x
<1>2. (w \o x) \o t = w \o (x \o t)
  BY <1>1, Assoc, SMTT(60)
<1> QED  BY <1>2 DEF x

LEMMA NumsConcat ==
  ASSUME NEW s \in Seq(Messages), NEW t \in Seq(Messages)
  PROVE  Nums(s \o t) = Nums(s) \cup Nums(t)
<1> DEFINE u == s \o t
<1>1. /\ u \in Seq(Messages) /\ Len(u) = Len(s) + Len(t)
      /\ \A i \in 1 .. Len(s) + Len(t) :
           u[i] = IF i <= Len(s) THEN s[i] ELSE t[i - Len(s)]
  BY ConcatProperties
<1>2. /\ DOMAIN s = 1 .. Len(s) /\ DOMAIN t = 1 .. Len(t) /\ DOMAIN u = 1 .. Len(u)
      /\ Len(s) \in Nat /\ Len(t) \in Nat
  BY <1>1, MessageSeq
<1> HIDE DEF u
<1>3. ASSUME NEW n \in DOMAIN u PROVE u[n].num \in Nums(s) \cup Nums(t)
  <2>1. CASE n <= Len(s)
    BY <1>1, <1>2, <2>1 DEF Nums
  <2>2. CASE n > Len(s)
    <3>1. n - Len(s) \in DOMAIN t /\ u[n] = t[n - Len(s)]
      BY <1>1, <1>2, <2>2
    <3> QED  BY <3>1 DEF Nums
  <2> QED  BY <1>1, <1>2, <2>1, <2>2
<1>4. ASSUME NEW n \in DOMAIN s PROVE s[n].num \in Nums(u)
  BY <1>1, <1>2 DEF Nums
<1>5. ASSUME NEW n \in DOMAIN t PROVE t[n].num \in Nums(u)
  <2>1. n + Len(s) \in DOMAIN u /\ u[n + Len(s)] = t[n]
    BY <1>1, <1>2
  <2> QED  BY <2>1 DEF Nums
<1> QED  BY <1>3, <1>4, <1>5 DEF Nums, u

(* A concatenation is in order when its parts are, the first before the    *)
(* second.                                                                 *)
LEMMA OrderedConcat ==
  ASSUME NEW s \in Seq(Messages), NEW t \in Seq(Messages)
  PROVE  Ordered(s \o t) <=> Ordered(s) /\ Ordered(t) /\ Before(s, t)
<1> DEFINE u == s \o t
<1>1. /\ u \in Seq(Messages) /\ Len(u) = Len(s) + Len(t)
      /\ \A i \in 1 .. Len(s) + Len(t) :
           u[i] = IF i <= Len(s) THEN s[i] ELSE t[i - Len(s)]
  BY ConcatProperties
<1>2. /\ DOMAIN s = 1 .. Len(s) /\ DOMAIN t = 1 .. Len(t) /\ DOMAIN u = 1 .. Len(u)
      /\ Len(s) \in Nat /\ Len(t) \in Nat
  BY <1>1, MessageSeq
<1> HIDE DEF u
<1>a. /\ \A n \in DOMAIN s : n \in DOMAIN u /\ u[n] = s[n]
      /\ \A n \in DOMAIN t : n + Len(s) \in DOMAIN u /\ u[n + Len(s)] = t[n]
  BY <1>1, <1>2
<1>3. ASSUME Ordered(u) PROVE Ordered(s) /\ Ordered(t) /\ Before(s, t)
  <2>1. Ordered(s)
    BY <1>2, <1>3, <1>a DEF Ordered
  <2>2. Ordered(t)
    <3> SUFFICES ASSUME NEW m \in DOMAIN t, NEW n \in DOMAIN t, m < n,
                        t[m].num # 0, t[n].num # 0
                 PROVE  t[m].num < t[n].num
      BY DEF Ordered
    <3>1. m + Len(s) < n + Len(s)
      BY <1>2
    <3> QED  BY <1>3, <1>a, <3>1 DEF Ordered
  <2>3. Before(s, t)
    <3> SUFFICES ASSUME NEW m \in DOMAIN s, NEW n \in DOMAIN t,
                        s[m].num # 0, t[n].num # 0
                 PROVE  s[m].num < t[n].num
      BY DEF Before
    <3>1. m < n + Len(s)
      BY <1>2
    <3> QED  BY <1>3, <1>a, <3>1 DEF Ordered
  <2> QED  BY <2>1, <2>2, <2>3
<1>4. ASSUME Ordered(s), Ordered(t), Before(s, t) PROVE Ordered(u)
  <2> SUFFICES ASSUME NEW m \in DOMAIN u, NEW n \in DOMAIN u, m < n,
                      u[m].num # 0, u[n].num # 0
               PROVE  u[m].num < u[n].num
    BY DEF Ordered
  <2>1. CASE n <= Len(s)
    <3>1. m \in DOMAIN s /\ n \in DOMAIN s
      BY <1>2, <2>1
    <3> QED  BY <1>4, <1>a, <3>1 DEF Ordered
  <2>2. CASE m <= Len(s) /\ n > Len(s)
    <3>1. m \in DOMAIN s /\ n - Len(s) \in DOMAIN t
          /\ u[n] = t[n - Len(s)]
      BY <1>1, <1>2, <2>2
    <3> QED  BY <1>4, <1>a, <3>1 DEF Before
  <2>3. CASE m > Len(s)
    <3>1. /\ m - Len(s) \in DOMAIN t /\ n - Len(s) \in DOMAIN t
          /\ m - Len(s) < n - Len(s)
          /\ u[m] = t[m - Len(s)] /\ u[n] = t[n - Len(s)]
      BY <1>1, <1>2, <2>3
    <3> QED  BY <1>4, <3>1 DEF Ordered
  <2> QED  BY <1>1, <1>2, <2>1, <2>2, <2>3
<1> QED  BY <1>3, <1>4 DEF u

LEMMA BeforeNums ==
  ASSUME NEW s, NEW t
  PROVE  Before(s, t) <=> \A x \in Nums(s), y \in Nums(t) : x # 0 /\ y # 0 => x < y
BY DEF Before, Nums

LEMMA Single ==
  ASSUME NEW m \in Messages
  PROVE  /\ <<m>> \in Seq(Messages) /\ Nums(<<m>>) = {m.num} /\ Ordered(<<m>>)
         /\ Len(<<m>>) = 1 /\ <<m>>[1] = m
<1>1. DOMAIN <<m>> = {1} /\ <<m>>[1] = m /\ <<m>> \in Seq(Messages) /\ Len(<<m>>) = 1
  OBVIOUS
<1>2. Nums(<<m>>) = {m.num}
  BY <1>1 DEF Nums
<1> QED  BY <1>1, <1>2 DEF Ordered

(* A sequence is cut in two, wherever.                                     *)
LEMMA Cut ==
  ASSUME NEW s \in Seq(Messages), NEW n \in 0 .. Len(s)
  PROVE  /\ SubSeq(s, 1, n) \in Seq(Messages)
         /\ SubSeq(s, n + 1, Len(s)) \in Seq(Messages)
         /\ SubSeq(s, 1, n) \o SubSeq(s, n + 1, Len(s)) = s
         /\ Nums(s) = Nums(SubSeq(s, 1, n)) \cup Nums(SubSeq(s, n + 1, Len(s)))
<1>1. /\ SubSeq(s, 1, n) \in Seq(Messages)
      /\ SubSeq(s, n + 1, Len(s)) \in Seq(Messages)
  <2>1. Len(s) \in Nat /\ \A i \in 1 .. Len(s) : s[i] \in Messages
    BY MessageSeq
  <2>2. \A i \in 1 .. n : s[i] \in Messages
    BY <2>1
  <2>3. \A i \in n + 1 .. Len(s) : s[i] \in Messages
    BY <2>1
  <2> QED  BY <2>1, <2>2, <2>3, SubSeqProperties
<1>2. SubSeq(s, 1, n) \o SubSeq(s, n + 1, Len(s)) = s
  <2>1. SubSeq(s, 1, n) \o SubSeq(s, n + 1, Len(s)) = SubSeq(s, 1, Len(s))
    <3>1. /\ 1 \in 1 .. Len(s) + 1 /\ n \in 1 - 1 .. Len(s)
          /\ Len(s) \in n .. Len(s)
      BY MessageSeq
    <3> QED  BY <3>1, ConcatAdjacentSubSeq, Zenon
  <2> QED  BY <2>1, SubSeqFull
<1> QED  BY <1>1, <1>2, NumsConcat

LEMMA ExpiredCount ==
  ASSUME NEW s \in Seq(Messages)
  PROVE  Cardinality(Expired(s)) \in 0 .. Len(s)
<1>1. Len(s) \in Nat /\ DOMAIN s = 1 .. Len(s)
  BY MessageSeq
<1>2. IsFiniteSet(1 .. Len(s)) /\ Cardinality(1 .. Len(s)) = Len(s)
  BY <1>1, FS_Interval
<1>3. Expired(s) \subseteq 1 .. Len(s)
  BY <1>1 DEF Expired
<1>4. /\ IsFiniteSet(Expired(s)) /\ Cardinality(Expired(s)) <= Len(s)
  BY <1>2, <1>3, FS_Subset
<1> QED  BY <1>1, <1>4, FS_CardinalityType

LEMMA BatchType ==
  ASSUME NEW k \in Kinds, send_queue \in [Kinds -> Seq(Messages)]
  PROVE  /\ Batch(k) \in Seq(Messages) /\ AfterBatch(k) \in Seq(Messages)
         /\ Batch(k) \o AfterBatch(k) = send_queue[k]
<1> DEFINE s == send_queue[k]
           n == IF Len(s) < MaxPerPacket[k] THEN Len(s) ELSE MaxPerPacket[k]
<1>1. s \in Seq(Messages) /\ Len(s) \in Nat /\ MaxPerPacket[k] \in Nat
  BY WaveformSenderAssumption, MessageSeq
<1>2. n \in 0 .. Len(s)
  BY <1>1
<1>3. Batch(k) = SubSeq(s, 1, n)
  BY DEF Batch
<1> HIDE DEF n, s
<1>4. SubSeq(s, 1, n) \in Seq(Messages) /\ Len(SubSeq(s, 1, n)) = n
  <2>1. \A i \in 1 .. n : s[i] \in Messages
    BY <1>1, <1>2, MessageSeq
  <2> QED  BY <1>1, <1>2, <2>1, SubSeqProperties
<1>5. AfterBatch(k) = SubSeq(s, n + 1, Len(s))
  BY <1>3, <1>4 DEF AfterBatch, s
<1> QED  BY <1>1, <1>2, <1>3, <1>5, Cut DEF s

-----------------------------------------------------------------------------
(* The inductive invariant.                                                *)

All(k) == wire[k] \o send_queue[k] \o queue[k]

(* Where the threads are.                                                  *)
Control ==
  /\ shutdown > 0 => stop_signal
  /\ shutdown = 2 => Ending
  /\ step[1] = "closed" => shutdown = 2
  /\ caller = "running" <=> ~stop_signal
  /\ step[1] = "connect" => ~connected_to_amq /\ ~stop_signal

(* The messages on their way or sent.                                      *)
Held == UNION {Nums(All(k)) : k \in Kinds}

(* The messages, in one place and in order.                                *)
Placed ==
  /\ \A k \in Kinds : Ordered(All(k)) /\ NoNull(queue[k])
  /\ \A k, l \in Kinds : k # l => Nums(All(k)) \cap Nums(All(l)) \subseteq {0}
  /\ Held \ {0} = (1 .. sent_in) \ removed
  /\ removed \subseteq 1 .. sent_in

(* sendData has looked at the i-th kind since shutdown was raised.         *)
Past(i) ==
  \/ step[1] \in {"turn", "closed"}
  \/ step[1] \in {"take", "send"} /\ step[2] > i

Emptied ==
  /\ due \subseteq 1 .. sent_in
  /\ ~failed /\ shutdown > 0 => \A i \in 1 .. 3 :
       /\ Past(i) => due \cap (Nums(queue[KindAt[i]]) \cup Nums(send_queue[KindAt[i]])) = {}
       /\ step = <<"send", i>> => due \cap Nums(queue[KindAt[i]]) = {}

(* The trigger parameters sent and about to be sent.                       *)
Params == wire["trigparams"] \o send_queue["trigparams"]

NullOnce ==
  /\ \A n \in 1 .. Len(Params) : Params[n].num = 0 => n = Len(Params)
  /\ shutdown = 0 \/ step = <<"take", 1>> => NoNull(Params)
  /\ shutdown > 0 /\ step # <<"take", 1>> /\ step[1] # "exited" =>
       Params # <<>> /\ Params[Len(Params)].num = 0

IndInv ==
  /\ TypeOK /\ Control
  /\ IdsConsecutive /\ packet_id = Len(ids)
  /\ Placed /\ Emptied /\ NullOnce

-----------------------------------------------------------------------------
LEMMA Limits ==
  MaxTime \in Nat /\ MaxMessages \in Nat /\ MaxQueueTime \in Nat
BY WaveformSenderAssumption

LEMMA KindsAt ==
  /\ KindAt[1] = "trigparams" /\ KindAt[2] = "gmpeaks" /\ KindAt[3] = "triggers"
  /\ \A i \in 1 .. 3 : KindAt[i] \in Kinds
  /\ \A i, j \in 1 .. 3 : KindAt[i] = KindAt[j] => i = j
  /\ \A k \in Kinds : \E i \in 1 .. 3 : k = KindAt[i]
BY DEF KindAt, Kinds

LEMMA NextKindStep ==
  ASSUME NEW i \in 1 .. 3
  PROVE  /\ NextKind(i) \in SendSteps /\ NextKind(i) # <<"take", 1>>
         /\ NextKind(i)[1] = "turn" \/ NextKind(i) = <<"take", i + 1>>
         /\ NextKind(i)[1] = "turn" => i = 3
BY DEF NextKind, SendSteps

LEMMA NullIsMessage == TypeOK => Null \in Messages /\ Null.num = 0
BY WaveformSenderAssumption DEF TypeOK, Null, Messages

LEMMA Empty == /\ <<>> \in Seq(Messages) /\ Nums(<<>>) = {}
               /\ Ordered(<<>>) /\ NoNull(<<>>)
BY DEF Nums, Ordered, NoNull

LEMMA InitInv == Init => IndInv
<1> SUFFICES ASSUME Init PROVE IndInv
  OBVIOUS
<1> USE DEF Init
<1>1. TypeOK
  <2>1. <<"connect", 0>> \in SendSteps
    BY DEF SendSteps
  <2>2. [k \in Kinds |-> <<>>] \in [Kinds -> Seq(Messages)]
    BY Empty
  <2>3. ids \in Seq(Nat)
    OBVIOUS
  <2>4. /\ queue \in [Kinds -> Seq(Messages)]
        /\ send_queue \in [Kinds -> Seq(Messages)]
        /\ wire \in [Kinds -> Seq(Messages)]
        /\ step \in SendSteps
    BY <2>1, <2>2
  <2>5. queue_start \in [Kinds -> 0 .. MaxTime]
    BY Limits
  <2>6. /\ now \in 0 .. MaxTime /\ sent_in \in 0 .. MaxMessages
        /\ packet_id \in Nat /\ shutdown \in 0 .. 2
    BY Limits
  <2>7. /\ {connected_to_amq, transport_ok, stop_signal, sendLock, failed} \subseteq BOOLEAN
        /\ monitor \in {"test", "lock", "done"}
        /\ caller \in {"running", "stopping", "joined"}
        /\ removed \subseteq Nat /\ due \subseteq Nat
    OBVIOUS
  <2> HIDE DEF Init
  <2> QED  BY <2>3, <2>4, <2>5, <2>6, <2>7 DEF TypeOK
<1>2. Control /\ IdsConsecutive /\ packet_id = Len(ids)
  BY DEF Control, IdsConsecutive
<1>3. \A k \in Kinds : All(k) = <<>> /\ queue[k] = <<>>
  BY DEF All
<1>4. Placed
  BY <1>3, Empty DEF Placed, Held
<1>5. Emptied
  BY DEF Emptied
<1>6. Params = <<>>
  BY DEF Params, Kinds
<1>7. NullOnce
  BY <1>6, Empty DEF NullOnce
<1> QED  BY <1>1, <1>2, <1>4, <1>5, <1>7 DEF IndInv

(* The types.                                                              *)
LEMMA TypeStep ==
  ASSUME TypeOK, Control, [Next]_vars
  PROVE  TypeOK'
<1> USE Limits DEF TypeOK
<1>1. CASE Tick
  BY <1>1 DEF Tick, life
<1>2. ASSUME NEW k \in Kinds, Put(k) PROVE TypeOK'
  <2> DEFINE n == Cardinality(Expired(queue[k]))
             rest == SubSeq(queue[k], n + 1, Len(queue[k]))
             pre == SubSeq(queue[k], 1, n)
             new == [num |-> sent_in + 1, at |-> now]
  <2>1. /\ sent_in < MaxMessages /\ sent_in' = sent_in + 1
        /\ queue' = [queue EXCEPT ![k] = Append(rest, new)]
        /\ removed' = removed \cup Nums(pre)
        /\ queue_start' = IF queue[k] = <<>> /\ k # "triggers"
                          THEN [queue_start EXCEPT ![k] = now] ELSE queue_start
        /\ UNCHANGED <<now, send_queue, packet_id, step, connected_to_amq,
                       transport_ok, stop_signal, shutdown, sendLock, monitor,
                       caller, ids, wire, due, failed>>
    BY <1>2 DEF Put, life
  <2>2. n \in 0 .. Len(queue[k])
    BY ExpiredCount
  <2>3. queue[k] \in Seq(Messages)
    OBVIOUS
  <2>4. rest \in Seq(Messages) /\ pre \in Seq(Messages)
    BY <2>2, <2>3, Cut
  <2>5. new \in Messages
    BY DEF Messages
  <2>6. Append(rest, new) \in Seq(Messages)
    BY <2>4, <2>5
  <2>7. Nums(pre) \subseteq Nat
    BY <2>4, MessageSeq DEF Nums
  <2> HIDE DEF rest, new, pre
  <2>8. queue' \in [Kinds -> Seq(Messages)]
    BY <2>1, <2>6
  <2>9. queue_start' \in [Kinds -> 0 .. MaxTime]
    BY <2>1
  <2>10. removed' \subseteq Nat
    BY <2>1, <2>7
  <2>11. sent_in' \in 0 .. MaxMessages
    BY <2>1
  <2> QED  BY <2>1, <2>8, <2>9, <2>10, <2>11
<1>3. CASE TransportChanges
  BY <1>3 DEF TransportChanges, clock
<1>4. CASE Connect
  <2>1. <<"take", 1>> \in SendSteps
    BY DEF SendSteps
  <2> QED  BY <1>4, <2>1 DEF Connect, senderOnly, clock
<1>5. ASSUME NEW i \in 1 .. 3, Take(i) PROVE TypeOK'
  <2> DEFINE k == KindAt[i]
             last == IF k = "trigparams" /\ shutdown > 0 THEN <<Null>> ELSE <<>>
  <2>1. k \in Kinds
    BY KindsAt
  <2>2. queue[k] \in Seq(Messages) /\ send_queue[k] \in Seq(Messages)
    BY <2>1
  <2>3. last \in Seq(Messages)
    BY NullIsMessage, Empty
  <2>4. send_queue[k] \o queue[k] \o last \in Seq(Messages)
    BY <2>2, <2>3, ConcatProperties
  <2>5. <<"send", i>> \in SendSteps
    BY DEF SendSteps
  <2>6. /\ send_queue' \in [Kinds -> Seq(Messages)]
        /\ queue' \in [Kinds -> Seq(Messages)]
    <3>1. CASE k = "triggers" \/ IsDue(k)
      <4>1. /\ send_queue' = [send_queue EXCEPT ![k] = send_queue[k] \o queue[k] \o last]
            /\ queue' = [queue EXCEPT ![k] = <<>>]
        BY <1>5, <2>1, <3>1 DEF Take
      <4> HIDE DEF k, last
      <4> QED  BY <2>4, <4>1, Empty
    <3>2. CASE ~(k = "triggers" \/ IsDue(k))
      BY <1>5, <3>2 DEF Take
    <3> QED  BY <3>1, <3>2
  <2> HIDE DEF k, last
  <2> QED  BY <1>5, <2>5, <2>6 DEF Take, senderOnly, clock
<1>6. ASSUME NEW i \in 1 .. 3, BeginSend(i) PROVE TypeOK'
  BY <1>6 DEF BeginSend, senderOnly, clock
<1>7. ASSUME NEW i \in 1 .. 3, Sent(i) PROVE TypeOK'
  <2> DEFINE k == KindAt[i]
  <2>1. k \in Kinds
    BY KindsAt
  <2>2. Batch(k) \in Seq(Messages) /\ AfterBatch(k) \in Seq(Messages)
    BY <2>1, BatchType
  <2>3. wire[k] \in Seq(Messages)
    BY <2>1
  <2>4. wire[k] \o Batch(k) \in Seq(Messages)
    BY <2>2, <2>3, ConcatProperties
  <2>5. /\ wire' = [wire EXCEPT ![k] = wire[k] \o Batch(k)]
        /\ send_queue' = [send_queue EXCEPT ![k] = AfterBatch(k)]
        /\ ids' = Append(ids, packet_id) /\ packet_id' = packet_id + 1
        /\ sendLock' = FALSE
    BY <1>7, <2>1 DEF Sent
  <2>6. ids' \in Seq(Nat) /\ packet_id' \in Nat
    BY <2>5
  <2> HIDE DEF k
  <2>7. /\ wire' \in [Kinds -> Seq(Messages)]
        /\ send_queue' \in [Kinds -> Seq(Messages)]
    BY <2>2, <2>4, <2>5
  <2>8. UNCHANGED <<now, sent_in, monitor, caller, due, transport_ok, stop_signal,
                    queue, queue_start, step, shutdown, removed, failed,
                    connected_to_amq>>
    BY <1>7 DEF Sent, senderOnly, clock
  <2> QED  BY <2>5, <2>6, <2>7, <2>8
<1>8. ASSUME NEW i \in 1 .. 3, NotSent(i) PROVE TypeOK'
  BY <1>8, NextKindStep DEF NotSent, IdAfterFailure, senderOnly, clock
<1>9. ASSUME NEW i \in 1 .. 3, AllSent(i) PROVE TypeOK'
  BY <1>9, NextKindStep DEF AllSent, senderOnly, clock
<1>10. CASE Turn
  <2>1. shutdown' \in 0 .. 2
    BY <1>10 DEF Turn, Control, Ending
  <2>2. <<"closed", 0>> \in SendSteps /\ <<"take", 1>> \in SendSteps
    BY DEF SendSteps
  <2>3. step' \in SendSteps
    BY <1>10, <2>2 DEF Turn
  <2> QED  BY <1>10, <2>1, <2>3 DEF Turn, senderOnly, clock
<1>11. CASE Monitor
  <2>1. <<"exited", 0>> \in SendSteps
    BY DEF SendSteps
  <2>2. /\ step' \in SendSteps /\ monitor' \in {"test", "lock", "done"}
        /\ UNCHANGED monitorOnly
    BY <1>11, <2>1 DEF Monitor, MonitorTest, MonitorLocks, SendTakesTooLong
  <2> QED  BY <2>2 DEF monitorOnly, clock, life
<1>12. CASE Stop
  BY <1>12 DEF Stop, callerOnly, clock
<1>13. CASE Join
  BY <1>13 DEF Join, callerOnly, clock
<1>14. CASE UNCHANGED vars
  BY <1>14 DEF vars
<1> QED  BY <1>1, <1>2, <1>3, <1>4, <1>5, <1>6, <1>7, <1>8, <1>9, <1>10, <1>11,
            <1>12, <1>13, <1>14 DEF Next, SendData

(* Where the threads are, and the ids of the packets.                      *)
LEMMA ControlStep ==
  ASSUME TypeOK, Control, [Next]_vars
  PROVE  Control'
<1> USE DEF Control, Ending
<1>1. shutdown \in Nat
  BY DEF TypeOK
<1>2. CASE Tick \/ TransportChanges \/ (\E k \in Kinds : Put(k)) \/ UNCHANGED vars
  BY <1>2 DEF Tick, TransportChanges, Put, clock, life, vars
<1>3. CASE Connect
  BY <1>3 DEF Connect, senderOnly, clock
<1>4. CASE \E i \in 1 .. 3 : Take(i) \/ BeginSend(i) \/ Sent(i)
  <2>1. PICK i \in 1 .. 3 : Take(i) \/ BeginSend(i) \/ Sent(i)
    BY <1>4
  <2>2. step = <<"take", i>> \/ step = <<"send", i>>
    BY <2>1 DEF Take, BeginSend, Sent
  <2>3. step' = <<"send", i>> \/ step' = step
    BY <2>1 DEF Take, BeginSend, Sent
  <2>4. Sent(i) \/ BeginSend(i) => step = <<"send", i>>
    BY DEF BeginSend, Sent
  <2>5. UNCHANGED <<shutdown, stop_signal, caller, connected_to_amq>>
    BY <2>1 DEF Take, BeginSend, Sent, senderOnly
  <2> QED  BY <2>2, <2>3, <2>5
<1>5. CASE \E i \in 1 .. 3 : NotSent(i) \/ AllSent(i)
  <2>1. /\ UNCHANGED <<shutdown, stop_signal, caller, connected_to_amq>>
        /\ step[1] = "send" /\ step'[1] \in {"take", "turn"}
    BY <1>5, NextKindStep DEF NotSent, AllSent, senderOnly, clock
  <2> QED  BY <2>1
<1>6. CASE Turn
  <2>1. shutdown \in {0, 1} /\ (shutdown = 1 => stop_signal)
    BY <1>6 DEF Turn, TypeOK
  <2>2. UNCHANGED <<stop_signal, caller, connected_to_amq>>
    BY <1>6 DEF Turn, senderOnly
  <2> QED  BY <1>6, <2>1, <2>2 DEF Turn, LastTurn
<1>7. CASE Monitor
  <2>1. /\ step' = step \/ step' = <<"exited", 0>>
        /\ UNCHANGED <<shutdown, stop_signal, caller, connected_to_amq>>
    BY <1>7 DEF Monitor, MonitorTest, MonitorLocks, SendTakesTooLong,
               monitorOnly, life
  <2> QED  BY <2>1
<1>8. CASE Stop
  BY <1>8 DEF Stop, callerOnly
<1>9. CASE Join
  BY <1>9 DEF Join, callerOnly
<1> QED  BY <1>2, <1>3, <1>4, <1>5, <1>6, <1>7, <1>8, <1>9 DEF Next, SendData

LEMMA IdsStep ==
  ASSUME TypeOK, IdsConsecutive, packet_id = Len(ids), [Next]_vars
  PROVE  IdsConsecutive' /\ packet_id' = Len(ids')
<1>1. ids \in Seq(Nat)
  BY DEF TypeOK
<1>2. CASE \E i \in 1 .. 3 : Sent(i)
  <2>1. ids' = Append(ids, packet_id) /\ packet_id' = packet_id + 1
    BY <1>2 DEF Sent
  <2>2. /\ Len(ids) \in Nat /\ Len(ids') = Len(ids) + 1
        /\ \A n \in 1 .. Len(ids) : ids'[n] = ids[n]
        /\ ids'[Len(ids) + 1] = packet_id
    BY <1>1, <2>1
  <2> QED  BY <2>1, <2>2 DEF IdsConsecutive
<1>3. CASE UNCHANGED <<ids, packet_id>>
  BY <1>3 DEF IdsConsecutive
<1>4. [Next]_vars => (\E i \in 1 .. 3 : Sent(i)) \/ UNCHANGED <<ids, packet_id>>
  BY DEF Next, SendData, Tick, TransportChanges, Put, Connect, Turn, Take,
         BeginSend, NotSent, AllSent, IdAfterFailure, Monitor, MonitorTest,
         MonitorLocks, SendTakesTooLong, monitorOnly, Stop, Join, callerOnly, vars
<1> QED  BY <1>2, <1>3, <1>4

-----------------------------------------------------------------------------
(* The messages.                                                           *)

LEMMA MovingSteps ==
  ASSUME [Next]_vars
  PROVE  \/ \E k \in Kinds : Put(k)
         \/ \E i \in 1 .. 3 : Take(i) \/ Sent(i)
         \/ UNCHANGED <<queue, send_queue, wire, sent_in, removed>>
BY DEF Next, SendData, Tick, TransportChanges, Connect, Turn, BeginSend, NotSent,
       AllSent, Monitor, MonitorTest, MonitorLocks, SendTakesTooLong, monitorOnly,
       Stop, Join, callerOnly, vars, clock, senderOnly

LEMMA AllType ==
  ASSUME TypeOK, NEW k \in Kinds
  PROVE  /\ wire[k] \in Seq(Messages) /\ send_queue[k] \in Seq(Messages)
         /\ queue[k] \in Seq(Messages)
         /\ wire[k] \o send_queue[k] \in Seq(Messages)
         /\ All(k) \in Seq(Messages)
         /\ Nums(All(k)) = Nums(wire[k]) \cup Nums(send_queue[k]) \cup Nums(queue[k])
         /\ Nums(wire[k] \o send_queue[k]) = Nums(wire[k]) \cup Nums(send_queue[k])
<1>1. /\ wire[k] \in Seq(Messages) /\ send_queue[k] \in Seq(Messages)
      /\ queue[k] \in Seq(Messages)
  BY DEF TypeOK
<1>2. /\ wire[k] \o send_queue[k] \in Seq(Messages)
      /\ Nums(wire[k] \o send_queue[k]) = Nums(wire[k]) \cup Nums(send_queue[k])
  BY <1>1, ConcatProperties, NumsConcat
<1>3. /\ All(k) \in Seq(Messages)
      /\ Nums(All(k)) = Nums(wire[k] \o send_queue[k]) \cup Nums(queue[k])
  BY <1>1, <1>2, ConcatProperties, NumsConcat DEF All
<1> QED  BY <1>1, <1>2, <1>3

(* A packet moves its messages from the second queue to the wire.          *)
LEMMA SentPlaces ==
  ASSUME TypeOK, NEW i \in 1 .. 3, Sent(i), NEW k \in Kinds
  PROVE  /\ wire'[k] \o send_queue'[k] = wire[k] \o send_queue[k]
         /\ queue'[k] = queue[k]
<1>1. /\ wire' = [wire EXCEPT ![KindAt[i]] = wire[KindAt[i]] \o Batch(KindAt[i])]
      /\ send_queue' = [send_queue EXCEPT ![KindAt[i]] = AfterBatch(KindAt[i])]
      /\ queue' = queue
  BY DEF Sent
<1>2. CASE k # KindAt[i]
  BY <1>1, <1>2 DEF TypeOK
<1>3. CASE k = KindAt[i]
  <2>1. wire'[k] = wire[k] \o Batch(k) /\ send_queue'[k] = AfterBatch(k)
    BY <1>1, <1>3 DEF TypeOK
  <2>2. /\ Batch(k) \in Seq(Messages) /\ AfterBatch(k) \in Seq(Messages)
        /\ Batch(k) \o AfterBatch(k) = send_queue[k]
        /\ wire[k] \in Seq(Messages)
    BY BatchType DEF TypeOK
  <2>3. (wire[k] \o Batch(k)) \o AfterBatch(k)
          = wire[k] \o (Batch(k) \o AfterBatch(k))
    BY <2>2, Assoc, Zenon
  <2> QED  BY <1>1, <2>1, <2>2, <2>3
<1> QED  BY <1>2, <1>3

(* sendData appends what is due, and perhaps the null one, to the second   *)
(* queue.                                                                  *)
LEMMA TakePlaces ==
  ASSUME TypeOK, NEW i \in 1 .. 3, Take(i), NEW k \in Kinds
  PROVE  \/ UNCHANGED <<queue[k], send_queue[k], wire[k]>>
            /\ ~(k = "trigparams" /\ i = 1 /\ shutdown > 0)
         \/ \E last \in {<<>>, <<Null>>} :
              /\ k = KindAt[i]
              /\ last = <<Null>> <=> k = "trigparams" /\ shutdown > 0
              /\ wire'[k] = wire[k] /\ queue'[k] = <<>>
              /\ send_queue'[k] = send_queue[k] \o queue[k] \o last
              /\ All(k)' = All(k) \o last
<1> DEFINE last == IF k = "trigparams" /\ shutdown > 0 THEN <<Null>> ELSE <<>>
<1>1. UNCHANGED wire
  BY DEF Take
<1>2. CASE k # KindAt[i]
  <2>1. UNCHANGED <<queue[k], send_queue[k]>>
    BY <1>2 DEF Take, TypeOK
  <2> QED  BY <1>1, <1>2, <2>1, KindsAt
<1>3. CASE k = KindAt[i] /\ ~(k = "triggers" \/ IsDue(k))
  <2>1. shutdown <= 0
    BY <1>3 DEF IsDue, TypeOK
  <2>2. UNCHANGED <<queue, send_queue>>
    BY <1>3 DEF Take
  <2> QED  BY <1>1, <2>1, <2>2 DEF TypeOK
<1>4. CASE k = KindAt[i] /\ (k = "triggers" \/ IsDue(k))
  <2>1. /\ send_queue' = [send_queue EXCEPT ![k] = send_queue[k] \o queue[k] \o last]
        /\ queue' = [queue EXCEPT ![k] = <<>>]
    BY <1>4 DEF Take
  <2> HIDE DEF last
  <2>2. /\ send_queue'[k] = send_queue[k] \o queue[k] \o last
        /\ queue'[k] = <<>>
    BY <2>1 DEF TypeOK
  <2>3. last \in {<<>>, <<Null>>} /\ last \in Seq(Messages)
        /\ (last = <<Null>> <=> k = "trigparams" /\ shutdown > 0)
    BY NullIsMessage, Empty DEF last
  <2> DEFINE w == wire[k]  s == send_queue[k]  q == queue[k]
  <2>4. w \in Seq(Messages) /\ s \in Seq(Messages) /\ q \in Seq(Messages)
    BY AllType
  <2>5. All(k)' = (w \o ((s \o q) \o last)) \o <<>>
    BY <1>1, <2>2 DEF All
  <2>6. All(k) = (w \o s) \o q
    BY DEF All
  <2> HIDE DEF w, s, q
  <2>7. s \o q \in Seq(Messages) /\ (s \o q) \o last \in Seq(Messages)
    BY <2>3, <2>4, ConcatProperties
  <2>8. w \o ((s \o q) \o last) \in Seq(Messages)
    BY <2>4, <2>7, ConcatProperties
  <2>9. (w \o ((s \o q) \o last)) \o <<>> = w \o ((s \o q) \o last)
    BY <2>8, ConcatEmptySeq
  <2>10. w \o ((s \o q) \o last) = (w \o (s \o q)) \o last
    BY <2>3, <2>4, AssocFour, SMTT(60)
  <2>11. w \o (s \o q) = (w \o s) \o q
    BY <2>4, Assoc, SMTT(60)
  <2>12. All(k)' = All(k) \o last
    BY <2>5, <2>6, <2>9, <2>10, <2>11
  <2> QED  BY <1>1, <1>4, <2>2, <2>3, <2>12
<1> QED  BY <1>2, <1>3, <1>4

(* put drops the oldest of the first queue and appends a message with a    *)
(* number of its own.                                                      *)
LEMMA PutPlaces ==
  ASSUME TypeOK, NEW k \in Kinds, Put(k)
  PROVE  \E pre, rest \in Seq(Messages) :
           /\ queue[k] = pre \o rest
           /\ queue'[k] = rest \o <<[num |-> sent_in + 1, at |-> now]>>
           /\ [num |-> sent_in + 1, at |-> now] \in Messages
           /\ removed' = removed \cup Nums(pre)
           /\ sent_in' = sent_in + 1
           /\ UNCHANGED <<wire, send_queue, step, shutdown, due, failed>>
           /\ \A l \in Kinds : l # k => queue'[l] = queue[l]
<1> DEFINE n == Cardinality(Expired(queue[k]))
           rest == SubSeq(queue[k], n + 1, Len(queue[k]))
           pre == SubSeq(queue[k], 1, n)
           new == [num |-> sent_in + 1, at |-> now]
<1>1. /\ queue' = [queue EXCEPT ![k] = Append(rest, new)]
      /\ removed' = removed \cup Nums(pre)
      /\ sent_in' = sent_in + 1
      /\ UNCHANGED <<wire, send_queue, step, shutdown, due, failed>>
  BY DEF Put
<1>2. queue[k] \in Seq(Messages) /\ n \in 0 .. Len(queue[k])
  BY ExpiredCount DEF TypeOK
<1>3. rest \in Seq(Messages) /\ pre \in Seq(Messages) /\ pre \o rest = queue[k]
  BY <1>2, Cut
<1>4. new \in Messages
  BY Limits DEF Messages, TypeOK
<1> HIDE DEF rest, pre, new
<1>5. Append(rest, new) = rest \o <<new>>
  BY <1>3, <1>4, AppendIsConcat
<1>6. queue'[k] = rest \o <<new>> /\ \A l \in Kinds : l # k => queue'[l] = queue[l]
  BY <1>1, <1>5 DEF TypeOK
<1> QED  BY <1>1, <1>3, <1>4, <1>6 DEF new

LEMMA PlacedStep ==
  ASSUME TypeOK, TypeOK', Placed, [Next]_vars
  PROVE  Placed'
<1>0. /\ \A x : x \in Held <=> \E k \in Kinds : x \in Nums(All(k))
      /\ \A x : x \in Held' <=> \E k \in Kinds : x \in Nums(All(k)')
  BY DEF Held
<1>1. ASSUME \A k \in Kinds : All(k)' = All(k) /\ NoNull(queue'[k]),
             UNCHANGED <<sent_in, removed>>
      PROVE  Placed'
  <2>1. Held' = Held
    BY <1>0, <1>1
  <2> QED  BY <1>1, <2>1 DEF Placed
<1>2. ASSUME NEW i \in 1 .. 3, Sent(i) PROVE Placed'
  <2>1. \A k \in Kinds : All(k)' = All(k) /\ NoNull(queue'[k])
    BY <1>2, SentPlaces DEF All, Placed
  <2>2. UNCHANGED <<sent_in, removed>>
    BY <1>2 DEF Sent, senderOnly, clock
  <2> QED  BY <1>1, <2>1, <2>2
<1>3. ASSUME NEW i \in 1 .. 3, Take(i) PROVE Placed'
  <2>1. ASSUME NEW k \in Kinds
        PROVE  /\ Ordered(All(k)') /\ NoNull(queue'[k])
               /\ Nums(All(k)') \ {0} = Nums(All(k)) \ {0}
    <3>1. CASE UNCHANGED <<queue[k], send_queue[k], wire[k]>>
      BY <3>1 DEF All, Placed
    <3>2. ASSUME NEW last \in {<<>>, <<Null>>},
                 All(k)' = All(k) \o last, queue'[k] = <<>>
          PROVE  /\ Ordered(All(k)') /\ NoNull(queue'[k])
                 /\ Nums(All(k)') \ {0} = Nums(All(k)) \ {0}
      <4>1. /\ last \in Seq(Messages) /\ Nums(last) \subseteq {0}
            /\ Ordered(last)
        BY NullIsMessage, Empty, Single
      <4>2. Before(All(k), last)
        BY <4>1, BeforeNums
      <4>3. Ordered(All(k)) /\ All(k) \in Seq(Messages)
        BY AllType DEF Placed
      <4>4. Ordered(All(k) \o last) /\ Nums(All(k) \o last) = Nums(All(k)) \cup Nums(last)
        BY <4>1, <4>2, <4>3, OrderedConcat, NumsConcat
      <4> QED  BY <3>2, <4>1, <4>4, Empty
    <3> QED  BY <1>3, <3>1, <3>2, TakePlaces
  <2>2. UNCHANGED <<sent_in, removed>>
    BY <1>3 DEF Take, senderOnly, clock
  <2>3. Held' \ {0} = Held \ {0}
    BY <1>0, <2>1
  <2>4. \A k, l \in Kinds : k # l => Nums(All(k)') \cap Nums(All(l)') \subseteq {0}
    <3> SUFFICES ASSUME NEW k \in Kinds, NEW l \in Kinds, k # l,
                        NEW x \in Nums(All(k)') \cap Nums(All(l)'), x # 0
                 PROVE  FALSE
      OBVIOUS
    <3>1. x \in Nums(All(k)) /\ x \in Nums(All(l))
      BY <2>1
    <3> QED  BY <3>1 DEF Placed
  <2> QED  BY <2>1, <2>2, <2>3, <2>4 DEF Placed
<1>4. ASSUME NEW k \in Kinds, Put(k) PROVE Placed'
  <2> DEFINE new == [num |-> sent_in + 1, at |-> now]
  <2>1. PICK pre \in Seq(Messages), rest \in Seq(Messages) :
          /\ queue[k] = pre \o rest
          /\ queue'[k] = rest \o <<new>>
          /\ new \in Messages
          /\ removed' = removed \cup Nums(pre)
          /\ sent_in' = sent_in + 1
          /\ UNCHANGED <<wire, send_queue>>
          /\ \A l \in Kinds : l # k => queue'[l] = queue[l]
    BY <1>4, PutPlaces
  <2> DEFINE ws == wire[k] \o send_queue[k]
             N == sent_in + 1
  <2>2. /\ ws \in Seq(Messages) /\ queue[k] \in Seq(Messages)
        /\ <<new>> \in Seq(Messages) /\ Nums(<<new>>) = {N} /\ Ordered(<<new>>)
        /\ N \in Nat /\ N # 0 /\ sent_in \in Nat
    <3>1. new.num = N
      OBVIOUS
    <3>2. sent_in \in Nat
      BY Limits DEF TypeOK
    <3> QED  BY <2>1, <3>1, <3>2, AllType, Single
  <2>a. 0 \notin Nums(queue[k])
    BY DEF Placed, NoNull, Nums
  <2>3. All(k) = ws \o queue[k] /\ All(k)' = ws \o queue'[k]
    BY <2>1 DEF All
  <2> HIDE DEF new, ws, N
  <2>4. /\ Nums(queue[k]) = Nums(pre) \cup Nums(rest)
        /\ Nums(queue'[k]) = Nums(rest) \cup {N}
        /\ queue'[k] \in Seq(Messages)
        /\ Nums(All(k)) = Nums(ws) \cup Nums(pre) \cup Nums(rest)
        /\ Nums(All(k)') = Nums(ws) \cup Nums(rest) \cup {N}
    <3>1. Nums(queue[k]) = Nums(pre) \cup Nums(rest)
      BY <2>1, NumsConcat
    <3>2. /\ Nums(queue'[k]) = Nums(rest) \cup {N}
          /\ queue'[k] \in Seq(Messages)
      <4>1. rest \o <<new>> \in Seq(Messages)
        BY <2>2, ConcatProperties
      <4>2. Nums(rest \o <<new>>) = Nums(rest) \cup Nums(<<new>>)
        BY <2>2, NumsConcat
      <4> QED  BY <2>1, <2>2, <4>1, <4>2
    <3>3. /\ Nums(All(k)) = Nums(ws) \cup Nums(queue[k])
          /\ Nums(All(k)') = Nums(ws) \cup Nums(queue'[k])
      BY <2>2, <2>3, <3>2, NumsConcat
    <3> QED  BY <3>1, <3>2, <3>3
  <2>5. /\ Ordered(ws) /\ Ordered(pre \o rest) /\ Before(ws, queue[k])
        /\ Ordered(rest) /\ Before(pre, rest)
    <3>1. Ordered(ws \o queue[k])
      BY <2>3 DEF Placed
    <3>2. Ordered(ws) /\ Ordered(queue[k]) /\ Before(ws, queue[k])
      BY <2>2, <3>1, OrderedConcat
    <3> QED  BY <2>1, <3>2, OrderedConcat
  <2>6. Held \ {0} \subseteq 1 .. sent_in
    BY DEF Placed
  <2>7. \A x \in Held : x # 0 => x < N
    BY <2>2, <2>6 DEF N
  <2>8. Ordered(All(k)')
    <3>0. \A x \in Nums(All(k)) : x # 0 => x < N
      BY <1>0, <2>7
    <3>1. Before(rest, <<new>>)
      BY <2>2, <2>4, <3>0, BeforeNums
    <3>2. Ordered(queue'[k])
      <4>1. Ordered(rest \o <<new>>)
        BY <2>2, <2>5, <3>1, OrderedConcat
      <4> QED  BY <2>1, <4>1
    <3>3. Before(ws, queue'[k])
      BY <2>4, <2>5, <3>0, BeforeNums
    <3> QED  BY <2>2, <2>3, <2>4, <2>5, <3>2, <3>3, OrderedConcat
  <2>9. NoNull(queue'[k])
    <3>1. 0 \notin Nums(queue[k])
      BY DEF Placed, NoNull, Nums
    <3>2. 0 \notin Nums(queue'[k])
      BY <2>2, <2>4, <3>1
    <3> QED  BY <3>2 DEF NoNull, Nums
  <2>10. \A l \in Kinds : l # k => All(l)' = All(l) /\ queue'[l] = queue[l]
    BY <2>1 DEF All
  <2>11. Nums(pre) \cap (Nums(ws) \cup Nums(rest)) \subseteq {0}
    <3>1. \A x \in Nums(pre), y \in Nums(rest) : x # 0 /\ y # 0 => x < y
      BY <2>5, BeforeNums
    <3>2. \A x \in Nums(ws), y \in Nums(pre) : x # 0 /\ y # 0 => x < y
      BY <2>4, <2>5, BeforeNums
    <3>3. Nums(pre) \subseteq Nat /\ \A x \in Nat : ~(x < x)
      BY MessageSeq DEF Nums
    <3> QED  BY <3>1, <3>2, <3>3
  <2>12. \A l \in Kinds : l # k =>
           /\ Nums(All(l)) \cap Nums(All(k)) \subseteq {0}
           /\ N \notin Nums(All(l))
    <3>1. N \notin Held
      <4>1. ~(N < N)
        BY <2>2
      <4> QED  BY <2>2, <2>7, <4>1
    <3> QED  BY <1>0, <3>1 DEF Placed
  <2> DEFINE H == Held \ {0}
             G == Held' \ {0}
             P == Nums(pre)
  <2>13. 0 \notin P /\ P \subseteq H
    BY <1>0, <2>a, <2>4
  <2>14. G = (H \ P) \cup {N} /\ removed' \subseteq 1 .. sent_in'
         /\ G = (1 .. sent_in') \ removed'
    <3>2. ASSUME NEW x \in G PROVE x \in (H \ P) \cup {N}
      <4>1. PICK l \in Kinds : x \in Nums(All(l)')
        BY <1>0
      <4>2. CASE l = k
        <5>1. x \in Nums(ws) \cup Nums(rest) \cup {N} /\ x # 0
          BY <2>4, <4>1, <4>2
        <5>2. CASE x # N
          <6>1. x \in Nums(All(k)) /\ x \notin P
            BY <2>4, <2>11, <5>1, <5>2
          <6> QED  BY <1>0, <5>1, <6>1
        <5> QED  BY <5>2
      <4>3. CASE l # k
        <5>1. x \in Nums(All(l)) /\ x # 0
          BY <2>10, <4>1, <4>3
        <5>2. x \notin P
          BY <2>4, <2>12, <4>3, <5>1
        <5> QED  BY <1>0, <5>1, <5>2
      <4> QED  BY <4>2, <4>3
    <3>3. ASSUME NEW x \in (H \ P) \cup {N} PROVE x \in G
      <4>1. CASE x = N
        <5>1. x \in Nums(All(k)') /\ x # 0
          BY <2>2, <2>4, <4>1
        <5> QED  BY <1>0, <5>1
      <4>2. CASE x # N
        <5>1. x \in Held /\ x # 0 /\ x \notin P
          BY <3>3, <4>2
        <5>2. PICK l \in Kinds : x \in Nums(All(l))
          BY <1>0, <5>1
        <5>3. x \in Nums(All(l)')
          BY <2>4, <2>10, <5>1, <5>2
        <5> QED  BY <1>0, <5>1, <5>3
      <4> QED  BY <4>1, <4>2
    <3>4. G = (H \ P) \cup {N}
      BY <3>2, <3>3
    <3>5. H = (1 .. sent_in) \ removed /\ removed \subseteq 1 .. sent_in
      BY DEF Placed
    <3>6. 1 .. sent_in' = (1 .. sent_in) \cup {N} /\ N \notin 1 .. sent_in
      BY <2>1, <2>2 DEF N
    <3> HIDE DEF H, G, P
    <3>7. removed' = removed \cup P
      BY <2>1 DEF P
    <3>8. N \notin removed /\ N \notin P
      BY <2>13, <3>5, <3>6
    <3>9. G = (1 .. sent_in') \ removed'
      BY <2>13, <3>4, <3>5, <3>6, <3>7, <3>8
    <3> QED  BY <2>13, <3>4, <3>5, <3>6, <3>7, <3>9
  <2>15. \A l \in Kinds : Ordered(All(l)') /\ NoNull(queue'[l])
    BY <2>8, <2>9, <2>10 DEF Placed
  <2>16. \A l, m \in Kinds : l # m => Nums(All(l)') \cap Nums(All(m)') \subseteq {0}
    BY <2>4, <2>10, <2>12 DEF Placed
  <2> QED  BY <2>14, <2>15, <2>16 DEF Placed
<1>5. CASE UNCHANGED <<queue, send_queue, wire, sent_in, removed>>
  BY <1>1, <1>5 DEF All, Placed
<1> QED  BY <1>2, <1>3, <1>4, <1>5, MovingSteps

(* After stop, what was put in before has left the queues when sendData    *)
(* has passed them.                                                        *)
LEMMA EmptiedStep ==
  ASSUME TypeOK, Control, Placed, Emptied, [Next]_vars
  PROVE  Emptied'
<1>1. /\ shutdown \in Nat /\ sent_in \in Nat /\ due \subseteq 1 .. sent_in
      /\ 0 \notin due
  BY Limits DEF TypeOK, Emptied
<1>2. ASSUME UNCHANGED <<queue, send_queue, due, failed, shutdown, sent_in>>,
             step' = step \/ step'[1] = "exited"
      PROVE  Emptied'
  BY <1>2 DEF Emptied, Past
<1>3. CASE Tick \/ TransportChanges \/ UNCHANGED vars
  BY <1>2, <1>3 DEF Tick, TransportChanges, clock, life, vars
<1>4. ASSUME NEW k \in Kinds, Put(k) PROVE Emptied'
  <2> DEFINE new == [num |-> sent_in + 1, at |-> now]
  <2>1. PICK pre \in Seq(Messages), rest \in Seq(Messages) :
          /\ queue[k] = pre \o rest /\ queue'[k] = rest \o <<new>>
          /\ new \in Messages /\ sent_in' = sent_in + 1
          /\ UNCHANGED <<send_queue, step, shutdown, due, failed>>
          /\ \A l \in Kinds : l # k => queue'[l] = queue[l]
    BY <1>4, PutPlaces
  <2>2. Nums(queue[k]) = Nums(pre) \cup Nums(rest)
    BY <2>1, NumsConcat
  <2>3. Nums(queue'[k]) = Nums(rest) \cup {sent_in + 1}
    <3>1. <<new>> \in Seq(Messages) /\ Nums(<<new>>) = {sent_in + 1}
      BY <2>1, Single
    <3>2. Nums(rest \o <<new>>) = Nums(rest) \cup Nums(<<new>>)
      BY <3>1, NumsConcat
    <3> QED  BY <2>1, <3>1, <3>2
  <2>4. sent_in + 1 \notin due
    BY <1>1
  <2>5. ASSUME NEW l \in Kinds
        PROVE  due \cap Nums(queue'[l]) \subseteq due \cap Nums(queue[l])
    BY <2>1, <2>2, <2>3, <2>4
  <2>6. \A l \in Kinds : due \cap Nums(queue[l]) = {} => due \cap Nums(queue'[l]) = {}
    BY <2>5
  <2>7. due \subseteq 1 .. sent_in'
    BY <1>1, <2>1
  <2> QED  BY <2>1, <2>6, <2>7, KindsAt DEF Emptied, Past
<1>5. CASE Connect
  BY <1>1, <1>5 DEF Connect, senderOnly, clock, Control, Emptied
<1>6. ASSUME NEW i \in 1 .. 3, Take(i) PROVE Emptied'
  <2>1. /\ UNCHANGED <<due, failed, shutdown, sent_in>>
        /\ step = <<"take", i>> /\ step' = <<"send", i>>
    BY <1>6 DEF Take, senderOnly, clock
  <2>2. ASSUME shutdown > 0
        PROVE  queue'[KindAt[i]] = <<>>
    BY <1>6, <2>2, KindsAt DEF Take, IsDue, TypeOK
  <2>3. ASSUME NEW j \in 1 .. 3, j # i
        PROVE  UNCHANGED <<queue[KindAt[j]], send_queue[KindAt[j]]>>
    <3>1. KindAt[j] # KindAt[i] /\ KindAt[j] \in Kinds
      BY <2>3, KindsAt
    <3> QED  BY <1>6, <3>1 DEF Take, TypeOK
  <2>4. ASSUME NEW j \in 1 .. 3, Past(j)'
        PROVE  j # i /\ Past(j)
    BY <2>1, <2>4 DEF Past
  <2>5. ASSUME NEW j \in 1 .. 3, step' = <<"send", j>> PROVE j = i
    BY <2>1, <2>5
  <2> QED  BY <2>1, <2>2, <2>3, <2>4, <2>5, Empty DEF Emptied
<1>7. ASSUME NEW i \in 1 .. 3, BeginSend(i) PROVE Emptied'
  BY <1>2, <1>7 DEF BeginSend, senderOnly, clock
<1>8. ASSUME NEW i \in 1 .. 3, Sent(i) PROVE Emptied'
  <2>1. /\ UNCHANGED <<queue, due, failed, shutdown, sent_in, step>>
        /\ step = <<"send", i>>
        /\ send_queue' = [send_queue EXCEPT ![KindAt[i]] = AfterBatch(KindAt[i])]
    BY <1>8 DEF Sent, senderOnly, clock
  <2>2. ASSUME NEW j \in 1 .. 3, Past(j) PROVE send_queue'[KindAt[j]] = send_queue[KindAt[j]]
    <3>1. j # i
      BY <2>1, <2>2 DEF Past
    <3> QED  BY <2>1, <3>1, KindsAt DEF TypeOK
  <2> QED  BY <2>1, <2>2 DEF Emptied, Past
<1>9. ASSUME NEW i \in 1 .. 3, NotSent(i) PROVE Emptied'
  <2>1. failed' = (failed \/ stop_signal) /\ shutdown' = shutdown
        /\ UNCHANGED <<due, sent_in>>
    BY <1>9 DEF NotSent, senderOnly, clock
  <2> QED  BY <1>1, <2>1 DEF Emptied, Control
<1>10. ASSUME NEW i \in 1 .. 3, AllSent(i) PROVE Emptied'
  <2>1. /\ UNCHANGED <<queue, send_queue, due, failed, shutdown, sent_in>>
        /\ step = <<"send", i>> /\ send_queue[KindAt[i]] = <<>>
        /\ step' = NextKind(i)
    BY <1>10 DEF AllSent, senderOnly, clock
  <2>2. ASSUME NEW j \in 1 .. 3, Past(j)', j # i PROVE Past(j)
    BY <2>1, <2>2, NextKindStep DEF Past
  <2>3. step'[1] # "send"
    BY <2>1, NextKindStep
  <2> QED  BY <2>1, <2>2, <2>3, Empty DEF Emptied
<1>11. CASE Turn
  <2>1. /\ UNCHANGED <<queue, send_queue, due, failed, sent_in>>
        /\ step[1] = "turn"
        /\ shutdown' = IF stop_signal THEN shutdown + 1 ELSE shutdown
    BY <1>11 DEF Turn, senderOnly, clock
  <2>a. step' = <<"take", 1>> \/ (step' = <<"closed", 0>> /\ shutdown' >= 2)
    BY <1>11 DEF Turn, LastTurn
  <2>2. CASE step' = <<"take", 1>>
    <3>1. \A j \in 1 .. 3 : ~Past(j)' /\ step' # <<"send", j>>
      BY <2>2 DEF Past
    <3> QED  BY <2>1, <3>1 DEF Emptied
  <2>3. CASE step' = <<"closed", 0>> /\ shutdown' >= 2
    <3>1. shutdown > 0 /\ (\A j \in 1 .. 3 : Past(j) /\ step' # <<"send", j>>)
      BY <1>1, <2>1, <2>3 DEF Past
    <3> QED  BY <2>1, <3>1 DEF Emptied
  <2> QED  BY <2>a, <2>2, <2>3
<1>12. CASE Monitor
  <2>1. /\ UNCHANGED <<queue, send_queue, due, failed, shutdown, sent_in>>
        /\ step' = step \/ step' = <<"exited", 0>>
    BY <1>12 DEF Monitor, MonitorTest, MonitorLocks, SendTakesTooLong, monitorOnly, clock
  <2> QED  BY <1>2, <2>1
<1>13. CASE Stop
  BY <1>1, <1>13 DEF Stop, callerOnly, clock, Emptied
<1>14. CASE Join
  BY <1>2, <1>14 DEF Join, callerOnly, clock
<1> QED  BY <1>3, <1>4, <1>5, <1>6, <1>7, <1>8, <1>9, <1>10, <1>11, <1>12, <1>13,
            <1>14 DEF Next, SendData

LEMMA ParamsType ==
  ASSUME TypeOK
  PROVE  Params \in Seq(Messages) /\ Len(Params) \in Nat /\ DOMAIN Params = 1 .. Len(Params)
<1>1. "trigparams" \in Kinds
  BY DEF Kinds
<1> QED  BY <1>1, AllType, MessageSeq DEF Params

(* The null one is put in at the beginning of the last turn.               *)
LEMMA NullStep ==
  ASSUME TypeOK, TypeOK', Control, Placed, NullOnce, [Next]_vars
  PROVE  NullOnce'
<1>1. /\ shutdown \in Nat /\ Params \in Seq(Messages) /\ Len(Params) \in Nat
      /\ DOMAIN Params = 1 .. Len(Params) /\ "trigparams" \in Kinds
  <2>1. shutdown \in Nat
    BY DEF TypeOK
  <2> QED  BY <2>1, ParamsType DEF Kinds
<1>2. ASSUME Params' = Params, shutdown' = shutdown,
             step'[1] = "exited" \/ (step = <<"take", 1>> <=> step' = <<"take", 1>>),
             step[1] = "exited" => step'[1] = "exited"
      PROVE  NullOnce'
  BY <1>2 DEF NullOnce, NoNull
<1>3. CASE Tick \/ TransportChanges \/ (\E k \in Kinds : Put(k)) \/ UNCHANGED vars
  <2>1. UNCHANGED <<wire, send_queue, shutdown, step>>
    BY <1>3 DEF Tick, TransportChanges, Put, clock, life, vars
  <2> QED  BY <1>2, <2>1 DEF Params
<1>4. CASE Connect
  <2>1. UNCHANGED <<wire, send_queue, shutdown>> /\ step' = <<"take", 1>>
        /\ shutdown = 0
    BY <1>1, <1>4 DEF Connect, Control
  <2>2. Params' = Params
    BY <2>1 DEF Params
  <2> QED  BY <2>1, <2>2 DEF NullOnce, NoNull
<1>5. ASSUME NEW i \in 1 .. 3, Take(i) PROVE NullOnce'
  <2>1. /\ shutdown' = shutdown /\ step = <<"take", i>> /\ step' = <<"send", i>>
        /\ UNCHANGED wire
    BY <1>5 DEF Take
  <2>2. CASE UNCHANGED <<queue["trigparams"], send_queue["trigparams"], wire["trigparams"]>>
             /\ ~(i = 1 /\ shutdown > 0)
    <3>1. Params' = Params
      BY <2>2 DEF Params
    <3>2. step = <<"take", 1>> => shutdown = 0
      BY <1>1, <2>1, <2>2
    <3>3. step' # <<"take", 1>> /\ (step[1] # "exited")
      BY <2>1
    <3>4. CASE shutdown = 0
      <4>1. NoNull(Params) /\ shutdown' = 0 /\ ~(shutdown' > 0)
        <5>1. NoNull(Params)
          BY <3>4, Zenon DEF NullOnce
        <5> QED  BY <2>1, <3>4, <5>1
      <4>2. /\ \A n \in 1 .. Len(Params') : Params'[n].num = 0 => n = Len(Params')
            /\ NoNull(Params')
        BY <1>1, <3>1, <4>1 DEF NoNull
      <4> QED  BY <4>1, <4>2 DEF NullOnce
    <3>5. CASE shutdown # 0
      <4>1. shutdown > 0 /\ step # <<"take", 1>>
        BY <1>1, <3>2, <3>5
      <4> QED  BY <1>1, <2>1, <3>1, <3>3, <3>5, <4>1 DEF NullOnce
    <3> QED  BY <3>4, <3>5
  <2>3. ASSUME NEW last \in {<<>>, <<Null>>},
               "trigparams" = KindAt[i], last = <<Null>> <=> shutdown > 0,
               wire'["trigparams"] = wire["trigparams"],
               send_queue'["trigparams"] =
                 send_queue["trigparams"] \o queue["trigparams"] \o last
        PROVE  NullOnce'
    <3> DEFINE w == wire["trigparams"]  s == send_queue["trigparams"]
               q == queue["trigparams"]
    <3>0. i = 1 /\ step = <<"take", 1>>
      BY <2>1, <2>3, KindsAt
    <3>1. NoNull(Params) /\ NoNull(q)
      BY <1>1, <3>0 DEF NullOnce, Placed
    <3>2. /\ w \in Seq(Messages) /\ s \in Seq(Messages) /\ q \in Seq(Messages)
          /\ last \in Seq(Messages)
      BY <1>1, <2>3, AllType, NullIsMessage, Empty, Single
    <3>3. Params' = w \o ((s \o q) \o last) /\ Params = w \o s
      BY <2>3 DEF Params
    <3> HIDE DEF w, s, q
    <3>4. s \o q \in Seq(Messages) /\ (w \o s) \o q \in Seq(Messages)
      BY <3>2, ConcatProperties
    <3>5. w \o ((s \o q) \o last) = (w \o (s \o q)) \o last
      BY <3>2, AssocFour, SMTT(60)
    <3>6. w \o (s \o q) = (w \o s) \o q
      BY <3>2, Assoc, SMTT(60)
    <3> DEFINE pq == Params \o q
    <3>7. Params' = pq \o last /\ pq \in Seq(Messages)
      BY <3>3, <3>4, <3>5, <3>6
    <3>8. NoNull(pq)
      <4>1. Nums(pq) = Nums(Params) \cup Nums(q)
        BY <1>1, <3>2, NumsConcat
      <4>2. 0 \notin Nums(Params) /\ 0 \notin Nums(q)
        BY <3>1 DEF NoNull, Nums
      <4> QED  BY <4>1, <4>2 DEF NoNull, Nums
    <3> HIDE DEF pq
    <3>9. CASE shutdown = 0
      <4>1. last = <<>>
        BY <2>3, <3>9
      <4>2. Params' = pq
        BY <3>7, <4>1, ConcatEmptySeq
      <4> QED  BY <2>1, <3>7, <3>8, <3>9, <4>2, MessageSeq DEF NullOnce, NoNull
    <3>10. CASE shutdown # 0
      <4>1. last = <<Null>> /\ Null.num = 0 /\ Null \in Messages
        BY <1>1, <2>3, <3>10, NullIsMessage
      <4>2. Params' = Append(pq, Null)
        BY <3>7, <4>1, AppendIsConcat
      <4>3. /\ Len(pq) \in Nat /\ Len(Params') = Len(pq) + 1
            /\ \A n \in 1 .. Len(pq) : Params'[n] = pq[n] /\ n \in DOMAIN pq
            /\ Params'[Len(pq) + 1] = Null /\ Params' # <<>>
        BY <3>7, <4>1, <4>2, AppendProperties, MessageSeq
      <4>4. \A n \in 1 .. Len(Params') : Params'[n].num = 0 => n = Len(Params')
        BY <3>8, <4>3 DEF NoNull
      <4> QED  BY <1>1, <2>1, <3>10, <4>1, <4>3, <4>4 DEF NullOnce
    <3> QED  BY <3>9, <3>10
  <2> QED  BY <1>1, <1>5, <2>2, <2>3, TakePlaces
<1>6. ASSUME NEW i \in 1 .. 3, BeginSend(i) PROVE NullOnce'
  BY <1>2, <1>6 DEF BeginSend, Params
<1>7. ASSUME NEW i \in 1 .. 3, Sent(i) PROVE NullOnce'
  <2>1. Params' = Params
    BY <1>1, <1>7, SentPlaces DEF Params
  <2>2. UNCHANGED <<shutdown, step>>
    BY <1>7 DEF Sent
  <2> QED  BY <1>2, <2>1, <2>2
<1>8. ASSUME NEW i \in 1 .. 3, NotSent(i) \/ AllSent(i) PROVE NullOnce'
  <2>1. /\ UNCHANGED <<wire, send_queue, shutdown>> /\ step = <<"send", i>>
        /\ step' = NextKind(i)
    BY <1>8 DEF NotSent, AllSent
  <2>2. step # <<"take", 1>> /\ step' # <<"take", 1>> /\ step[1] # "exited"
    BY <2>1, NextKindStep
  <2> QED  BY <1>2, <2>1, <2>2 DEF Params
<1>9. CASE Turn
  <2>1. /\ UNCHANGED <<wire, send_queue>> /\ step[1] = "turn"
        /\ shutdown' = IF stop_signal THEN shutdown + 1 ELSE shutdown
        /\ step' = IF shutdown' >= 2 THEN <<"closed", 0>> ELSE <<"take", 1>>
    BY <1>9 DEF Turn, LastTurn
  <2>2. Params' = Params
    BY <2>1 DEF Params
  <2>3. step # <<"take", 1>> /\ step[1] # "exited"
    BY <2>1
  <2>4. CASE ~(shutdown' >= 2)
    <3>1. shutdown = 0 /\ step' = <<"take", 1>>
      BY <1>1, <2>1, <2>4 DEF Control
    <3> QED  BY <2>2, <2>4, <3>1 DEF NullOnce, NoNull
  <2>5. CASE shutdown' >= 2
    <3>1. shutdown > 0 /\ shutdown' # 0 /\ step' # <<"take", 1>>
      BY <1>1, <2>1, <2>5
    <3> QED  BY <2>2, <2>3, <3>1 DEF NullOnce
  <2> QED  BY <2>1, <2>4, <2>5
<1>10. CASE Monitor
  <2>1. /\ UNCHANGED <<wire, send_queue, shutdown>>
        /\ step' = step \/ step' = <<"exited", 0>>
    BY <1>10 DEF Monitor, MonitorTest, MonitorLocks, SendTakesTooLong, monitorOnly
  <2> QED  BY <1>2, <2>1 DEF Params
<1>11. CASE Stop
  <2>1. UNCHANGED <<wire, send_queue, step>> /\ shutdown' = 0 /\ shutdown = 0
    BY <1>1, <1>11 DEF Stop, callerOnly, Control
  <2> QED  BY <1>2, <2>1 DEF Params
<1>12. CASE Join
  BY <1>2, <1>12 DEF Join, callerOnly, Params
<1> QED  BY <1>3, <1>4, <1>5, <1>6, <1>7, <1>8, <1>9, <1>10, <1>11, <1>12
         DEF Next, SendData

LEMMA NextInv == IndInv /\ [Next]_vars => IndInv'
<1> SUFFICES ASSUME IndInv, [Next]_vars PROVE IndInv'
  OBVIOUS
<1>1. /\ TypeOK /\ Control /\ IdsConsecutive /\ packet_id = Len(ids)
      /\ Placed /\ Emptied /\ NullOnce
  BY DEF IndInv
<1>2. TypeOK'
  BY <1>1, TypeStep
<1>3. Control'
  BY <1>1, ControlStep
<1>4. IdsConsecutive' /\ packet_id' = Len(ids')
  BY <1>1, IdsStep
<1>5. Placed'
  BY <1>1, <1>2, PlacedStep
<1>6. Emptied'
  BY <1>1, EmptiedStep
<1>7. NullOnce'
  BY <1>1, <1>2, NullStep
<1> QED  BY <1>2, <1>3, <1>4, <1>5, <1>6, <1>7 DEF IndInv

(* The inductive invariant of the sender.                                  *)
THEOREM Invariance == Spec => []IndInv
BY InitInv, NextInv, PTL DEF Spec

(* The type invariant, for any packet sizes, waits and bounds.             *)
THEOREM TypeCorrect == Spec => []TypeOK
<1>1. IndInv => TypeOK
  BY DEF IndInv
<1> QED  BY <1>1, Invariance, PTL

(* IdsConsecutive: a failed send does not spend an id, whatever fails.     *)
THEOREM PacketIds == Spec => []IdsConsecutive
<1>1. IndInv => IdsConsecutive
  BY DEF IndInv
<1> QED  BY <1>1, Invariance, PTL

(* InOnePlaceInOrder: interruptions and failed sends lose, repeat and      *)
(* reorder nothing.                                                        *)
THEOREM NothingLost == Spec => []InOnePlaceInOrder
<1>1. IndInv => InOnePlaceInOrder
  <2> SUFFICES ASSUME IndInv PROVE InOnePlaceInOrder
    OBVIOUS
  <2>1. /\ \A k \in Kinds : Ordered(All(k))
        /\ \A k, l \in Kinds : k # l => Nums(All(k)) \cap Nums(All(l)) \subseteq {0}
        /\ (UNION {Nums(All(k)) : k \in Kinds}) \ {0} = (1 .. sent_in) \ removed
    BY Zenon DEF IndInv, Placed, Held
  <2> QED  BY <2>1, Zenon DEF All, Ordered, InOnePlaceInOrder
<1> QED  BY <1>1, Invariance, PTL

(* Flushed: stop loses nothing that was put in before it, unless it grew   *)
(* too old or a send failed.                                               *)
THEOREM StopFlushes == Spec => []Flushed
<1>1. IndInv => Flushed
  <2> SUFFICES ASSUME IndInv, step[1] = "closed", ~failed, NEW x \in due
               PROVE  x \in removed \cup UNION {Nums(wire[k]) : k \in Kinds}
    BY DEF Flushed
  <2>1. x \in 1 .. sent_in /\ x # 0
    BY DEF IndInv, Emptied
  <2>2. shutdown > 0
    BY DEF IndInv, Control
  <2>3. \A i \in 1 .. 3 :
          x \notin Nums(queue[KindAt[i]]) /\ x \notin Nums(send_queue[KindAt[i]])
    BY <2>2 DEF IndInv, Emptied, Past
  <2>4. CASE x \notin removed
    <3>1. x \in Held
      BY <2>1, <2>4 DEF IndInv, Placed
    <3>2. PICK k \in Kinds : x \in Nums(All(k))
      BY <3>1 DEF Held
    <3>3. x \in Nums(wire[k])
      BY <2>3, <3>2, AllType, KindsAt DEF IndInv
    <3> QED  BY <3>3
  <2> QED  BY <2>4
<1> QED  BY <1>1, Invariance, PTL

(* NullLast: the null TriggerParams is the last of its kind and comes      *)
(* before the thread ends.                                                 *)
THEOREM NullIsLast == Spec => []NullLast
<1>1. IndInv => NullLast
  <2> SUFFICES ASSUME IndInv PROVE NullLast
    OBVIOUS
  <2>1. step[1] = "closed" =>
          shutdown > 0 /\ step # <<"take", 1>> /\ step[1] # "exited"
    BY DEF IndInv, Control
  <2> QED  BY <2>1 DEF IndInv, NullOnce, Params, NullLast
<1> QED  BY <1>1, Invariance, PTL
=============================================================================
