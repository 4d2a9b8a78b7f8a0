------------------------ MODULE PacketFeeder_proofs ------------------------
(***************************************************************************)
(* Proofs about the packet feeder, for any queues, channels, packets and   *)
(* bounds: no packet is lost between the read and the worker that is done  *)
(* with it, so that a replay stops with none left; no thread sleeps on a   *)
(* packet or wakes without one; a buffer has a gap in front only; and the  *)
(* samples of a channel are handed out in order, and once.                 *)
(***************************************************************************)
EXTENDS PacketFeeder, WaveformBuffer_proofs, FunctionTheorems, FiniteSetTheorems

(* The types of what moves packets.                                        *)
FlowType ==
  /\ main \in MainSteps
  /\ packet \in Infos
  /\ released \subseteq Threads
  /\ pktq \in [Threads -> Seq(Infos)]
  /\ mywaitflag \in [Threads -> BOOLEAN]
  /\ thread \in [Threads -> Steps]
  /\ pinfo \in [Threads -> Infos]
  /\ sent \in [Channels -> Int]

(* Where the packets are: thread t holds one that it has popped, or it is  *)
(* at a place of a queue.  The main thread may hold one more.              *)
Held(t) == thread[t] \in {"find", "process"} /\ pinfo[t] # NullPacket
Queued(t) == {k \in DOMAIN pktq[t] : pktq[t][k] # NullPacket}
InFlight ==
  {x \in Threads \X Nat : IF x[2] = 0 THEN Held(x[1]) ELSE x[2] \in Queued(x[1])}

AllCounted ==
  /\ IsFiniteSet(InFlight)
  /\ count = Cardinality(InFlight) + (IF main = "push" THEN 1 ELSE 0)

(* The packet that is pushed finds a thread at its queue; queues without a *)
(* thread are empty; a thread that looked up a processor holds a packet.   *)
Served ==
  /\ main = "push" => packet \in ChannelPackets /\ HashOf[packet.ch] \in Started
  /\ \A t \in Threads :
       /\ thread[t] = "none" => pktq[t] = <<>>
       /\ thread[t] = "process" => pinfo[t] # NullPacket

(* At the end of a replay the queues have null packets only, and start     *)
(* returns after the threads.                                              *)
Draining ==
  replaying =>
    /\ main \in {"release", "join", "stopped"} =>
         \A t \in Threads : Queued(t) = {}
    /\ main = "stopped" => \A t \in Started : thread[t] = "done"

IndInv == FlowType /\ AllCounted /\ Served /\ Draining /\ NoLostWakeUp

-----------------------------------------------------------------------------
LEMMA InitInv == Init => IndInv
<1> SUFFICES ASSUME Init PROVE IndInv
  OBVIOUS
<1> USE DEF Init
<1>1. FlowType
  BY DEF FlowType, MainSteps, Infos, Steps
<1>2. InFlight = {}
  BY DEF InFlight, Held, Queued
<1>3. AllCounted
  BY <1>2, FS_EmptySet DEF AllCounted
<1>4. Served /\ Draining /\ NoLostWakeUp
  BY DEF Served, Draining, NoLostWakeUp
<1> QED  BY <1>1, <1>3, <1>4 DEF IndInv

-----------------------------------------------------------------------------
(* What happens to the packets in flight.                                  *)

LEMMA QueueTyped ==
  ASSUME FlowType, NEW t \in Threads
  PROVE  /\ pktq[t] \in Seq(Infos) /\ Len(pktq[t]) \in Nat
         /\ DOMAIN pktq[t] = 1 .. Len(pktq[t])
         /\ Queued(t) \subseteq 1 .. Len(pktq[t])
BY DEF FlowType, Queued

(* Nothing, when threads keep their hands and queues are left alone.       *)
LEMMA FlightStays ==
  ASSUME pktq' = pktq, \A t \in Threads : Held(t)' <=> Held(t)
  PROVE  InFlight' = InFlight /\ \A t \in Threads : Queued(t)' = Queued(t)
BY DEF InFlight, Queued

(* LockedQueue::push; what it does to its thread is a wake-up at most.     *)
LEMMA PushTyped ==
  ASSUME FlowType, NEW t \in Threads, NEW info \in Infos, Push(t, info)
  PROVE  /\ pktq' \in [Threads -> Seq(Infos)]
         /\ mywaitflag' \in [Threads -> BOOLEAN]
         /\ thread' \in [Threads -> Steps]
         /\ \A x \in Threads \ {t} : /\ thread'[x] = thread[x]
                                     /\ pktq'[x] = pktq[x]
                                     /\ mywaitflag'[x] = mywaitflag[x]
         /\ pktq'[t] = Append(pktq[t], info) /\ pktq'[t] # <<>>
         /\ mywaitflag'[t] = FALSE
         /\ thread'[t] = IF Wakes(t) THEN "woken" ELSE thread[t]
<1>1. pktq[t] \in Seq(Infos)
  BY DEF FlowType
<1>2. Append(pktq[t], info) \in Seq(Infos) /\ Append(pktq[t], info) # <<>>
  BY <1>1, AppendProperties
<1>3. /\ pktq' = [pktq EXCEPT ![t] = Append(pktq[t], info)]
      /\ mywaitflag' = [mywaitflag EXCEPT ![t] = FALSE]
      /\ thread' = [thread EXCEPT ![t] = IF Wakes(t) THEN "woken" ELSE thread[t]]
  <2>1. thread = [thread EXCEPT ![t] = thread[t]]
    BY DEF FlowType
  <2> QED  BY <2>1 DEF Push
<1>4. "woken" \in Steps
  BY DEF Steps
<1> QED  BY <1>2, <1>3, <1>4 DEF FlowType

LEMMA PushFlight ==
  ASSUME FlowType, NEW t \in Threads, NEW info \in Infos, Push(t, info),
         UNCHANGED pinfo
  PROVE  /\ \A x \in Threads \ {t} : Queued(x)' = Queued(x)
         /\ Queued(t)' = IF info = NullPacket THEN Queued(t)
                         ELSE Queued(t) \cup {Len(pktq[t]) + 1}
         /\ InFlight' = IF info = NullPacket THEN InFlight
                        ELSE InFlight \cup {<<t, Len(pktq[t]) + 1>>}
         /\ <<t, Len(pktq[t]) + 1>> \notin InFlight
<1> DEFINE n == Len(pktq[t])
<1>1. /\ \A x \in Threads \ {t} : thread'[x] = thread[x] /\ pktq'[x] = pktq[x]
      /\ pktq'[t] = Append(pktq[t], info)
      /\ thread'[t] = IF Wakes(t) THEN "woken" ELSE thread[t]
  BY PushTyped
<1>2. /\ n \in Nat /\ pktq[t] \in Seq(Infos) /\ Queued(t) \subseteq 1 .. n
      /\ DOMAIN pktq[t] = 1 .. n
  BY QueueTyped
<1>3. /\ DOMAIN pktq'[t] = 1 .. (n + 1) /\ pktq'[t][n + 1] = info
      /\ \A k \in 1 .. n : pktq'[t][k] = pktq[t][k]
  BY <1>1, <1>2, AppendProperties
<1> HIDE DEF n
<1>4. \A x \in Threads \ {t} : Queued(x)' = Queued(x)
  BY <1>1 DEF Queued
<1>5. Queued(t)' = IF info = NullPacket THEN Queued(t) ELSE Queued(t) \cup {n + 1}
  BY <1>2, <1>3 DEF Queued
<1>6. \A x \in Threads : Held(x)' <=> Held(x)
  BY <1>1 DEF Held, Wakes
<1>7. n + 1 # 0 /\ n + 1 \in Nat /\ n + 1 \notin Queued(t)
  BY <1>2
<1>8. <<t, n + 1>> \notin InFlight
  BY <1>7 DEF InFlight
<1>9. CASE info = NullPacket
  <2>1. \A x \in Threads : Queued(x)' = Queued(x)
    BY <1>4, <1>5, <1>9
  <2>2. InFlight' = InFlight
    BY <1>6, <2>1 DEF InFlight
  <2> QED  BY <1>4, <1>5, <1>8, <1>9, <2>2 DEF n
<1>10. CASE info # NullPacket
  <2>1. Queued(t)' = Queued(t) \cup {n + 1}
    BY <1>5, <1>10
  <2>2. ASSUME NEW x \in Threads, NEW k \in Nat
        PROVE  <<x, k>> \in InFlight' <=>
                 <<x, k>> \in InFlight \/ <<x, k>> = <<t, n + 1>>
    <3>1. <<x, k>> \in InFlight' <=>
            IF k = 0 THEN Held(x)' ELSE k \in Queued(x)'
      BY DEF InFlight
    <3>2. <<x, k>> \in InFlight <=> IF k = 0 THEN Held(x) ELSE k \in Queued(x)
      BY DEF InFlight
    <3> QED  BY <1>4, <1>6, <1>7, <2>1, <3>1, <3>2
  <2>3. InFlight' \subseteq Threads \X Nat /\ InFlight \subseteq Threads \X Nat
    BY DEF InFlight
  <2>4. InFlight' = InFlight \cup {<<t, n + 1>>}
    BY <1>7, <2>2, <2>3
  <2> QED  BY <1>4, <1>5, <1>8, <1>10, <2>4 DEF n
<1> QED  BY <1>9, <1>10

(* LockedQueue::pop: what was first in the queue is in the hand.           *)
LEMMA PopTyped ==
  ASSUME FlowType, NEW t \in Threads, Pop(t)
  PROVE  /\ pktq' \in [Threads -> Seq(Infos)]
         /\ pinfo' \in [Threads -> Infos]
         /\ thread' \in [Threads -> Steps] /\ thread'[t] = "find"
         /\ \A x \in Threads \ {t} : /\ thread'[x] = thread[x]
                                     /\ pktq'[x] = pktq[x]
                                     /\ pinfo'[x] = pinfo[x]
         /\ pktq'[t] = Tail(pktq[t]) /\ pinfo'[t] = pktq[t][1]
         /\ Len(pktq[t]) >= 1 /\ Len(pktq'[t]) = Len(pktq[t]) - 1
         /\ \A k \in 1 .. Len(pktq'[t]) : pktq'[t][k] = pktq[t][k + 1]
<1>1. pktq[t] \in Seq(Infos) /\ pktq[t] # <<>>
  BY DEF FlowType, Pop
<1>2. /\ Head(pktq[t]) = pktq[t][1] /\ Head(pktq[t]) \in Infos
      /\ Tail(pktq[t]) \in Seq(Infos)
      /\ Len(pktq[t]) \in Nat /\ Len(pktq[t]) >= 1
      /\ Len(Tail(pktq[t])) = Len(pktq[t]) - 1
      /\ \A k \in 1 .. Len(Tail(pktq[t])) : Tail(pktq[t])[k] = pktq[t][k + 1]
  BY <1>1, HeadTailProperties
<1>3. /\ pktq' = [pktq EXCEPT ![t] = Tail(pktq[t])]
      /\ pinfo' = [pinfo EXCEPT ![t] = Head(pktq[t])]
      /\ thread' = [thread EXCEPT ![t] = "find"]
  BY DEF Pop
<1>4. "find" \in Steps
  BY DEF Steps
<1>5. pktq'[t] = Tail(pktq[t])
  BY <1>3 DEF FlowType
<1> QED  BY <1>2, <1>3, <1>4, <1>5 DEF FlowType

LEMMA PopFlight ==
  ASSUME FlowType, NEW t \in Threads, Pop(t), IsFiniteSet(InFlight),
         thread[t] \in {"pop", "woken"}
  PROVE  /\ \A x \in Threads : Queued(x) = {} => Queued(x)' = {}
         /\ IsFiniteSet(InFlight') /\ Cardinality(InFlight') = Cardinality(InFlight)
<1> DEFINE n == Len(pktq[t])
           f == [x \in InFlight |-> IF x[1] = t THEN <<t, x[2] - 1>> ELSE x]
<1>1. /\ \A x \in Threads \ {t} : /\ thread'[x] = thread[x]
                                  /\ pktq'[x] = pktq[x] /\ pinfo'[x] = pinfo[x]
      /\ thread'[t] = "find" /\ pinfo'[t] = pktq[t][1]
      /\ n \in Nat /\ n >= 1 /\ DOMAIN pktq[t] = 1 .. n
      /\ DOMAIN pktq'[t] = 1 .. (n - 1)
      /\ \A k \in 1 .. (n - 1) : pktq'[t][k] = pktq[t][k + 1]
  <2>1. /\ Len(pktq'[t]) = n - 1 /\ pktq'[t] \in Seq(Infos)
        /\ \A k \in 1 .. Len(pktq'[t]) : pktq'[t][k] = pktq[t][k + 1]
    BY PopTyped
  <2> QED  BY <2>1, PopTyped, QueueTyped
<1> HIDE DEF n
<1>2. ~Held(t) /\ (Held(t)' <=> 1 \in Queued(t))
  BY <1>1 DEF Held, Queued
<1>3. \A k \in Nat : k >= 1 => (k \in Queued(t)' <=> k + 1 \in Queued(t))
  BY <1>1 DEF Queued
<1>4. \A x \in Threads \ {t} : Queued(x)' = Queued(x) /\ (Held(x)' <=> Held(x))
  BY <1>1 DEF Queued, Held
<1>5. Queued(t) \subseteq Nat \ {0} /\ Queued(t)' \subseteq Nat \ {0}
  BY <1>1 DEF Queued
<1>6. \A k \in Nat : <<t, k>> \in InFlight' <=> k + 1 \in Queued(t)
  <2> TAKE k \in Nat
  <2>1. <<t, k>> \in InFlight' <=> IF k = 0 THEN Held(t)' ELSE k \in Queued(t)'
    BY DEF InFlight
  <2> QED  BY <1>2, <1>3, <2>1
<1>7. \A k \in Nat : <<t, k>> \in InFlight <=> k \in Queued(t)
  <2> TAKE k \in Nat
  <2>1. <<t, k>> \in InFlight <=> IF k = 0 THEN Held(t) ELSE k \in Queued(t)
    BY DEF InFlight
  <2> QED  BY <1>2, <1>5, <2>1
<1>8. \A x \in Threads \ {t}, k \in Nat : <<x, k>> \in InFlight' <=> <<x, k>> \in InFlight
  BY <1>4 DEF InFlight
<1>9. /\ \A x \in InFlight : x = <<x[1], x[2]>> /\ x[1] \in Threads /\ x[2] \in Nat
      /\ \A x \in InFlight' : x = <<x[1], x[2]>> /\ x[1] \in Threads /\ x[2] \in Nat
  BY DEF InFlight
<1>10. \A x \in InFlight : x[1] = t => x[2] >= 1 /\ x[2] - 1 \in Nat
  BY <1>5, <1>7, <1>9
<1>11. f \in [InFlight -> InFlight']
  <2> SUFFICES ASSUME NEW x \in InFlight PROVE f[x] \in InFlight'
    OBVIOUS
  <2>1. CASE x[1] = t
    <3>1. x[2] \in Queued(t) /\ x[2] - 1 \in Nat /\ x[2] - 1 + 1 = x[2]
      BY <1>7, <1>9, <1>10, <2>1
    <3>2. <<t, x[2] - 1>> \in InFlight'
      BY <1>6, <3>1
    <3> QED  BY <2>1, <3>2
  <2>2. CASE x[1] # t
    BY <1>8, <1>9, <2>2
  <2> QED  BY <2>1, <2>2
<1>12. \A x, y \in InFlight : f[x] = f[y] => x = y
  <2> TAKE x, y \in InFlight
  <2>1. x = <<x[1], x[2]>> /\ y = <<y[1], y[2]>> /\ x[2] \in Nat /\ y[2] \in Nat
    BY <1>9
  <2>2. CASE x[1] = t /\ y[1] = t
    <3>1. f[x] = <<t, x[2] - 1>> /\ f[y] = <<t, y[2] - 1>>
      BY <2>2
    <3>2. f[x] = f[y] => x[2] - 1 = y[2] - 1
      BY <3>1
    <3> QED  BY <2>1, <2>2, <3>2
  <2>3. CASE x[1] # t \/ y[1] # t
    <3>1. f[x] = (IF x[1] = t THEN <<t, x[2] - 1>> ELSE x)
          /\ f[y] = (IF y[1] = t THEN <<t, y[2] - 1>> ELSE y)
      OBVIOUS
    <3> QED  BY <2>1, <2>3, <3>1
  <2> QED  BY <2>2, <2>3
<1>13. \A y \in InFlight' : \E x \in InFlight : f[x] = y
  <2> TAKE y \in InFlight'
  <2>1. CASE y[1] = t
    <3>1. y = <<t, y[2]>> /\ y[2] \in Nat
      BY <1>9, <2>1
    <3>2. <<t, y[2] + 1>> \in InFlight
      BY <1>6, <1>7, <3>1
    <3>3. PICK z \in InFlight : z = <<t, y[2] + 1>>
      BY <3>2
    <3>4. z[1] = t /\ z[2] - 1 = y[2]
      BY <3>1, <3>3
    <3>5. f[z] = <<t, z[2] - 1>>
      BY <3>4
    <3> QED  BY <3>1, <3>4, <3>5
  <2>2. CASE y[1] # t
    <3>1. y \in InFlight
      BY <1>8, <1>9, <2>2
    <3> QED  BY <2>2, <3>1
  <2> QED  BY <2>1, <2>2
<1> HIDE DEF f
<1>14. f \in Bijection(InFlight, InFlight')
  BY <1>11, <1>12, <1>13 DEF Bijection, Injection, IsInjective, Surjection
<1>15. IsFiniteSet(InFlight') /\ Cardinality(InFlight') = Cardinality(InFlight)
  BY <1>14, FS_Bijection DEF ExistsBijection
<1>16. ASSUME NEW x \in Threads, Queued(x) = {} PROVE Queued(x)' = {}
  <2>1. CASE x = t
    BY <1>3, <1>5, <1>16, <2>1
  <2>2. CASE x # t
    BY <1>4, <1>16, <2>2
  <2> QED  BY <2>1, <2>2
<1> QED  BY <1>15, <1>16

(* A thread is done with the packet it held.                               *)
LEMMA DoneFlight ==
  ASSUME AllCounted, main' = main, NEW t \in Threads, Held(t), ~Held(t)',
         pktq' = pktq, \A x \in Threads \ {t} : Held(x)' <=> Held(x),
         count' = count - 1
  PROVE  AllCounted'
<1>1. <<t, 0>> \in InFlight
  BY DEF InFlight
<1>2. \A x \in Threads : Queued(x)' = Queued(x)
  BY DEF Queued
<1>3. \A x \in Threads, k \in Nat :
        <<x, k>> \in InFlight' <=> <<x, k>> \in InFlight /\ <<x, k>> # <<t, 0>>
  BY <1>2 DEF InFlight
<1>4. InFlight' \subseteq Threads \X Nat /\ InFlight \subseteq Threads \X Nat
  BY DEF InFlight
<1>5. InFlight' = InFlight \ {<<t, 0>>}
  BY <1>3, <1>4
<1>6. IsFiniteSet(InFlight') /\ Cardinality(InFlight') = Cardinality(InFlight) - 1
  BY <1>1, <1>5, FS_RemoveElement DEF AllCounted
<1>7. Cardinality(InFlight) \in Nat
  BY FS_CardinalityType DEF AllCounted
<1>8. count' = Cardinality(InFlight') + (IF main' = "push" THEN 1 ELSE 0)
  BY <1>6, <1>7 DEF AllCounted
<1> QED  BY <1>6, <1>8 DEF AllCounted

-----------------------------------------------------------------------------
(* The steps of start.                                                     *)

LEMMA SameCount ==
  ASSUME AllCounted, InFlight' = InFlight, count' = count,
         main # "push", main' # "push"
  PROVE  AllCounted'
BY DEF AllCounted

(* Steps that change neither queues nor threads.                           *)
LEMMA IdleMainInv ==
  ASSUME IndInv, Terminate \/ EnterInner \/ NoMorePackets \/ Drain \/ Released
                 \/ Join \/ (\E now, changed \in SUBSET Channels :
                               ReadChannelData(now, changed))
  PROVE  IndInv'
<1> USE DEF IndInv
<1>1. /\ UNCHANGED <<packet, queues, threads, sent, replaying, count>>
      /\ released' = released
      /\ main' \in MainSteps /\ main # "push" /\ main' # "push"
  BY DEF Terminate, EnterInner, NoMorePackets, Drain, Released, Join, mainOnly,
     ReadChannelData, MainSteps, source
<1>2. InFlight' = InFlight /\ \A t \in Threads : Queued(t)' = Queued(t)
  BY <1>1, FlightStays DEF Held, queues, threads
<1>3. Draining'
  <2>1. CASE Terminate \/ EnterInner \/ NoMorePackets \/
             (\E now, changed \in SUBSET Channels : ReadChannelData(now, changed))
    BY <1>1, <2>1 DEF Draining, Terminate, EnterInner, NoMorePackets, ReadChannelData
  <2>2. CASE Drain
    <3>1. \A t \in Threads : Queued(t) = {}
      BY <2>2 DEF Drain, Drained, Queued
    <3> QED  BY <1>2, <2>2, <3>1 DEF Draining, Drain
  <2>3. CASE Released
    BY <1>1, <1>2, <2>3 DEF Draining, Released
  <2>4. CASE Join
    BY <1>1, <1>2, <2>4 DEF Draining, Join, threads, Started
  <2> QED  BY <2>1, <2>2, <2>3, <2>4
<1>4. AllCounted'
  BY <1>1, <1>2, SameCount
<1>5. FlowType'
  BY <1>1 DEF FlowType, queues, threads
<1>6. Served' /\ NoLostWakeUp'
  BY <1>1 DEF Served, NoLostWakeUp, Started, queues, threads
<1> QED  BY <1>3, <1>4, <1>5, <1>6

LEMMA ReadPacketInv ==
  ASSUME IndInv, NEW c \in Channels, NEW d \in Offsets[c], ReadPacket(c, d)
  PROVE  IndInv'
<1> USE DEF IndInv
<1> DEFINE h == HashOf[c]
<1>1. /\ main = "inner" /\ main' = "push" /\ sent[c] + d >= 0
      /\ packet' = [ch |-> c, raw |-> [start |-> sent[c] + d, length |-> PacketLength]]
      /\ sent' = [sent EXCEPT ![c] = @ + d + PacketLength]
      /\ count' = count + 1
      /\ thread' = [thread EXCEPT ![h] = IF @ = "none" THEN "test" ELSE @]
      /\ UNCHANGED <<replaying, released, pktq, mywaitflag, pinfo>>
  BY DEF ReadPacket, queues
<1>2. h \in Threads /\ d \in Int /\ sent[c] \in Int /\ PacketLength \in Nat \ {0}
  BY PacketFeederAssumption DEF FlowType
<1> HIDE DEF h
<1>3. packet' \in ChannelPackets
  <2>1. [start |-> sent[c] + d, length |-> PacketLength] \in Packets
    BY <1>1, <1>2 DEF Packets
  <2> QED  BY <1>1, <2>1 DEF ChannelPackets
<1>4. /\ \A x \in Threads \ {h} : thread'[x] = thread[x]
      /\ thread'[h] = IF thread[h] = "none" THEN "test" ELSE thread[h]
      /\ thread' \in [Threads -> Steps]
  BY <1>1, <1>2 DEF FlowType, Steps
<1>5. FlowType'
  <2>1. sent' \in [Channels -> Int]
    BY <1>1, <1>2 DEF FlowType
  <2> QED  BY <1>1, <1>3, <1>4, <2>1 DEF FlowType, MainSteps, Infos
<1>6. \A t \in Threads : Held(t)' <=> Held(t)
  BY <1>1, <1>4 DEF Held
<1>7. InFlight' = InFlight
  BY <1>1, <1>6, FlightStays
<1>8. AllCounted'
  BY <1>1, <1>7, FS_CardinalityType DEF AllCounted
<1>9. Served'
  <2>1. HashOf[packet'.ch] = h
    BY <1>1 DEF h
  <2>2. h \in Started'
    BY <1>2, <1>4 DEF Started
  <2>3. ASSUME NEW t \in Threads
        PROVE  /\ thread'[t] = "none" => pktq'[t] = <<>>
               /\ thread'[t] = "process" => pinfo'[t] # NullPacket
    BY <1>1, <1>4 DEF Served
  <2> QED  BY <1>1, <1>3, <2>1, <2>2, <2>3 DEF Served
<1>10. Draining' /\ NoLostWakeUp'
  BY <1>1, <1>4 DEF Draining, NoLostWakeUp
<1> QED  BY <1>5, <1>8, <1>9, <1>10

LEMMA PushedServed ==
  ASSUME IndInv, NEW t \in Started, NEW info \in Infos, Push(t, info), pinfo' = pinfo
  PROVE  /\ NoLostWakeUp'
         /\ \A x \in Threads : /\ thread'[x] = "none" => pktq'[x] = <<>>
                               /\ thread'[x] = "process" => pinfo'[x] # NullPacket
<1> USE DEF IndInv
<1>1. t \in Threads /\ thread[t] # "none"
  BY DEF Started
<1>2. /\ \A x \in Threads \ {t} : /\ thread'[x] = thread[x]
                                  /\ pktq'[x] = pktq[x]
                                  /\ mywaitflag'[x] = mywaitflag[x]
      /\ pktq'[t] # <<>>
      /\ thread'[t] = IF Wakes(t) THEN "woken" ELSE thread[t]
  BY <1>1, PushTyped
<1>3. thread'[t] # "wait"
  BY <1>1, <1>2 DEF Wakes, NoLostWakeUp
<1>4. NoLostWakeUp'
  BY <1>2, <1>3 DEF NoLostWakeUp
<1> QED  BY <1>1, <1>2, <1>4 DEF Served

LEMMA PushPacketInv ==
  ASSUME IndInv, PushPacket
  PROVE  IndInv'
<1> USE DEF IndInv
<1> DEFINE h == HashOf[packet.ch]
<1>1. /\ main = "push" /\ main' = "inner" /\ packet' = NullPacket /\ Push(h, packet)
      /\ UNCHANGED <<replaying, sent, released, pinfo, count>>
  BY DEF PushPacket, source
<1>2. packet \in ChannelPackets /\ h \in Started /\ h \in Threads /\ packet \in Infos
      /\ packet # NullPacket
  BY <1>1, NullPacketAssumption DEF Served, Started, Infos
<1> HIDE DEF h
<1>3. FlowType'
  BY <1>1, <1>2, PushTyped DEF FlowType, MainSteps, Infos
<1>4. /\ InFlight' = InFlight \cup {<<h, Len(pktq[h]) + 1>>}
      /\ <<h, Len(pktq[h]) + 1>> \notin InFlight
  BY <1>1, <1>2, PushFlight
<1>5. /\ IsFiniteSet(InFlight') /\ Cardinality(InFlight) \in Nat
      /\ Cardinality(InFlight') = Cardinality(InFlight) + 1
  BY <1>4, FS_AddElement, FS_CardinalityType DEF AllCounted
<1>6. AllCounted'
  BY <1>1, <1>5 DEF AllCounted
<1>7. NoLostWakeUp' /\ Served'
  BY <1>1, <1>2, PushedServed DEF Served
<1>8. Draining'
  BY <1>1 DEF Draining
<1> QED  BY <1>3, <1>6, <1>7, <1>8

LEMMA ReleaseInv ==
  ASSUME IndInv, NEW t \in Threads, Release(t)
  PROVE  IndInv'
<1> USE DEF IndInv
<1>1. /\ main = "release" /\ main' = main /\ t \in Started /\ Push(t, NullPacket)
      /\ released' = released \cup {t}
      /\ UNCHANGED <<replaying, sent, packet, pinfo, count>>
  BY DEF Release, source
<1>2. NullPacket \in Infos
  BY DEF Infos
<1>3. FlowType'
  BY <1>1, <1>2, PushTyped DEF FlowType
<1>4. InFlight' = InFlight /\ \A x \in Threads : Queued(x)' = Queued(x)
  BY <1>1, <1>2, PushFlight
<1>5. AllCounted'
  BY <1>1, <1>4, SameCount
<1>6. NoLostWakeUp' /\ Served'
  BY <1>1, <1>2, PushedServed DEF Served
<1>7. Draining'
  BY <1>1, <1>4 DEF Draining
<1> QED  BY <1>3, <1>5, <1>6, <1>7

-----------------------------------------------------------------------------
(* The steps of a worker.                                                  *)

(* A worker goes on without the queue: it tests, waits or looks up.        *)
LEMMA WorkerMoves ==
  ASSUME IndInv, NEW t \in Threads, NEW step \in Steps \ {"none", "woken"},
         threadOnly' = threadOnly,
         thread[t] \notin {"none", "done"},
         thread' = [thread EXCEPT ![t] = step],
         pktq' = pktq, pinfo' = pinfo,
         \/ mywaitflag' = mywaitflag /\ step # "wait"
         \/ mywaitflag' = [mywaitflag EXCEPT ![t] = TRUE] /\ step = "wait"
            /\ pktq[t] = <<>>,
         step = "process" => pinfo[t] # NullPacket,
         \/ (Held(t)' <=> Held(t)) /\ count' = count
         \/ Held(t) /\ ~Held(t)' /\ count' = count - 1
  PROVE  IndInv'
<1> USE DEF IndInv
<1>1. /\ UNCHANGED <<replaying, main, packet, released, sent>>
      /\ \A x \in Threads \ {t} : thread'[x] = thread[x]
      /\ \A x \in Threads \ {t} : mywaitflag'[x] = mywaitflag[x]
      /\ thread'[t] = step /\ thread' \in [Threads -> Steps]
      /\ mywaitflag' \in [Threads -> BOOLEAN]
      /\ step = "wait" => mywaitflag'[t] /\ pktq[t] = <<>>
  BY DEF threadOnly, source, FlowType
<1>2. FlowType'
  BY <1>1 DEF FlowType
<1>3. \A x \in Threads \ {t} : Held(x)' <=> Held(x)
  BY <1>1 DEF Held
<1>4. AllCounted'
  <2>1. CASE (Held(t)' <=> Held(t)) /\ count' = count
    <3>1. InFlight' = InFlight
      BY <1>3, <2>1, FlightStays
    <3> QED  BY <1>1, <2>1, <3>1 DEF AllCounted
  <2>2. CASE Held(t) /\ ~Held(t)' /\ count' = count - 1
    BY <1>1, <1>3, <2>2, DoneFlight
  <2> QED  BY <2>1, <2>2
<1>5. Started' = Started /\ t \in Started
  BY <1>1 DEF Started
<1>6. Served' /\ NoLostWakeUp'
  BY <1>1, <1>5 DEF Served, NoLostWakeUp
<1>7. Draining'
  BY <1>1, <1>5 DEF Draining, Queued
<1> QED  BY <1>2, <1>4, <1>6, <1>7

LEMMA PopInv ==
  ASSUME IndInv, NEW t \in Threads, Pop(t), thread[t] \in {"pop", "woken"},
         threadOnly' = threadOnly, count' = count, mywaitflag' = mywaitflag
  PROVE  IndInv'
<1> USE DEF IndInv
<1>1. UNCHANGED <<replaying, main, packet, released, sent>>
  BY DEF threadOnly, source
<1>2. /\ thread'[t] = "find"
      /\ \A x \in Threads \ {t} : /\ thread'[x] = thread[x]
                                  /\ pktq'[x] = pktq[x]
                                  /\ pinfo'[x] = pinfo[x]
  BY PopTyped
<1>3. FlowType'
  BY <1>1, PopTyped DEF FlowType
<1>4. /\ \A x \in Threads : Queued(x) = {} => Queued(x)' = {}
      /\ IsFiniteSet(InFlight') /\ Cardinality(InFlight') = Cardinality(InFlight)
  BY PopFlight DEF AllCounted
<1>5. AllCounted'
  BY <1>1, <1>4 DEF AllCounted
<1>6. Started' = Started /\ t \in Started
  BY <1>2 DEF Started
<1>7. Served' /\ NoLostWakeUp'
  BY <1>1, <1>2, <1>6 DEF Served, NoLostWakeUp
<1>8. Draining'
  BY <1>1, <1>2, <1>4, <1>6 DEF Draining
<1> QED  BY <1>3, <1>5, <1>7, <1>8

LEMMA ProcessPacketInv ==
  ASSUME IndInv, NEW t \in Threads, ProcessPacket(t)
  PROVE  IndInv'
<1> USE DEF IndInv
<1>0. /\ {"test", "pop", "wait", "find", "process", "done"}
           \subseteq Steps \ {"none", "woken"}
      /\ thread \in [Threads -> Steps]
  BY DEF Steps, FlowType
<1>1. CASE TestRocknRoll(t)
  <2>1. PICK step \in {"pop", "done"} : thread' = [thread EXCEPT ![t] = step]
    BY <1>1 DEF TestRocknRoll
  <2>2. ~Held(t) /\ ~Held(t)'
    BY <1>0, <1>1, <2>1 DEF TestRocknRoll, Held
  <2> QED
    BY <1>0, <1>1, <2>1, <2>2, WorkerMoves DEF TestRocknRoll, threadOnly, queues
<1>2. CASE PopOrWait(t)
  <2>1. CASE Pop(t) /\ UNCHANGED mywaitflag
    BY <1>2, <2>1, PopInv DEF PopOrWait, threadOnly
  <2>2. CASE /\ pktq[t] = <<>> /\ mywaitflag' = [mywaitflag EXCEPT ![t] = TRUE]
             /\ thread' = [thread EXCEPT ![t] = "wait"] /\ UNCHANGED <<pktq, pinfo>>
    <3>1. ~Held(t) /\ ~Held(t)'
      BY <1>0, <1>2, <2>2 DEF PopOrWait, Held
    <3> QED  BY <1>0, <1>2, <2>2, <3>1, WorkerMoves DEF PopOrWait, threadOnly
  <2> QED  BY <1>2, <2>1, <2>2 DEF PopOrWait
<1>3. CASE PopWoken(t)
  BY <1>3, PopInv DEF PopWoken, threadOnly
<1>4. CASE GetWPHandle(t)
  <2> DEFINE known == pinfo[t] # NullPacket /\ eewmap[pinfo[t].ch] # 0
             step == IF known THEN "process" ELSE "test"
  <2>1. /\ thread[t] = "find" /\ thread' = [thread EXCEPT ![t] = step]
        /\ count' = IF known \/ pinfo[t] = NullPacket THEN count ELSE count - 1
        /\ UNCHANGED <<threadOnly, pktq, mywaitflag, pinfo>>
    BY <1>4 DEF GetWPHandle, queues
  <2>2. /\ step = "process" => pinfo[t] # NullPacket
        /\ step \in Steps \ {"none", "woken"} /\ step # "wait"
    BY <1>0
  <2>3. \/ (Held(t)' <=> Held(t)) /\ count' = count
        \/ Held(t) /\ ~Held(t)' /\ count' = count - 1
    BY <1>0, <2>1 DEF Held
  <2> HIDE DEF step, known
  <2> QED  BY <2>1, <2>2, <2>3, WorkerMoves DEF threadOnly
<1>5. CASE Ignore(t) \/ Process(t)
  <2>1. /\ thread[t] = "process" /\ thread' = [thread EXCEPT ![t] = "test"]
        /\ count' = count - 1
        /\ UNCHANGED <<threadOnly, pktq, mywaitflag, pinfo>>
    BY <1>5 DEF Ignore, Process, queues
  <2>2. Held(t) /\ ~Held(t)'
    BY <1>0, <2>1 DEF Held, Served
  <2> QED  BY <1>0, <2>1, <2>2, WorkerMoves DEF threadOnly
<1> QED  BY <1>1, <1>2, <1>3, <1>4, <1>5 DEF ProcessPacket

-----------------------------------------------------------------------------
LEMMA NextInv == IndInv /\ [Next]_vars => IndInv'
<1> SUFFICES ASSUME IndInv, [Next]_vars PROVE IndInv'
  OBVIOUS
<1>1. ASSUME NEW c \in Channels, NEW d \in Offsets[c], ReadPacket(c, d)
      PROVE  IndInv'
  BY <1>1, ReadPacketInv
<1>2. CASE PushPacket
  BY <1>2, PushPacketInv
<1>3. ASSUME NEW t \in Threads, Release(t) PROVE IndInv'
  BY <1>3, ReleaseInv
<1>4. CASE Terminate \/ EnterInner \/ NoMorePackets \/ Drain \/ Released
           \/ Join \/ (\E now, changed \in SUBSET Channels :
                         ReadChannelData(now, changed))
  BY <1>4, IdleMainInv
<1>5. ASSUME NEW t \in Threads, ProcessPacket(t) PROVE IndInv'
  BY <1>5, ProcessPacketInv
<1>6. CASE UNCHANGED vars
  BY <1>6 DEF vars, IndInv, FlowType, AllCounted, InFlight, Held, Queued, Served,
     Started, Draining, NoLostWakeUp
<1> QED  BY <1>1, <1>2, <1>3, <1>4, <1>5, <1>6 DEF Next, Main

(* The inductive invariant, for any queues, channels and packets.          *)
THEOREM Invariance == Spec => []IndInv
BY InitInv, NextInv, PTL DEF Spec

(* LockedQueue: no thread sleeps on a packet, none wakes without one.      *)
THEOREM WakeUps == Spec => []NoLostWakeUp
<1>1. IndInv => NoLostWakeUp
  BY DEF IndInv
<1> QED  BY <1>1, Invariance, PTL

(* ewfeeder::start returns from a replay after the last packet.            *)
THEOREM AllProcessed == Spec => []ReplayComplete
<1>1. IndInv => ReplayComplete
  <2> SUFFICES ASSUME IndInv, main = "stopped", replaying PROVE count = 0
    BY DEF ReplayComplete
  <2>1. \A t \in Threads : Queued(t) = {} /\ ~Held(t)
    BY DEF IndInv, Draining, Held, Started
  <2>2. InFlight = {}
    BY <2>1 DEF InFlight
  <2> QED  BY <2>2, FS_EmptySet DEF IndInv, AllCounted
<1> QED  BY <1>1, Invariance, PTL

-----------------------------------------------------------------------------
(* What the modules have been given of a channel.                          *)

(* From place m on the times increase; if there is data in the buffer, its *)
(* last sample was the last one given.                                     *)
Increasing(h, m) == \A k \in m + 2 .. Len(h) : h[k - 1] < h[k]

HistoryOk(w, h, m) ==
  /\ h \in Seq(Nat) /\ m \in Nat /\ m <= Len(h)
  /\ Increasing(h, m)
  /\ w.dataq = <<>> => h = <<>>
  /\ w.dataq # <<>> => m < Len(h) /\ h[Len(h)] = EndTime(Last(w.dataq))

LEMMA RunAppended ==
  ASSUME NEW h \in Seq(Nat), NEW m \in Nat, m <= Len(h), Increasing(h, m),
         NEW x \in Packets, m < Len(h) => h[Len(h)] < x.start
  PROVE  /\ h \o Run(x) \in Seq(Nat) /\ Len(h \o Run(x)) = Len(h) + x.length
         /\ Increasing(h \o Run(x), m)
         /\ (h \o Run(x))[Len(h \o Run(x))] = EndTime(x)
<1> DEFINE n == Len(h)
           l == x.length
           s == Run(x)
           g == h \o s
<1>1. /\ n \in Nat /\ x.start \in Nat /\ l \in Nat \ {0}
      /\ EndTime(x) = x.start + l - 1
  BY PacketTimes
<1>2. s \in Seq(Nat) /\ Len(s) = l /\ \A i \in 1 .. l : s[i] = x.start + i - 1
  BY RunProperties
<1> HIDE DEF s, l
<1>3. /\ g \in Seq(Nat) /\ Len(g) = n + l
      /\ \A i \in 1 .. n + l : g[i] = IF i <= n THEN h[i] ELSE s[i - n]
  BY <1>2, ConcatProperties
<1> HIDE DEF g, n
<1>4. \A i \in 1 .. n : g[i] = h[i]
  BY <1>1, <1>3
<1>5. \A i \in n + 1 .. n + l : g[i] = x.start + (i - n) - 1
  <2> TAKE i \in n + 1 .. n + l
  <2>1. i \in 1 .. n + l /\ ~(i <= n) /\ i - n \in 1 .. l
    BY <1>1
  <2> QED  BY <1>2, <1>3, <2>1
<1>6. ASSUME NEW k \in m + 2 .. n + l PROVE g[k - 1] < g[k]
  <2>1. CASE k <= n
    <3>1. k \in m + 2 .. n /\ k \in 1 .. n /\ k - 1 \in 1 .. n
      BY <1>1, <2>1
    <3>2. h[k - 1] < h[k]
      BY <3>1 DEF Increasing, n
    <3> QED  BY <1>4, <3>1, <3>2
  <2>2. CASE k = n + 1
    <3>1. m < n /\ n \in 1 .. n /\ k - 1 = n /\ k \in n + 1 .. n + l
      BY <1>1, <2>2
    <3>2. g[k - 1] = h[n] /\ g[k] = x.start + (k - n) - 1
      BY <1>4, <1>5, <3>1
    <3>3. h[n] < x.start
      BY <3>1 DEF n
    <3>4. x.start + (k - n) - 1 = x.start
      BY <1>1, <2>2
    <3> QED  BY <3>2, <3>3, <3>4
  <2>3. CASE k > n + 1
    <3>1. k \in n + 1 .. n + l /\ k - 1 \in n + 1 .. n + l
      BY <1>1, <2>3
    <3>2. g[k] = x.start + (k - n) - 1 /\ g[k - 1] = x.start + ((k - 1) - n) - 1
      BY <1>5, <3>1
    <3>3. x.start + ((k - 1) - n) - 1 < x.start + (k - n) - 1
      BY <1>1, <3>1
    <3> QED  BY <3>2, <3>3
  <2> QED  BY <1>1, <2>1, <2>2, <2>3
<1>7. g[n + l] = EndTime(x)
  <2>1. n + l \in n + 1 .. n + l /\ (n + l) - n = l
    BY <1>1
  <2> QED  BY <1>1, <1>5, <2>1
<1>8. Increasing(g, m)
  BY <1>3, <1>6 DEF Increasing
<1> QED  BY <1>3, <1>7, <1>8 DEF g, n, s, l

(* The new part of a packet starts after the data.                         *)
LEMMA NewPartAfter ==
  ASSUME NEW q \in Seq(Packets), NEW p \in Packets, ~Stale(q, p)
  PROVE  /\ q = <<>> => NewPart(q, p) = p
         /\ q # <<>> => EndTime(Last(q)) < NewPart(q, p).start
<1>1. CASE q = <<>>
  BY <1>1 DEF NewPart
<1>2. CASE q # <<>>
  <2>1. EndTime(Last(q)) \in Nat /\ p.start \in Nat
    BY <1>2, LastPacket, PacketTimes
  <2>2. CASE p.start > EndTime(Last(q))
    BY <1>2, <2>1, <2>2 DEF NewPart
  <2>3. CASE ~(p.start > EndTime(Last(q)))
    <3>1. NewPart(q, p).start = EndTime(Last(q)) + 1
      BY <1>2, <2>3 DEF NewPart
    <3> QED  BY <1>2, <2>1, <3>1
  <2> QED  BY <2>2, <2>3
<1> QED  BY <1>1, <1>2

LEMMA HistoryKeeps ==
  ASSUME NEW w, BufferOk(w), NEW h, NEW m, HistoryOk(w, h, m), NEW p \in Packets
  PROVE  LET v == Received(w, p)
         IN HistoryOk(AfterData(v), h \o Data(v), IF IsGap(w, p) THEN Len(h) ELSE m)
<1> DEFINE d == IF IsGap(w, p) THEN <<>> ELSE w.dataq
           v == Received(w, p)
           u == AfterData(v)
           l == IF IsGap(w, p) THEN Len(h) ELSE m
<1>1. /\ u.dataq # <<>>
      /\ Stale(d, p) => u.dataq = d /\ Data(v) = <<>>
      /\ ~Stale(d, p) => Data(v) = Run(NewPart(d, p)) /\ EndTime(Last(u.dataq)) = EndTime(p)
  BY ReceivedKeeps
<1>2. d \in Seq(Packets)
  BY DEF BufferOk, Processors
<1>3. /\ h \in Seq(Nat) /\ m \in Nat /\ Len(h) \in Nat /\ l \in Nat /\ l <= Len(h)
      /\ Increasing(h, l)
  BY DEF HistoryOk, Increasing
<1>4. /\ d = <<>> => l = Len(h)
      /\ d # <<>> => d = w.dataq /\ l = m /\ l < Len(h) /\ h[Len(h)] = EndTime(Last(d))
  BY DEF HistoryOk
<1> HIDE DEF u, v, d, l
<1>5. CASE Stale(d, p)
  <2>1. d # <<>>
    BY <1>5 DEF Stale
  <2>2. h \o Data(v) = h
    BY <1>1, <1>3, <1>5, ConcatEmptySeq
  <2>3. HistoryOk(u, h, l)
    BY <1>1, <1>3, <1>4, <1>5, <2>1 DEF HistoryOk
  <2> QED  BY <2>2, <2>3 DEF u, v, l
<1>6. CASE ~Stale(d, p)
  <2> DEFINE x == NewPart(d, p)
  <2>1. x \in Packets /\ EndTime(x) = EndTime(p) /\ x.length \in Nat \ {0}
    BY <1>2, <1>6, NewPartFollows, PacketTimes
  <2>2. l < Len(h) => h[Len(h)] < x.start
    BY <1>2, <1>3, <1>4, <1>6, NewPartAfter
  <2> HIDE DEF x
  <2>3. /\ h \o Run(x) \in Seq(Nat) /\ Len(h \o Run(x)) = Len(h) + x.length
        /\ Increasing(h \o Run(x), l)
        /\ (h \o Run(x))[Len(h \o Run(x))] = EndTime(x)
    BY <1>3, <2>1, <2>2, RunAppended
  <2>4. l < Len(h) + x.length
    BY <1>3, <2>1
  <2>5. HistoryOk(u, h \o Run(x), l)
    BY <1>1, <1>3, <1>6, <2>1, <2>3, <2>4 DEF HistoryOk
  <2> QED  BY <1>1, <1>6, <2>5 DEF u, v, l, x
<1> QED  BY <1>5, <1>6

-----------------------------------------------------------------------------
(* The buffers of all channels.                                            *)

PerChannel(f) == f = [c \in Channels |-> f[c]]

ChannelOk(c) == BufferOk(wp[c]) /\ HistoryOk(wp[c], handed[c], restarted[c])

Buffers ==
  /\ PerChannel(wp) /\ PerChannel(handed) /\ PerChannel(restarted)
  /\ \A c \in Channels : ChannelOk(c)

(* What a step does to a channel: nothing, a new processor, or a packet.   *)
Kept(c) == wp'[c] = wp[c] /\ handed'[c] = handed[c] /\ restarted'[c] = restarted[c]

Renewed(c) == wp'[c] = NewProcessor /\ handed'[c] = <<>> /\ restarted'[c] = 0

Handled(c, p) ==
  /\ wp'[c] = AfterData(Received(wp[c], p))
  /\ handed'[c] = handed[c] \o Data(Received(wp[c], p))
  /\ restarted'[c] = IF IsGap(wp[c], p) THEN Len(handed[c]) ELSE restarted[c]

HandledBy(c, t) == /\ Process(t) /\ Held(t) /\ pinfo[t].ch = c
                   /\ pinfo[t].raw \in Packets /\ Handled(c, pinfo[t].raw)

LEMMA HeldPacket ==
  ASSUME IndInv, NEW t \in Threads, thread[t] = "process"
  PROVE  /\ Held(t) /\ pinfo[t] \in ChannelPackets
         /\ pinfo[t].ch \in Channels /\ pinfo[t].raw \in Packets
<1>1. pinfo[t] \in Infos /\ pinfo[t] # NullPacket
  BY DEF IndInv, FlowType, Served
<1> QED  BY <1>1 DEF Infos, ChannelPackets, Held

LEMMA ChannelSteps ==
  ASSUME IndInv, Buffers, [Next]_vars
  PROVE  /\ PerChannel(wp') /\ PerChannel(handed') /\ PerChannel(restarted')
         /\ \A c \in Channels :
              Kept(c) \/ Renewed(c) \/ \E t \in Threads : HandledBy(c, t)
<1> DEFINE Goal ==
      /\ PerChannel(wp') /\ PerChannel(handed') /\ PerChannel(restarted')
      /\ \A c \in Channels :
           Kept(c) \/ Renewed(c) \/ \E t \in Threads : HandledBy(c, t)
<1> USE DEF Buffers
<1>1. ASSUME UNCHANGED <<wp, given>> PROVE Goal
  <2>1. wp' = wp /\ handed' = handed /\ restarted' = restarted
    BY <1>1 DEF given
  <2> QED  BY <2>1 DEF Kept
<1>2. ASSUME NEW now \in SUBSET Channels, NEW changed \in SUBSET Channels,
             ReadChannelData(now, changed)
      PROVE  Goal
  <2> DEFINE fresh == {c \in now : eewmap[c] = 0 \/ c \in changed}
  <2>1. /\ wp' = [c \in Channels |-> IF c \in fresh \/ c \notin now
                                     THEN NewProcessor ELSE wp[c]]
        /\ handed' = [c \in Channels |-> IF c \in fresh \/ c \notin now
                                         THEN <<>> ELSE handed[c]]
        /\ restarted' = [c \in Channels |-> IF c \in fresh \/ c \notin now
                                            THEN 0 ELSE restarted[c]]
    BY <1>2 DEF ReadChannelData
  <2> HIDE DEF fresh
  <2>2. PerChannel(wp') /\ PerChannel(handed') /\ PerChannel(restarted')
    BY <2>1 DEF PerChannel
  <2>3. ASSUME NEW c \in Channels PROVE Kept(c) \/ Renewed(c)
    BY <2>1 DEF Kept, Renewed
  <2> QED  BY <2>2, <2>3
<1>3. ASSUME NEW t \in Threads, Process(t) PROVE Goal
  <2> DEFINE b == pinfo[t].ch
             p == pinfo[t].raw
  <2>1. Held(t) /\ b \in Channels /\ p \in Packets
    BY <1>3, HeldPacket DEF Process
  <2>2. \/ UNCHANGED <<wp, given>>
        \/ /\ wp' = [wp EXCEPT ![b] = AfterData(Received(wp[b], p))]
           /\ handed' = [handed EXCEPT ![b] = @ \o Data(Received(wp[b], p))]
           /\ restarted' = [restarted EXCEPT ![b] =
                              IF IsGap(wp[b], p) THEN Len(handed[b]) ELSE @]
    BY <1>3 DEF Process
  <2>3. CASE UNCHANGED <<wp, given>>
    BY <1>1, <2>3
  <2>4. CASE /\ wp' = [wp EXCEPT ![b] = AfterData(Received(wp[b], p))]
             /\ handed' = [handed EXCEPT ![b] = @ \o Data(Received(wp[b], p))]
             /\ restarted' = [restarted EXCEPT ![b] =
                                IF IsGap(wp[b], p) THEN Len(handed[b]) ELSE @]
    <3>1. PerChannel(wp) /\ PerChannel(handed) /\ PerChannel(restarted)
      OBVIOUS
    <3> HIDE DEF b, p, Buffers
    <3>2. PerChannel(wp') /\ PerChannel(handed') /\ PerChannel(restarted')
      BY <2>4, <3>1 DEF PerChannel
    <3>3. \A c \in Channels \ {b} : Kept(c)
      BY <2>4, <3>1 DEF PerChannel, Kept
    <3>4. Handled(b, p)
      BY <2>1, <2>4, <3>1 DEF PerChannel, Handled
    <3>5. HandledBy(b, t)
      BY <1>3, <2>1, <3>4 DEF HandledBy, b, p
    <3>6. ASSUME NEW c \in Channels
          PROVE  Kept(c) \/ \E s \in Threads : HandledBy(c, s)
      BY <3>3, <3>5
    <3> QED  BY <3>2, <3>6
  <2> QED  BY <2>2, <2>3, <2>4
<1>4. ASSUME NEW t \in Threads, ProcessPacket(t), ~Process(t)
      PROVE  UNCHANGED <<wp, given>>
  BY <1>4 DEF ProcessPacket, TestRocknRoll, PopOrWait, PopWoken, GetWPHandle, Ignore
<1>5. ASSUME NEW c \in Channels, NEW d \in Offsets[c], ReadPacket(c, d)
      PROVE  UNCHANGED <<wp, given>>
  BY <1>5 DEF ReadPacket
<1>6. ASSUME NEW t \in Threads, Release(t) PROVE UNCHANGED <<wp, given>>
  BY <1>6 DEF Release
<1>7. ASSUME Terminate \/ EnterInner \/ PushPacket \/ NoMorePackets \/ Drain
             \/ Released \/ Join
      PROVE  UNCHANGED <<wp, given>>
  BY <1>7 DEF Terminate, EnterInner, PushPacket, NoMorePackets, Drain,
     Released, Join, mainOnly
<1>8. ASSUME UNCHANGED vars PROVE UNCHANGED <<wp, given>>
  BY <1>8 DEF vars
<1> HIDE DEF Goal, Buffers
<1>9. Goal
  BY <1>1, <1>2, <1>3, <1>4, <1>5, <1>6, <1>7, <1>8 DEF Next, Main
<1> QED  BY <1>9 DEF Goal

LEMMA NewChannelOk == BufferOk(NewProcessor) /\ HistoryOk(NewProcessor, <<>>, 0)
<1>1. NewProcessor.dataq = <<>> /\ Len(<<>>) = 0 /\ <<>> \in Seq(Nat)
  BY DEF NewProcessor
<1>2. Increasing(<<>>, 0)
  BY <1>1 DEF Increasing
<1> QED  BY <1>1, <1>2, NewProcessorOk DEF HistoryOk

LEMMA BuffersStep == IndInv /\ Buffers /\ [Next]_vars => Buffers'
<1> SUFFICES ASSUME IndInv, Buffers, [Next]_vars PROVE Buffers'
  OBVIOUS
<1>1. /\ PerChannel(wp') /\ PerChannel(handed') /\ PerChannel(restarted')
      /\ \A c \in Channels :
           Kept(c) \/ Renewed(c) \/ \E t \in Threads : HandledBy(c, t)
  BY ChannelSteps
<1>2. ASSUME NEW c \in Channels PROVE ChannelOk(c)'
  <2>1. BufferOk(wp[c]) /\ HistoryOk(wp[c], handed[c], restarted[c])
    BY DEF Buffers, ChannelOk
  <2>2. CASE Kept(c)
    BY <2>1, <2>2 DEF Kept, ChannelOk
  <2>3. CASE Renewed(c)
    BY <2>3, NewChannelOk DEF Renewed, ChannelOk
  <2>4. ASSUME NEW p \in Packets, Handled(c, p) PROVE ChannelOk(c)'
    <3>1. BufferOk(AfterData(Received(wp[c], p)))
      BY <2>1, ReceivedKeeps
    <3>2. HistoryOk(AfterData(Received(wp[c], p)),
                    handed[c] \o Data(Received(wp[c], p)),
                    IF IsGap(wp[c], p) THEN Len(handed[c]) ELSE restarted[c])
      BY <2>1, HistoryKeeps
    <3> QED  BY <2>4, <3>1, <3>2 DEF Handled, ChannelOk
  <2> QED  BY <1>1, <2>2, <2>3, <2>4 DEF HandledBy
<1> QED  BY <1>1, <1>2 DEF Buffers

(* Every buffer, and what the modules have been given of it, is in order,  *)
(* whatever packets come.                                                  *)
THEOREM BuffersKept == Spec => [](IndInv /\ Buffers)
<1>1. Init => Buffers
  BY NewChannelOk DEF Init, Buffers, PerChannel, ChannelOk
<1> QED  BY <1>1, BuffersStep, InitInv, NextInv, PTL DEF Spec

(* WP::checkgap and ProcessBuffer: a buffer has a gap between its first    *)
(* two packets only, whatever packets come.                                *)
THEOREM BuffersFollow == Spec => []GapOnlyInFront
<1>1. Buffers => GapOnlyInFront
  BY DEF Buffers, ChannelOk, BufferOk, FollowsBehind, GapOnlyInFront
<1> QED  BY <1>1, BuffersKept, PTL

(* ProcessBuffer::getData: since they were last restarted, the modules got *)
(* the samples of a channel in the order of time, none twice, and all that *)
(* the buffer has, whatever packets come.                                  *)
THEOREM InOrder == Spec => []HandedOutInOrder
<1>1. Buffers => HandedOutInOrder
  <2> SUFFICES ASSUME Buffers, NEW c \in Channels
               PROVE  /\ \A k \in restarted[c] + 2 .. Len(handed[c]) :
                           handed[c][k - 1] < handed[c][k]
                      /\ wp[c].dataq # <<>> =>
                           /\ Len(handed[c]) > restarted[c]
                           /\ Last(handed[c]) = EndTime(Last(wp[c].dataq))
                      /\ Data(wp[c]) = <<>>
    BY DEF HandedOutInOrder
  <2>1. BufferOk(wp[c]) /\ HistoryOk(wp[c], handed[c], restarted[c])
    BY DEF Buffers, ChannelOk
  <2>2. Data(wp[c]) = <<>>
    BY <2>1, NoData DEF BufferOk
  <2>3. Last(handed[c]) = handed[c][Len(handed[c])] /\ Len(handed[c]) \in Nat
    BY <2>1 DEF Last, HistoryOk
  <2> QED  BY <2>1, <2>2, <2>3 DEF HistoryOk, Increasing
<1> QED  BY <1>1, BuffersKept, PTL

-----------------------------------------------------------------------------
(* The types of the rest of the state.                                     *)
RestType ==
  /\ replaying \in BOOLEAN /\ rocknroll \in BOOLEAN
  /\ eew \in [Threads -> Handles]
  /\ eewmap \in [Channels -> Nat] /\ loads \in Nat /\ reads \in Nat

LEMMA RestStep == IndInv /\ RestType /\ [Next]_vars => RestType'
<1> SUFFICES ASSUME IndInv, RestType, [Next]_vars PROVE RestType'
  OBVIOUS
<1> USE DEF RestType
<1>1. ASSUME NEW now \in SUBSET Channels, NEW changed \in SUBSET Channels,
             ReadChannelData(now, changed)
      PROVE  RestType'
  <2> DEFINE fresh == {c \in now : eewmap[c] = 0 \/ c \in changed}
  <2>1. /\ eewmap' = [c \in Channels |-> IF c \notin now THEN 0
                                         ELSE IF c \in fresh THEN loads + 1
                                         ELSE eewmap[c]]
        /\ loads' = loads + 1
        /\ UNCHANGED <<source, rocknroll, threads>>
    BY <1>1 DEF ReadChannelData
  <2> HIDE DEF fresh
  <2>2. eewmap' \in [Channels -> Nat] /\ loads' \in Nat
    BY <2>1
  <2> QED  BY <2>1, <2>2 DEF source, threads
<1>2. ASSUME NEW t \in Threads, GetWPHandle(t) PROVE RestType'
  <2> DEFINE known == pinfo[t] # NullPacket /\ eewmap[pinfo[t].ch] # 0
             handle == IF known THEN <<pinfo[t].ch, eewmap[pinfo[t].ch]>>
                       ELSE NoHandle
  <2>1. handle \in Handles
    <3>1. ASSUME known PROVE pinfo[t].ch \in Channels
      BY <3>1 DEF IndInv, FlowType, Infos, ChannelPackets
    <3> QED  BY <3>1 DEF Handles
  <2>2. eew' = [eew EXCEPT ![t] = handle] /\ UNCHANGED threadOnly
    BY <1>2 DEF GetWPHandle
  <2> HIDE DEF handle
  <2> QED  BY <2>1, <2>2 DEF threadOnly, source, channels
<1>3. ASSUME NEW t \in Threads, Ignore(t) \/ Process(t) PROVE RestType'
  <2>1. eew' = [eew EXCEPT ![t] = NoHandle] /\ UNCHANGED threadOnly
    BY <1>3 DEF Ignore, Process
  <2> QED  BY <2>1 DEF Handles, threadOnly, source, channels
<1>4. ASSUME NEW t \in Threads, TestRocknRoll(t) \/ PopOrWait(t) \/ PopWoken(t)
      PROVE  RestType'
  BY <1>4 DEF TestRocknRoll, PopOrWait, PopWoken, threadOnly, source, channels
<1>5. ASSUME NEW c \in Channels, NEW d \in Offsets[c], ReadPacket(c, d)
      PROVE  RestType'
  BY <1>5 DEF ReadPacket, channels
<1>6. ASSUME NEW t \in Threads, Release(t) PROVE RestType'
  BY <1>6 DEF Release, source, channels
<1>7. CASE Terminate \/ EnterInner \/ PushPacket \/ NoMorePackets \/ Drain
           \/ Released \/ Join
  BY <1>7 DEF Terminate, EnterInner, PushPacket, NoMorePackets, Drain,
     Released, Join, mainOnly, source, channels, threads
<1>8. CASE UNCHANGED vars
  BY <1>8 DEF vars
<1> HIDE DEF RestType
<1> QED
  BY <1>1, <1>2, <1>3, <1>4, <1>5, <1>6, <1>7, <1>8 DEF Next, Main, ProcessPacket

(* The types of the whole state, the count of the packets among them.      *)
THEOREM TypeCorrect == Spec => []TypeOK
<1>1. Init => RestType
  BY DEF Init, RestType, Handles
<1>2. IndInv /\ Buffers /\ RestType => TypeOK
  <2> SUFFICES ASSUME IndInv, Buffers, RestType PROVE TypeOK
    OBVIOUS
  <2>1. \A c \in Channels : /\ wp[c] \in Processors /\ handed[c] \in Seq(Nat)
                            /\ restarted[c] \in Nat
    BY DEF Buffers, ChannelOk, BufferOk, HistoryOk
  <2>2. /\ wp \in [Channels -> Processors] /\ handed \in [Channels -> Seq(Nat)]
        /\ restarted \in [Channels -> Nat]
    BY <2>1 DEF Buffers, PerChannel
  <2>3. count \in Nat
    BY FS_CardinalityType DEF IndInv, AllCounted
  <2> QED  BY <2>2, <2>3 DEF TypeOK, IndInv, FlowType, RestType
<1>3. Spec => [](IndInv /\ Buffers)
  BY BuffersKept
<1> QED  BY <1>1, <1>2, <1>3, RestStep, PTL DEF Spec

-----------------------------------------------------------------------------
(* The packets on their way to the processors: in the hand of thread t, at *)
(* the places of its queue, and in the hand of the main thread behind it.  *)
At(t, k) ==
  IF k = 0 THEN IF Held(t) THEN pinfo[t] ELSE NullPacket
  ELSE IF k <= Len(pktq[t]) THEN pktq[t][k]
  ELSE IF k = Len(pktq[t]) + 1 /\ main = "push" /\ HashOf[packet.ch] = t THEN packet
  ELSE NullPacket

OfChannel(info, c) == info # NullPacket /\ info.ch = c
Until(info) == info.raw.start + info.raw.length

(* They are in the queue of their station; those of a channel that is read *)
(* in order end one after the other, none before what has been processed,  *)
(* and none after what has been read.                                      *)
Routed ==
  \A t \in Threads, k \in Nat :
    At(t, k) # NullPacket => At(t, k) \in ChannelPackets /\ HashOf[At(t, k).ch] = t

InSequence(c) ==
  LET p(k) == At(HashOf[c], k)
  IN /\ wp[c].lasttime <= sent[c]
     /\ \A k \in Nat : OfChannel(p(k), c) =>
          wp[c].lasttime <= Until(p(k)) /\ Until(p(k)) <= sent[c]
     /\ \A i, j \in Nat : i < j /\ OfChannel(p(i), c) /\ OfChannel(p(j), c) =>
          Until(p(i)) <= Until(p(j))

(* The modules have been given nothing of the time that is to come.        *)
GivenOnce(c) ==
  /\ Increasing(handed[c], 0)
  /\ handed[c] # <<>> => handed[c][Len(handed[c])] < wp[c].lasttime

OnTheWay ==
  /\ Routed
  /\ \A c \in Channels : ReadInOrder(c) => InSequence(c) /\ GivenOnce(c)

(* Packets move up by a place at most, or are taken away.                  *)
MovesUp(t, s) == \A k \in Nat : At(t, k)' = NullPacket \/ At(t, k)' = At(t, k + s)

LEMMA PopMoves ==
  ASSUME IndInv, NEW t \in Threads, Pop(t), UNCHANGED <<main, packet>>
  PROVE  \A x \in Threads : \E s \in {0, 1} : MovesUp(x, s)
<1>1. FlowType
  BY DEF IndInv
<1>2. /\ thread'[t] = "find" /\ pinfo'[t] = pktq[t][1]
      /\ \A x \in Threads \ {t} : /\ thread'[x] = thread[x]
                                  /\ pktq'[x] = pktq[x] /\ pinfo'[x] = pinfo[x]
      /\ Len(pktq[t]) >= 1 /\ Len(pktq'[t]) = Len(pktq[t]) - 1
      /\ \A k \in 1 .. Len(pktq'[t]) : pktq'[t][k] = pktq[t][k + 1]
  BY <1>1, PopTyped
<1>3. Len(pktq[t]) \in Nat
  BY <1>1, QueueTyped
<1>4. ASSUME NEW x \in Threads \ {t} PROVE MovesUp(x, 0)
  <2> SUFFICES ASSUME NEW k \in Nat PROVE At(x, k)' = At(x, k + 0)
    BY DEF MovesUp
  <2>1. k + 0 = k
    OBVIOUS
  <2> QED  BY <1>2, <2>1 DEF At, Held
<1>5. MovesUp(t, 1)
  <2> SUFFICES ASSUME NEW k \in Nat
               PROVE  At(t, k)' = NullPacket \/ At(t, k)' = At(t, k + 1)
    BY DEF MovesUp
  <2>1. k + 1 # 0
    OBVIOUS
  <2>2. CASE k = 0
    <3>1. At(t, k)' = NullPacket \/ At(t, k)' = pktq[t][1]
      BY <1>2, <2>2 DEF At
    <3>2. At(t, k + 1) = pktq[t][1]
      BY <1>2, <1>3, <2>2 DEF At
    <3> QED  BY <3>1, <3>2
  <2>3. CASE k # 0 /\ k <= Len(pktq'[t])
    <3>1. k \in 1 .. Len(pktq'[t]) /\ k + 1 <= Len(pktq[t])
      BY <1>2, <1>3, <2>3
    <3> QED  BY <1>2, <2>1, <2>3, <3>1 DEF At
  <2>4. CASE k # 0 /\ ~(k <= Len(pktq'[t]))
    <3>1. /\ ~(k + 1 <= Len(pktq[t]))
          /\ k = Len(pktq'[t]) + 1 <=> k + 1 = Len(pktq[t]) + 1
      BY <1>2, <1>3, <2>4
    <3> QED  BY <2>1, <2>4, <3>1 DEF At
  <2> QED  BY <2>2, <2>3, <2>4
<1> QED  BY <1>4, <1>5

LEMMA PushMoves ==
  ASSUME IndInv, NEW t \in Threads, NEW info \in Infos, Push(t, info),
         UNCHANGED pinfo, main' # "push",
         info = IF main = "push" THEN packet ELSE NullPacket,
         main = "push" => HashOf[packet.ch] = t
  PROVE  \A x \in Threads : MovesUp(x, 0)
<1>1. FlowType
  BY DEF IndInv
<1>2. /\ \A x \in Threads \ {t} : thread'[x] = thread[x] /\ pktq'[x] = pktq[x]
      /\ pktq'[t] = Append(pktq[t], info)
      /\ thread'[t] = IF Wakes(t) THEN "woken" ELSE thread[t]
  BY <1>1, PushTyped
<1>3. pktq[t] \in Seq(Infos) /\ Len(pktq[t]) \in Nat
  BY <1>1, QueueTyped
<1>4. /\ Len(pktq'[t]) = Len(pktq[t]) + 1 /\ pktq'[t][Len(pktq[t]) + 1] = info
      /\ \A k \in 1 .. Len(pktq[t]) : pktq'[t][k] = pktq[t][k]
  BY <1>2, <1>3, AppendProperties
<1>5. \A x \in Threads : Held(x)' <=> Held(x)
  BY <1>2 DEF Held, Wakes
<1>6. ASSUME NEW x \in Threads, NEW k \in Nat PROVE At(x, k)' = At(x, k)
             \/ At(x, k)' = NullPacket
  <2>1. CASE k = 0
    BY <1>5, <2>1 DEF At
  <2>2. CASE k # 0 /\ x # t
    <3>1. pktq'[x] = pktq[x]
      BY <1>2, <2>2
    <3> QED  BY <2>2, <3>1 DEF At
  <2>3. CASE k # 0 /\ x = t /\ k <= Len(pktq[t])
    <3>1. k \in 1 .. Len(pktq[t]) /\ k <= Len(pktq'[t])
      BY <1>3, <1>4, <2>3
    <3> QED  BY <1>4, <2>3, <3>1 DEF At
  <2>4. CASE x = t /\ k = Len(pktq[t]) + 1
    <3>1. k # 0 /\ k <= Len(pktq'[t]) /\ ~(k <= Len(pktq[t]))
      BY <1>3, <1>4, <2>4
    <3>2. At(x, k)' = info
      BY <1>4, <2>4, <3>1 DEF At
    <3>3. At(x, k) = IF main = "push" THEN packet ELSE NullPacket
      BY <2>4, <3>1 DEF At
    <3> QED  BY <3>2, <3>3
  <2>5. CASE x = t /\ k > Len(pktq[t]) + 1
    <3>1. k # 0 /\ ~(k <= Len(pktq'[t]))
      BY <1>3, <1>4, <2>5
    <3> QED  BY <2>5, <3>1 DEF At
  <2> QED  BY <1>3, <2>1, <2>2, <2>3, <2>4, <2>5
<1>7. \A k \in Nat : k + 0 = k
  OBVIOUS
<1> QED  BY <1>6, <1>7 DEF MovesUp

(* Threads that go on without the queues.                                  *)
LEMMA HandsMove ==
  ASSUME UNCHANGED <<pktq, pinfo, packet>>, main' # "push" \/ main' = main,
         \A x \in Threads : Held(x)' => Held(x)
  PROVE  \A x \in Threads : MovesUp(x, 0)
<1>1. \A k \in Nat : k + 0 = k
  OBVIOUS
<1> QED  BY <1>1 DEF MovesUp, At

LEMMA PlacesStep ==
  ASSUME IndInv, [Next]_vars
  PROVE  \/ sent' = sent /\ \A t \in Threads : \E s \in {0, 1} : MovesUp(t, s)
         \/ \E c \in Channels : \E d \in Offsets[c] : ReadPacket(c, d)
<1> DEFINE Moved == \A t \in Threads : \E s \in {0, 1} : MovesUp(t, s)
<1>0. (\A t \in Threads : MovesUp(t, 0)) => Moved
  OBVIOUS
<1>1. ASSUME PushPacket PROVE Moved /\ sent' = sent
  <2>1. /\ main = "push" /\ main' = "inner" /\ Push(HashOf[packet.ch], packet)
        /\ UNCHANGED <<source, pinfo>>
    BY <1>1 DEF PushPacket
  <2>2. packet \in Infos /\ HashOf[packet.ch] \in Threads
    BY <2>1 DEF IndInv, FlowType, Served, Started
  <2> QED  BY <1>0, <2>1, <2>2, PushMoves DEF source
<1>2. ASSUME NEW t \in Threads, Release(t) PROVE Moved /\ sent' = sent
  <2>1. /\ main = "release" /\ main' = main /\ Push(t, NullPacket)
        /\ UNCHANGED <<source, pinfo>> /\ NullPacket \in Infos
    BY <1>2 DEF Release, Infos
  <2> QED  BY <1>0, <2>1, PushMoves DEF source
<1>3. ASSUME Terminate \/ EnterInner \/ NoMorePackets \/ Drain \/ Released
             \/ Join \/ (\E now, changed \in SUBSET Channels :
                           ReadChannelData(now, changed))
      PROVE  Moved /\ sent' = sent
  <2>1. UNCHANGED <<packet, queues, threads, sent>> /\ main' # "push"
    BY <1>3 DEF Terminate, EnterInner, NoMorePackets, Drain, Released, Join,
       mainOnly, ReadChannelData, source
  <2>2. UNCHANGED <<pktq, pinfo, packet>> /\ \A x \in Threads : Held(x)' => Held(x)
    BY <2>1 DEF queues, threads, Held
  <2> QED  BY <1>0, <2>1, <2>2, HandsMove
<1>4. ASSUME NEW t \in Threads, Pop(t), UNCHANGED threadOnly
      PROVE  Moved /\ sent' = sent
  BY <1>4, PopMoves DEF threadOnly, source
<1>5. ASSUME NEW t \in Threads, NEW step, thread' = [thread EXCEPT ![t] = step],
             step # "find", step = "process" => thread[t] = "find",
             UNCHANGED <<threadOnly, pktq, pinfo>>
      PROVE  Moved /\ sent' = sent
  <2>1. thread \in [Threads -> Steps]
    BY DEF IndInv, FlowType
  <2>2. \A x \in Threads : Held(x)' => Held(x)
    BY <1>5, <2>1 DEF Held
  <2> QED  BY <1>0, <1>5, <2>2, HandsMove DEF threadOnly, source
<1>6. ASSUME NEW t \in Threads, ProcessPacket(t) PROVE Moved /\ sent' = sent
  <2>1. CASE TestRocknRoll(t)
    <3>1. PICK step \in {"pop", "done"} : thread' = [thread EXCEPT ![t] = step]
      BY <2>1 DEF TestRocknRoll
    <3> QED  BY <1>5, <2>1, <3>1 DEF TestRocknRoll, queues
  <2>2. CASE PopOrWait(t)
    BY <1>4, <1>5, <2>2 DEF PopOrWait
  <2>3. CASE PopWoken(t)
    BY <1>4, <2>3 DEF PopWoken
  <2>4. CASE GetWPHandle(t)
    <3>1. PICK step \in {"process", "test"} : thread' = [thread EXCEPT ![t] = step]
      BY <2>4 DEF GetWPHandle
    <3> QED  BY <1>5, <2>4, <3>1 DEF GetWPHandle, queues
  <2>5. CASE Ignore(t) \/ Process(t)
    <3>1. /\ thread' = [thread EXCEPT ![t] = "test"]
          /\ UNCHANGED <<threadOnly, pktq, pinfo>>
      BY <2>5 DEF Ignore, Process, queues
    <3> QED  BY <1>5, <3>1
  <2> QED  BY <1>6, <2>1, <2>2, <2>3, <2>4, <2>5 DEF ProcessPacket
<1>7. ASSUME UNCHANGED vars PROVE Moved /\ sent' = sent
  <2>1. UNCHANGED <<pktq, pinfo, packet, main, sent, thread>>
    BY <1>7 DEF vars, queues, threads, source
  <2> QED  BY <1>0, <2>1, HandsMove DEF Held
<1> HIDE DEF Moved
<1>8. \/ Moved /\ sent' = sent
      \/ \E c \in Channels : \E d \in Offsets[c] : ReadPacket(c, d)
  BY <1>1, <1>2, <1>3, <1>6, <1>7 DEF Next, Main
<1> QED  BY <1>8 DEF Moved

(* A packet that has been read is the last of its queue.                   *)
LEMMA ReadMoves ==
  ASSUME IndInv, NEW c \in Channels, NEW d \in Offsets[c], ReadPacket(c, d)
  PROVE  /\ packet' \in ChannelPackets /\ packet'.ch = c
         /\ Until(packet') = sent[c] + d + PacketLength
         /\ sent' = [sent EXCEPT ![c] = sent[c] + d + PacketLength]
         /\ sent[c] \in Int /\ d \in Int
         /\ \E n \in Nat :
              /\ At(HashOf[c], n)' = packet'
              /\ \A t \in Threads, k \in Nat :
                   \/ t = HashOf[c] /\ k = n
                   \/ At(t, k)' = At(t, k)
              /\ \A k \in Nat : k > n => At(HashOf[c], k)' = NullPacket
<1> DEFINE h == HashOf[c]
<1>1. /\ main = "inner" /\ main' = "push" /\ sent[c] + d >= 0
      /\ packet' = [ch |-> c, raw |-> [start |-> sent[c] + d, length |-> PacketLength]]
      /\ sent' = [sent EXCEPT ![c] = sent[c] + d + PacketLength]
      /\ thread' = [thread EXCEPT ![h] = IF @ = "none" THEN "test" ELSE @]
      /\ UNCHANGED <<pktq, pinfo>>
  BY DEF ReadPacket, queues
<1>2. /\ h \in Threads /\ d \in Int /\ sent[c] \in Int /\ PacketLength \in Nat \ {0}
      /\ thread \in [Threads -> Steps] /\ Len(pktq[h]) \in Nat
  BY PacketFeederAssumption, QueueTyped DEF IndInv, FlowType
<1>3. packet' \in ChannelPackets /\ packet'.ch = c
  <2>1. [start |-> sent[c] + d, length |-> PacketLength] \in Packets
    BY <1>1, <1>2 DEF Packets
  <2> QED  BY <1>1, <2>1 DEF ChannelPackets
<1>4. Until(packet') = sent[c] + d + PacketLength
  BY <1>1 DEF Until
<1>5. HashOf[packet'.ch] = h
  BY <1>3
<1> HIDE DEF h
<1>6. \A t \in Threads : Held(t)' <=> Held(t)
  BY <1>1, <1>2 DEF Held
<1>7. PICK n \in Nat : n = Len(pktq[h]) + 1 /\ n # 0 /\ ~(n <= Len(pktq[h]))
  BY <1>2
<1>8. At(h, n)' = packet'
  BY <1>1, <1>5, <1>7 DEF At
<1>9. ASSUME NEW t \in Threads, NEW k \in Nat, ~(t = h /\ k = n)
      PROVE  At(t, k)' = At(t, k)
  BY <1>1, <1>5, <1>6, <1>7, <1>9 DEF At
<1>10. ASSUME NEW k \in Nat, k > n PROVE At(h, k)' = NullPacket
  <2>1. k # 0 /\ ~(k <= Len(pktq[h])) /\ k # n
    BY <1>2, <1>7, <1>10
  <2> QED  BY <1>1, <1>7, <2>1 DEF At
<1> QED
  BY <1>1, <1>2, <1>3, <1>4, <1>8, <1>9, <1>10 DEF h

LEMMA RoutedStep ==
  ASSUME IndInv, Routed, [Next]_vars
  PROVE  Routed'
<1>1. ASSUME NEW c \in Channels, NEW d \in Offsets[c], ReadPacket(c, d)
      PROVE  Routed'
  <2> DEFINE h == HashOf[c]
  <2>1. packet' \in ChannelPackets /\ packet'.ch = c
    BY <1>1, ReadMoves
  <2>2. PICK n \in Nat :
          /\ At(h, n)' = packet'
          /\ \A t \in Threads, k \in Nat : (t = h /\ k = n) \/ At(t, k)' = At(t, k)
    BY <1>1, ReadMoves
  <2> SUFFICES ASSUME NEW t \in Threads, NEW k \in Nat, At(t, k)' # NullPacket
               PROVE  At(t, k)' \in ChannelPackets /\ HashOf[At(t, k)'.ch] = t
    BY DEF Routed
  <2>3. CASE t = h /\ k = n
    BY <2>1, <2>2, <2>3
  <2>4. CASE ~(t = h /\ k = n)
    <3>1. At(t, k)' = At(t, k)
      BY <2>2, <2>4
    <3> QED  BY <3>1 DEF Routed
  <2> QED  BY <2>3, <2>4
<1>2. ASSUME \A t \in Threads : \E s \in {0, 1} : MovesUp(t, s) PROVE Routed'
  <2> SUFFICES ASSUME NEW t \in Threads, NEW k \in Nat, At(t, k)' # NullPacket
               PROVE  At(t, k)' \in ChannelPackets /\ HashOf[At(t, k)'.ch] = t
    BY DEF Routed
  <2>1. PICK s \in {0, 1} : MovesUp(t, s)
    BY <1>2
  <2>2. k + s \in Nat /\ At(t, k)' = At(t, k + s)
    BY <2>1 DEF MovesUp
  <2> QED  BY <2>2 DEF Routed
<1> QED  BY <1>1, <1>2, PlacesStep

(* What a packet does to the time expected next and to what was given.     *)
LEMMA GivenKeeps ==
  ASSUME Buffers, NEW c \in Channels, GivenOnce(c), NEW p \in Packets,
         Handled(c, p), wp[c].lasttime <= p.start + p.length
  PROVE  GivenOnce(c)' /\ wp'[c].lasttime = p.start + p.length
<1> DEFINE w == wp[c]
           h == handed[c]
           d == IF IsGap(w, p) THEN <<>> ELSE w.dataq
           v == Received(w, p)
           u == AfterData(v)
<1>1. BufferOk(w) /\ HistoryOk(w, h, restarted[c])
  BY DEF Buffers, ChannelOk
<1>2. wp'[c] = u /\ handed'[c] = h \o Data(v)
  BY DEF Handled
<1>3. /\ u.lasttime = EndTime(p) + 1
      /\ Stale(d, p) => Data(v) = <<>>
      /\ ~Stale(d, p) => Data(v) = Run(NewPart(d, p))
  BY <1>1, ReceivedKeeps
<1>4. /\ p.start \in Nat /\ p.length \in Nat \ {0} /\ EndTime(p) \in Nat
      /\ EndTime(p) = p.start + p.length - 1
  BY PacketTimes
<1>5. d \in Seq(Packets) /\ w.lasttime \in Nat
  BY <1>1 DEF BufferOk, Processors
<1>6. /\ h \in Seq(Nat) /\ Len(h) \in Nat /\ Increasing(h, 0)
      /\ h # <<>> => h[Len(h)] \in Nat /\ h[Len(h)] < w.lasttime
  BY <1>1 DEF HistoryOk, GivenOnce
<1>7. u.lasttime = p.start + p.length /\ w.lasttime <= u.lasttime
  BY <1>3, <1>4
<1>8. /\ d = <<>> => h = <<>> \/ p.start > w.lasttime
      /\ d # <<>> => h[Len(h)] = EndTime(Last(d))
  <2>1. IsGap(w, p) => p.start > w.lasttime
    BY <1>4, <1>5 DEF IsGap
  <2> QED  BY <1>1, <2>1 DEF HistoryOk
<1> HIDE DEF w, h, d, v, u
<1>9. CASE Stale(d, p)
  <2>1. h \o Data(v) = h
    BY <1>3, <1>6, <1>9, ConcatEmptySeq
  <2>2. handed'[c] = h /\ wp'[c] = u
    BY <1>2, <2>1
  <2>3. h # <<>> => h[Len(h)] < u.lasttime
    BY <1>4, <1>5, <1>6, <1>7
  <2> QED  BY <1>6, <1>7, <2>2, <2>3 DEF GivenOnce
<1>10. CASE ~Stale(d, p)
  <2> DEFINE x == NewPart(d, p)
  <2>1. x \in Packets /\ EndTime(x) = EndTime(p) /\ x.length \in Nat \ {0}
    BY <1>5, <1>10, NewPartFollows, PacketTimes
  <2>2. ASSUME 0 < Len(h) PROVE h[Len(h)] < x.start
    <3>1. h # <<>>
      BY <2>2
    <3>2. CASE d = <<>>
      <4>1. x = p /\ p.start > w.lasttime
        BY <1>5, <1>8, <1>10, <3>1, <3>2, NewPartAfter
      <4> QED  BY <1>4, <1>5, <1>6, <3>1, <4>1
    <3>3. CASE d # <<>>
      BY <1>5, <1>8, <1>10, <3>3, NewPartAfter
    <3> QED  BY <3>2, <3>3
  <2> HIDE DEF x
  <2>3. /\ h \o Run(x) \in Seq(Nat) /\ Len(h \o Run(x)) = Len(h) + x.length
        /\ Increasing(h \o Run(x), 0)
        /\ (h \o Run(x))[Len(h \o Run(x))] = EndTime(x)
    BY <1>6, <2>1, <2>2, RunAppended
  <2>4. handed'[c] = h \o Run(x) /\ wp'[c] = u
    BY <1>2, <1>3, <1>10 DEF x
  <2>5. EndTime(p) < u.lasttime
    BY <1>4, <1>7
  <2> QED  BY <1>7, <2>1, <2>3, <2>4, <2>5 DEF GivenOnce
<1> QED  BY <1>9, <1>10

LEMMA OnTheWayStep ==
  ASSUME IndInv, Buffers, OnTheWay, [Next]_vars
  PROVE  OnTheWay'
<1>1. Routed'
  BY RoutedStep DEF OnTheWay
<1> SUFFICES ASSUME NEW c \in Channels, ReadInOrder(c)
             PROVE  InSequence(c)' /\ GivenOnce(c)'
  BY <1>1 DEF OnTheWay, ReadInOrder
<1> DEFINE h == HashOf[c]
<1>2. InSequence(c) /\ GivenOnce(c) /\ h \in Threads
  BY PacketFeederAssumption DEF OnTheWay
<1>3. /\ sent[c] \in Int /\ wp[c].lasttime \in Nat
      /\ \A k \in Nat : OfChannel(At(h, k), c) => Until(At(h, k)) \in Nat
  <2>1. sent[c] \in Int /\ wp[c].lasttime \in Nat
    BY DEF IndInv, FlowType, Buffers, ChannelOk, BufferOk, Processors
  <2>2. ASSUME NEW k \in Nat, OfChannel(At(h, k), c) PROVE Until(At(h, k)) \in Nat
    <3>1. At(h, k) \in ChannelPackets
      BY <1>2, <2>2 DEF OnTheWay, Routed, OfChannel
    <3>2. At(h, k).raw \in Packets
      BY <3>1 DEF ChannelPackets
    <3>3. At(h, k).raw.start \in Nat /\ At(h, k).raw.length \in Nat
      BY <3>2, PacketTimes
    <3> QED  BY <3>3 DEF Until
  <2> QED  BY <2>1, <2>2
<1>4. Kept(c) \/ Renewed(c) \/ \E t \in Threads : HandledBy(c, t)
  BY ChannelSteps
<1>5. CASE \E b \in Channels : \E d \in Offsets[b] : ReadPacket(b, d)
  <2>1. PICK b \in Channels : \E d \in Offsets[b] : ReadPacket(b, d)
    BY <1>5
  <2>2. PICK d \in Offsets[b] : ReadPacket(b, d)
    BY <2>1
  <2>3. /\ packet' \in ChannelPackets /\ packet'.ch = b
        /\ Until(packet') = sent[b] + d + PacketLength
        /\ sent' = [sent EXCEPT ![b] = sent[b] + d + PacketLength]
        /\ sent[b] \in Int /\ d \in Int
        /\ \E n \in Nat :
             /\ At(HashOf[b], n)' = packet'
             /\ \A t \in Threads, k \in Nat :
                  (t = HashOf[b] /\ k = n) \/ At(t, k)' = At(t, k)
             /\ \A k \in Nat : k > n => At(HashOf[b], k)' = NullPacket
    BY <2>2, ReadMoves
  <2>moved. PICK n \in Nat :
          /\ At(HashOf[b], n)' = packet'
          /\ \A t \in Threads, k \in Nat :
               (t = HashOf[b] /\ k = n) \/ At(t, k)' = At(t, k)
          /\ \A k \in Nat : k > n => At(HashOf[b], k)' = NullPacket
    BY <2>3
  <2> HIDE DEF h
  <2>4. GivenOnce(c)' /\ wp'[c] = wp[c]
    <3>1. wp' = wp /\ handed' = handed
      BY <2>2 DEF ReadPacket, given
    <3> QED  BY <1>2, <3>1 DEF GivenOnce
  <2>5. sent[c] <= sent'[c] /\ (b = c => sent'[c] = Until(packet'))
        /\ sent'[c] \in Int
    <3>1. CASE b = c
      <4>1. d >= -PacketLength /\ PacketLength \in Nat
        BY <3>1, PacketFeederAssumption DEF ReadInOrder
      <4>2. sent'[c] = sent[c] + d + PacketLength
        BY <2>3, <3>1 DEF IndInv, FlowType
      <4> QED  BY <1>3, <2>3, <3>1, <4>1, <4>2
    <3>2. CASE b # c
      BY <1>3, <2>3, <3>2 DEF IndInv, FlowType
    <3> QED  BY <3>1, <3>2
  <2>6. ASSUME NEW k \in Nat, OfChannel(At(h, k)', c)
        PROVE  \/ b = c /\ k = n /\ At(h, k)' = packet'
               \/ At(h, k)' = At(h, k) /\ OfChannel(At(h, k), c) /\ (b = c => k < n)
    <3>1. CASE h = HashOf[b] /\ k = n
      BY <2>3, <2>moved, <2>6, <3>1 DEF OfChannel
    <3>2. CASE ~(h = HashOf[b] /\ k = n)
      <4>1. At(h, k)' = At(h, k)
        BY <1>2, <2>moved, <3>2
      <4>2. b = c => k < n
        BY <2>moved, <2>6, <3>2 DEF OfChannel, h
      <4> QED  BY <2>6, <4>1, <4>2
    <3> QED  BY <3>1, <3>2
  <2>7. wp[c].lasttime <= sent[c]
        /\ \A k \in Nat : OfChannel(At(h, k), c) =>
             wp[c].lasttime <= Until(At(h, k)) /\ Until(At(h, k)) <= sent[c]
        /\ \A i, j \in Nat : i < j /\ OfChannel(At(h, i), c) /\ OfChannel(At(h, j), c)
             => Until(At(h, i)) <= Until(At(h, j))
    BY <1>2 DEF InSequence, h
  <2>8. wp'[c].lasttime <= sent'[c]
    BY <1>3, <2>4, <2>5, <2>7
  <2>9. ASSUME NEW k \in Nat, OfChannel(At(h, k)', c)
        PROVE  wp'[c].lasttime <= Until(At(h, k)') /\ Until(At(h, k)') <= sent'[c]
    BY <1>3, <2>4, <2>5, <2>6, <2>7, <2>9
  <2>10. ASSUME NEW i \in Nat, NEW j \in Nat, i < j,
                OfChannel(At(h, i)', c), OfChannel(At(h, j)', c)
         PROVE  Until(At(h, i)') <= Until(At(h, j)')
    <3>1. CASE At(h, j)' = At(h, j) /\ OfChannel(At(h, j), c) /\ (b = c => j < n)
      <4>1. At(h, i)' = At(h, i) /\ OfChannel(At(h, i), c)
        BY <2>6, <2>10, <3>1
      <4> QED  BY <2>7, <2>10, <3>1, <4>1
    <3>2. CASE b = c /\ j = n /\ At(h, j)' = packet'
      <4>1. Until(At(h, j)') = sent'[c]
        BY <2>5, <3>2
      <4> QED  BY <2>9, <2>10, <4>1
    <3> QED  BY <2>6, <2>10, <3>1, <3>2
  <2> QED  BY <2>4, <2>8, <2>9, <2>10 DEF InSequence, h, Until, OfChannel
<1>6. CASE sent' = sent /\ \A t \in Threads : \E s \in {0, 1} : MovesUp(t, s)
  <2>1. PICK s \in {0, 1} : MovesUp(h, s)
    BY <1>2, <1>6
  <2>2. \A k \in Nat : OfChannel(At(h, k)', c) =>
          At(h, k)' = At(h, k + s) /\ OfChannel(At(h, k + s), c)
    BY <2>1 DEF MovesUp, OfChannel
  <2>3. /\ wp[c].lasttime <= sent[c]
        /\ \A k \in Nat : OfChannel(At(h, k), c) =>
             wp[c].lasttime <= Until(At(h, k)) /\ Until(At(h, k)) <= sent[c]
        /\ \A i, j \in Nat : i < j /\ OfChannel(At(h, i), c) /\ OfChannel(At(h, j), c)
             => Until(At(h, i)) <= Until(At(h, j))
    BY <1>2 DEF InSequence
  <2> HIDE DEF h
  <2>4. ASSUME NEW i \in Nat, NEW j \in Nat, i < j,
               OfChannel(At(h, i)', c), OfChannel(At(h, j)', c)
        PROVE  Until(At(h, i)') <= Until(At(h, j)')
    <3>1. i + s \in Nat /\ j + s \in Nat /\ i + s < j + s
      BY <2>1, <2>4
    <3> QED  BY <2>2, <2>3, <2>4, <3>1
  <2>5. ASSUME wp'[c].lasttime <= sent[c],
               \A k \in Nat : OfChannel(At(h, k)', c) =>
                 wp'[c].lasttime <= Until(At(h, k + s))
        PROVE  InSequence(c)'
    <3>1. ASSUME NEW k \in Nat, OfChannel(At(h, k)', c)
          PROVE  /\ wp'[c].lasttime <= Until(At(h, k)')
                 /\ Until(At(h, k)') <= sent'[c]
      <4>1. k + s \in Nat
        BY <2>1
      <4> QED  BY <1>6, <2>2, <2>3, <2>5, <3>1, <4>1
    <3> QED  BY <1>6, <2>4, <2>5, <3>1 DEF InSequence, h, Until, OfChannel
  <2>6. CASE Kept(c)
    <3>1. GivenOnce(c)'
      BY <1>2, <2>6 DEF Kept, GivenOnce
    <3>2. wp'[c].lasttime <= sent[c]
      BY <2>3, <2>6 DEF Kept
    <3>3. ASSUME NEW k \in Nat, OfChannel(At(h, k)', c)
          PROVE  wp'[c].lasttime <= Until(At(h, k + s))
      <4>1. k + s \in Nat
        BY <2>1
      <4> QED  BY <2>2, <2>3, <2>6, <3>3, <4>1 DEF Kept
    <3> QED  BY <2>5, <3>1, <3>2, <3>3
  <2>7. CASE Renewed(c)
    <3>1. wp'[c].lasttime = 0 /\ handed'[c] = <<>>
      BY <2>7 DEF Renewed, NewProcessor
    <3>2. GivenOnce(c)'
      BY <3>1 DEF GivenOnce, Increasing
    <3>3. wp'[c].lasttime <= sent[c]
      BY <1>3, <2>3, <3>1
    <3>4. ASSUME NEW k \in Nat, OfChannel(At(h, k)', c)
          PROVE  wp'[c].lasttime <= Until(At(h, k + s))
      <4>1. k + s \in Nat /\ OfChannel(At(h, k + s), c)
        BY <2>1, <2>2, <3>4
      <4> QED  BY <1>3, <3>1, <4>1 DEF h
    <3> QED  BY <2>5, <3>2, <3>3, <3>4
  <2>8. ASSUME NEW t \in Threads, HandledBy(c, t)
        PROVE  InSequence(c)' /\ GivenOnce(c)'
    <3> DEFINE p == pinfo[t].raw
    <3>1. /\ Process(t) /\ Held(t) /\ pinfo[t].ch = c /\ p \in Packets /\ Handled(c, p)
          /\ thread[t] = "process" /\ pinfo[t] # NullPacket
      BY <2>8 DEF HandledBy, Process, Held
    <3>2. At(t, 0) = pinfo[t] /\ OfChannel(At(t, 0), c)
      BY <3>1 DEF At, OfChannel
    <3>3. t = h
      BY <3>2 DEF OnTheWay, Routed, OfChannel, h
    <3>4. Until(At(h, 0)) = p.start + p.length
      BY <3>2, <3>3 DEF Until
    <3>5. wp[c].lasttime <= p.start + p.length /\ p.start + p.length <= sent[c]
      BY <2>3, <3>2, <3>3, <3>4
    <3> HIDE DEF p
    <3>6. GivenOnce(c)' /\ wp'[c].lasttime = p.start + p.length
      BY <1>2, <3>1, <3>5, GivenKeeps
    <3>7. ASSUME NEW k \in Nat, OfChannel(At(h, k)', c)
          PROVE  wp'[c].lasttime <= Until(At(h, k + s))
      <4>1. k # 0
        <5>1. thread'[t] = "test"
          BY <3>1 DEF Process, IndInv, FlowType
        <5>2. At(h, 0)' = NullPacket
          BY <3>3, <5>1 DEF At, Held
        <5> QED  BY <3>7, <5>2 DEF OfChannel
      <4>2. k + s \in Nat /\ 0 < k + s
        BY <2>1, <4>1
      <4> QED  BY <2>2, <2>3, <3>2, <3>3, <3>4, <3>6, <3>7, <4>2
    <3> QED  BY <2>5, <3>5, <3>6, <3>7
  <2> QED  BY <1>4, <2>6, <2>7, <2>8
<1> QED  BY <1>5, <1>6, PlacesStep

(* WP::checkgap and ProcessBuffer: as long as no packet of a channel ends  *)
(* before the one read before it, no sample of it is handed out twice,     *)
(* whatever gaps and overlaps there are and however threads interleave.    *)
THEOREM NoneTwice == Spec => []HandedOutOnce
<1>1. Init => OnTheWay
  <2> SUFFICES ASSUME Init PROVE OnTheWay
    OBVIOUS
  <2>1. \A t \in Threads, k \in Nat : At(t, k) = NullPacket
    BY DEF Init, At, Held
  <2>2. \A c \in Channels : sent[c] = 0 /\ wp[c].lasttime = 0 /\ handed[c] = <<>>
    BY DEF Init, NewProcessor
  <2>3. Routed
    BY <2>1 DEF Routed
  <2>4. ASSUME NEW c \in Channels PROVE InSequence(c) /\ GivenOnce(c)
    <3>1. HashOf[c] \in Threads
      BY PacketFeederAssumption
    <3>2. InSequence(c)
      BY <2>1, <2>2, <3>1 DEF InSequence, OfChannel
    <3> QED  BY <2>2, <3>2 DEF GivenOnce, Increasing
  <2> QED  BY <2>3, <2>4 DEF OnTheWay
<1>2. IndInv /\ Buffers /\ OnTheWay /\ [Next]_vars => OnTheWay'
  BY OnTheWayStep
<1>3. OnTheWay => HandedOutOnce
  BY DEF OnTheWay, GivenOnce, Increasing, HandedOutOnce
<1> QED  BY <1>1, <1>2, <1>3, BuffersKept, PTL DEF Spec
=============================================================================
