----------------------- MODULE WaveformBuffer_proofs -----------------------
(***************************************************************************)
(* Lemmas about the buffer of a channel, for any packets: what Samples     *)
(* returns of a deque that grows at its end and shrinks at its front, and  *)
(* what a packet does to a buffer and hands out of it.                     *)
(*                                                                         *)
(* Samples is a recursive function, and each fact about it is shown for    *)
(* the least number of packets for which it might fail.                    *)
(***************************************************************************)
EXTENDS WaveformBuffer, SequenceTheorems, WellFoundedInduction, TLAPS

LEMMA LeastOf ==
  ASSUME NEW T, T \subseteq Nat, T # {}
  PROVE  \E m \in T : \A l \in T : m <= l
<1>1. PICK m \in T : \A l \in T : ~(<<l, m>> \in OpToRel(<, Nat))
  BY NatLessThanWellFounded, WFMin, Zenon
<1>2. \A l \in T : ~(l < m)
  BY <1>1 DEF OpToRel
<1> QED  BY <1>2

-----------------------------------------------------------------------------
(* Packets and their samples.                                              *)

LEMMA PacketTimes ==
  ASSUME NEW p \in Packets
  PROVE  /\ p.start \in Nat /\ p.length \in Nat \ {0}
         /\ EndTime(p) = p.start + p.length - 1 /\ EndTime(p) \in Nat
         /\ p.start <= EndTime(p)
BY DEF Packets, EndTime

LEMMA RunProperties ==
  ASSUME NEW p \in Packets
  PROVE  /\ Run(p) \in Seq(Nat) /\ Len(Run(p)) = p.length
         /\ \A i \in 1 .. p.length : Run(p)[i] = p.start + i - 1
<1>1. p.length \in Nat /\ \A i \in 1 .. p.length : p.start + i - 1 \in Nat
  BY PacketTimes
<1> QED  BY <1>1 DEF Run

LEMMA LastPacket ==
  ASSUME NEW q \in Seq(Packets), q # <<>>
  PROVE  Len(q) \in Nat \ {0} /\ Last(q) \in Packets
BY DEF Last

-----------------------------------------------------------------------------
(* The function that Samples is the last value of.                         *)
Unrolls(u, q, n) ==
  u = [k \in 0 .. n |-> IF k = 0 THEN <<>> ELSE u[k - 1] \o Run(q[k])]

LEMMA UnrolledSteps ==
  ASSUME NEW q, NEW n \in Nat, NEW u, Unrolls(u, q, n)
  PROVE  u[0] = <<>> /\ \A k \in 1 .. n : u[k] = u[k - 1] \o Run(q[k])
<1>1. 0 \in 0 .. n /\ \A k \in 1 .. n : k \in 0 .. n /\ k # 0
  OBVIOUS
<1> DEFINE F == [k \in 0 .. n |-> IF k = 0 THEN <<>> ELSE u[k - 1] \o Run(q[k])]
<1>2. F[0] = <<>> /\ \A k \in 1 .. n : F[k] = u[k - 1] \o Run(q[k])
  BY <1>1
<1>3. u = F
  BY DEF Unrolls
<1> QED  BY <1>2, <1>3, Zenon

LEMMA UnrollExists ==
  ASSUME NEW q, NEW n \in Nat
  PROVE  \E u : Unrolls(u, q, n)
<1> DEFINE T == {m \in Nat : ~\E u : Unrolls(u, q, m)}
<1> SUFFICES T = {}
  OBVIOUS
<1> SUFFICES ASSUME T # {} PROVE FALSE
  OBVIOUS
<1>1. PICK m \in T : \A l \in T : m <= l
  BY LeastOf
<1>2. m \in Nat /\ ~\E u : Unrolls(u, q, m)
  OBVIOUS
<1>3. m # 0
  <2>1. Unrolls([k \in {0} |-> <<>>], q, 0)
    BY DEF Unrolls
  <2> QED  BY <1>2, <2>1
<1>4. m - 1 \in Nat /\ m - 1 \notin T
  BY <1>1, <1>2, <1>3
<1>5. PICK u : Unrolls(u, q, m - 1)
  BY <1>4
<1>6. u[0] = <<>> /\ \A k \in 1 .. m - 1 : u[k] = u[k - 1] \o Run(q[k])
  BY <1>4, <1>5, UnrolledSteps
<1> DEFINE v == [k \in 0 .. m |-> IF k = m THEN u[m - 1] \o Run(q[m]) ELSE u[k]]
<1> HIDE DEF T
<1>7. ASSUME NEW k \in 0 .. m
      PROVE  v[k] = IF k = 0 THEN <<>> ELSE v[k - 1] \o Run(q[k])
  <2>1. CASE k = 0
    <3>1. v[k] = u[0]
      BY <1>2, <1>3, <2>1
    <3> QED  BY <1>6, <2>1, <3>1
  <2>2. CASE k = m
    <3>1. v[k] = u[m - 1] \o Run(q[m])
      BY <2>2
    <3>2. v[k - 1] = u[m - 1]
      BY <1>2, <1>3, <2>2
    <3> QED  BY <1>3, <2>2, <3>1, <3>2
  <2>3. CASE k # 0 /\ k # m
    <3>1. k \in 1 .. m - 1 /\ k - 1 \in 0 .. m /\ k - 1 # m
      BY <1>2, <2>3
    <3>2. v[k] = u[k] /\ v[k - 1] = u[k - 1]
      BY <2>3, <3>1
    <3> QED  BY <1>6, <2>3, <3>1, <3>2
  <2> QED  BY <2>1, <2>2, <2>3
<1>8. v = [k \in 0 .. m |-> v[k]]
  OBVIOUS
<1> HIDE DEF v
<1>9. Unrolls(v, q, m)
  BY <1>7, <1>8 DEF Unrolls
<1> QED  BY <1>2, <1>9

LEMMA SamplesUnrolled ==
  ASSUME NEW q
  PROVE  Len(q) \in Nat => \E u : Unrolls(u, q, Len(q)) /\ Samples(q) = u[Len(q)]
<1> SUFFICES ASSUME Len(q) \in Nat
             PROVE  \E u : Unrolls(u, q, Len(q)) /\ Samples(q) = u[Len(q)]
  OBVIOUS
<1> DEFINE n == Len(q)
           upto == CHOOSE u : u = [k \in 0 .. n |->
                                     IF k = 0 THEN <<>> ELSE u[k - 1] \o Run(q[k])]
<1>1. \E u : u = [k \in 0 .. n |-> IF k = 0 THEN <<>> ELSE u[k - 1] \o Run(q[k])]
  BY UnrollExists DEF Unrolls
<1>2. Unrolls(upto, q, n)
  BY <1>1 DEF Unrolls
<1>3. Samples(q) = upto[n]
  BY DEF Samples
<1> QED  BY <1>2, <1>3

LEMMA UnrolledTyped ==
  ASSUME NEW q \in Seq(Packets), NEW u, Unrolls(u, q, Len(q))
  PROVE  \A k \in 0 .. Len(q) : u[k] \in Seq(Nat)
<1> DEFINE T == {k \in 0 .. Len(q) : u[k] \notin Seq(Nat)}
<1> SUFFICES ASSUME T # {} PROVE FALSE
  OBVIOUS
<1>1. Len(q) \in Nat /\ T \subseteq Nat
  OBVIOUS
<1>2. PICK m \in T : \A l \in T : m <= l
  BY <1>1, LeastOf
<1>3. u[0] = <<>> /\ \A k \in 1 .. Len(q) : u[k] = u[k - 1] \o Run(q[k])
  <2> HIDE DEF T
  <2> QED  BY <1>1, UnrolledSteps
<1>4. m # 0
  <2>1. u[0] \in Seq(Nat)
    BY <1>3, EmptySeq
  <2> QED  BY <2>1
<1>5. m \in 1 .. Len(q) /\ m - 1 \in 0 .. Len(q) /\ m - 1 \notin T
  BY <1>1, <1>2, <1>4
<1>6. u[m - 1] \in Seq(Nat)
  BY <1>5
<1>7. q[m] \in Packets
  BY <1>5
<1>8. u[m] \in Seq(Nat)
  <2>1. u[m] = u[m - 1] \o Run(q[m])
    BY <1>3, <1>5
  <2>2. Run(q[m]) \in Seq(Nat)
    BY <1>7, RunProperties
  <2> QED  BY <1>6, <2>1, <2>2, ConcatProperties
<1> QED  BY <1>2, <1>8

(* The samples of the first m packets depend on these only.                *)
LEMMA UnrolledAgree ==
  ASSUME NEW q, NEW r, NEW i \in Nat, NEW j \in Nat,
         NEW u, Unrolls(u, q, i), NEW v, Unrolls(v, r, j),
         NEW n \in Nat, n <= i, n <= j, \A k \in 1 .. n : q[k] = r[k]
  PROVE  u[n] = v[n]
<1> DEFINE T == {k \in 0 .. n : u[k] # v[k]}
<1> SUFFICES ASSUME T # {} PROVE FALSE
  OBVIOUS
<1>1. T \subseteq Nat
  OBVIOUS
<1>2. PICK m \in T : \A l \in T : m <= l
  BY <1>1, LeastOf
<1>3. /\ u[0] = <<>> /\ \A k \in 1 .. i : u[k] = u[k - 1] \o Run(q[k])
      /\ v[0] = <<>> /\ \A k \in 1 .. j : v[k] = v[k - 1] \o Run(r[k])
  BY UnrolledSteps
<1>4. m # 0
  BY <1>3
<1>5. m \in 1 .. n /\ m - 1 \in 0 .. n /\ m - 1 \notin T
  BY <1>1, <1>2, <1>4
<1>6. u[m - 1] = v[m - 1] /\ q[m] = r[m]
  BY <1>5
<1>7. u[m] = u[m - 1] \o Run(q[m]) /\ v[m] = v[m - 1] \o Run(r[m])
  <2>1. m \in 1 .. i /\ m \in 1 .. j
    BY <1>5
  <2> QED  BY <1>3, <2>1
<1> QED  BY <1>2, <1>6, <1>7

-----------------------------------------------------------------------------
(* Samples of a deque that is empty, that grows, that is cut in two.       *)

LEMMA SamplesTyped ==
  ASSUME NEW q \in Seq(Packets)
  PROVE  Samples(q) \in Seq(Nat) /\ Len(Samples(q)) \in Nat
<1>1. Len(q) \in Nat /\ Len(q) \in 0 .. Len(q)
  OBVIOUS
<1>2. PICK u : Unrolls(u, q, Len(q)) /\ Samples(q) = u[Len(q)]
  BY <1>1, SamplesUnrolled
<1>3. Samples(q) \in Seq(Nat)
  BY <1>1, <1>2, UnrolledTyped
<1> QED  BY <1>3

LEMMA SamplesEmpty == Samples(<<>>) = <<>>
<1>1. Len(<<>>) = 0 /\ 0 \in Nat
  BY EmptySeq
<1>2. PICK u : Unrolls(u, <<>>, 0) /\ Samples(<<>>) = u[0]
  BY <1>1, SamplesUnrolled
<1> QED  BY <1>1, <1>2, UnrolledSteps

LEMMA SamplesAppend ==
  ASSUME NEW q \in Seq(Packets), NEW p \in Packets
  PROVE  Samples(Append(q, p)) = Samples(q) \o Run(p)
<1> DEFINE n == Len(q)
           r == Append(q, p)
<1>1. /\ r \in Seq(Packets) /\ n \in Nat /\ Len(r) = n + 1
      /\ r[n + 1] = p /\ \A k \in 1 .. n : r[k] = q[k]
  BY AppendProperties
<1> HIDE DEF n, r
<1>2. PICK u : Unrolls(u, q, n) /\ Samples(q) = u[n]
  BY <1>1, SamplesUnrolled DEF n
<1>3. PICK v : Unrolls(v, r, n + 1) /\ Samples(r) = v[n + 1]
  BY <1>1, SamplesUnrolled
<1>4. v[n] = u[n]
  BY <1>1, <1>2, <1>3, UnrolledAgree
<1>5. v[n + 1] = v[n] \o Run(r[n + 1])
  <2>0. n + 1 \in Nat
    BY <1>1
  <2>1. \A k \in 1 .. n + 1 : v[k] = v[k - 1] \o Run(r[k])
    BY <1>3, <2>0, UnrolledSteps
  <2>2. n + 1 \in 1 .. n + 1 /\ (n + 1) - 1 = n
    BY <1>1
  <2> QED  BY <2>1, <2>2
<1> QED  BY <1>1, <1>2, <1>3, <1>4, <1>5 DEF r

LEMMA SubDeque ==
  ASSUME NEW q \in Seq(Packets), NEW i \in 1 .. Len(q) + 1, NEW j \in i - 1 .. Len(q)
  PROVE  LET r == SubSeq(q, i, j)
         IN /\ r \in Seq(Packets) /\ Len(r) = j - i + 1
            /\ \A k \in 1 .. j - i + 1 : r[k] = q[i + k - 1]
<1>1. i \in Int /\ j \in Int /\ \A k \in i .. j : q[k] \in Packets
  OBVIOUS
<1>2. Len(SubSeq(q, i, j)) = IF i <= j THEN j - i + 1 ELSE 0
  BY <1>1, SubSeqProperties
<1>3. j - i + 1 = IF i <= j THEN j - i + 1 ELSE 0
  BY <1>1
<1> QED  BY <1>1, <1>2, <1>3, SubSeqProperties

LEMMA ThreeParts ==
  ASSUME NEW x \in Seq(Nat), NEW y \in Seq(Nat), NEW z \in Seq(Nat)
  PROVE  (x \o y) \o z = x \o (y \o z)
BY ConcatAssociative, SMTT(30)

LEMMA SamplesSplit ==
  ASSUME NEW q \in Seq(Packets), NEW n \in 0 .. Len(q)
  PROVE  Samples(q) = Samples(SubSeq(q, 1, n)) \o Samples(SubSeq(q, n + 1, Len(q)))
<1> DEFINE m == Len(q)
           f == SubSeq(q, 1, n)
           r == SubSeq(q, n + 1, m)
<1>1. m \in Nat /\ n \in Nat /\ n <= m /\ m - n \in Nat
  OBVIOUS
<1>2. f \in Seq(Packets) /\ Len(f) = n /\ \A k \in 1 .. n : f[k] = q[k]
  <2>1. 1 \in 1 .. Len(q) + 1 /\ n \in 1 - 1 .. Len(q)
    OBVIOUS
  <2>2. /\ f \in Seq(Packets) /\ Len(f) = n - 1 + 1
        /\ \A k \in 1 .. n - 1 + 1 : f[k] = q[1 + k - 1]
    BY <2>1, SubDeque
  <2> HIDE DEF f
  <2> QED  BY <2>2
<1>3. r \in Seq(Packets) /\ Len(r) = m - n /\ \A k \in 1 .. m - n : r[k] = q[n + k]
  <2>1. n + 1 \in 1 .. Len(q) + 1 /\ m \in (n + 1) - 1 .. Len(q)
    OBVIOUS
  <2>2. /\ r \in Seq(Packets) /\ Len(r) = m - (n + 1) + 1
        /\ \A k \in 1 .. m - (n + 1) + 1 : r[k] = q[(n + 1) + k - 1]
    BY <2>1, SubDeque
  <2>3. m - (n + 1) + 1 = m - n /\ \A k \in 1 .. m - n : (n + 1) + k - 1 = n + k
    BY <1>1
  <2> HIDE DEF r, m
  <2> QED  BY <2>2, <2>3
<1> HIDE DEF f, r
<1>4. PICK u : Unrolls(u, q, m) /\ Samples(q) = u[m]
  BY <1>1, SamplesUnrolled
<1>5. PICK v : Unrolls(v, f, n) /\ Samples(f) = v[n]
  BY <1>1, <1>2, SamplesUnrolled
<1>6. PICK w : Unrolls(w, r, m - n) /\ Samples(r) = w[m - n]
  BY <1>1, <1>3, SamplesUnrolled
<1>7. u[n] = v[n]
  BY <1>1, <1>2, <1>4, <1>5, UnrolledAgree
<1>8. /\ \A k \in 1 .. m : u[k] = u[k - 1] \o Run(q[k])
      /\ w[0] = <<>> /\ \A k \in 1 .. m - n : w[k] = w[k - 1] \o Run(r[k])
  BY <1>1, <1>4, <1>6, UnrolledSteps
<1>9. /\ \A k \in 0 .. m : u[k] \in Seq(Nat)
      /\ \A k \in 0 .. m - n : w[k] \in Seq(Nat)
  BY <1>3, <1>4, <1>6, UnrolledTyped
<1> HIDE DEF m
<1>10. \A k \in 0 .. m - n : u[n + k] = u[n] \o w[k]
  <2> DEFINE T == {k \in 0 .. m - n : u[n + k] # u[n] \o w[k]}
  <2> SUFFICES ASSUME T # {} PROVE FALSE
    OBVIOUS
  <2>1. T \subseteq Nat
    <3>1. \A k \in 0 .. m - n : k \in Nat
      BY <1>1
    <3> QED  BY <3>1, Zenon
  <2>2. PICK k \in T : \A l \in T : k <= l
    BY <2>1, LeastOf
  <2>3. u[n] \in Seq(Nat)
    BY <1>1, <1>9
  <2>4. k # 0
    <3>1. u[n + 0] = u[n] \o w[0]
      BY <1>1, <1>8, <2>3, ConcatEmptySeq
    <3> QED  BY <3>1
  <2>5. k \in 1 .. m - n /\ k - 1 \in 0 .. m - n /\ k - 1 \notin T
    <3>1. k \in 0 .. m - n /\ ~(k <= k - 1)
      BY <1>1
    <3>2. k \in 1 .. m - n /\ k - 1 \in 0 .. m - n
      BY <1>1, <2>4, <3>1
    <3> HIDE DEF T
    <3> QED  BY <2>2, <3>1, <3>2
  <2>6. u[n + (k - 1)] = u[n] \o w[k - 1]
    BY <2>5
  <2>7. u[n + k] = u[n + (k - 1)] \o Run(q[n + k])
    <3>1. n + k \in 1 .. m /\ (n + k) - 1 = n + (k - 1)
      BY <1>1, <2>5
    <3> QED  BY <1>8, <3>1
  <2>8. w[k] = w[k - 1] \o Run(r[k]) /\ r[k] = q[n + k] /\ r[k] \in Packets
    BY <1>3, <1>8, <2>5
  <2>9. w[k - 1] \in Seq(Nat) /\ Run(r[k]) \in Seq(Nat)
    BY <1>9, <2>5, <2>8, RunProperties
  <2>10. (u[n] \o w[k - 1]) \o Run(r[k]) = u[n] \o (w[k - 1] \o Run(r[k]))
    <3> HIDE DEF T
    <3> QED  BY <2>3, <2>9, ThreeParts
  <2> QED  BY <2>2, <2>6, <2>7, <2>8, <2>10
<1>11. u[m] = u[n] \o w[m - n]
  <2>1. m - n \in 0 .. m - n /\ n + (m - n) = m
    BY <1>1
  <2> QED  BY <1>10, <2>1
<1> QED  BY <1>4, <1>5, <1>6, <1>7, <1>11 DEF f, r, m

-----------------------------------------------------------------------------
(* The buffer of a channel.                                                *)

FollowsBehind(q) == \A k \in 3 .. Len(q) : Follows(q, k)

(* A buffer whose next packet is taken for the first has a packet at most; *)
(* any other expects no packet later than right after its data, so that a  *)
(* packet that passes the gap check follows the data.  All of its samples  *)
(* have been handed out.                                                   *)
BufferOk(w) ==
  /\ w \in Processors
  /\ w.firsttime => Len(w.dataq) <= 1
  /\ w.dataq # <<>> /\ ~w.firsttime => w.lasttime <= EndTime(Last(w.dataq)) + 1
  /\ FollowsBehind(w.dataq)
  /\ w.next_sample = Len(Samples(w.dataq))

(* A deque that spans too much time keeps its last packet.                 *)
LEMMA DroppedBefore ==
  ASSUME NEW q \in Seq(Packets), q # <<>>
  PROVE  Dropped(q) \in 0 .. Len(q) - 1
<1> DEFINE n == Len(q)
           Recent(k) == EndTime(Last(q)) - EndTime(q[k + 1]) <= MaxDuration
           Stays == {k \in 0 .. n - 1 : k = n - 1 \/ Recent(k)}
<1>1. n \in Nat \ {0}
  OBVIOUS
<1>2. \A k \in 0 .. n - 1 :
        /\ EndTime(Last(q)) \in Nat /\ EndTime(q[k + 1]) \in Nat
        /\ ~Recent(k) => EndTime(Last(q)) - EndTime(q[k + 1]) > MaxDuration
  <2> TAKE k \in 0 .. n - 1
  <2>1. q[k + 1] \in Packets
    BY <1>1
  <2>2. EndTime(Last(q)) \in Nat /\ EndTime(q[k + 1]) \in Nat
    BY <2>1, LastPacket, PacketTimes
  <2> QED  BY <2>2, MaxDurationAssumption
<1>3. n - 1 \in Stays /\ Stays \subseteq Nat
  BY <1>1
<1>4. PICK k \in Stays : \A l \in Stays : k <= l
  <2> HIDE DEF Stays
  <2> QED  BY <1>3, LeastOf
<1>5. \A l \in Stays : ~(l < k)
  BY <1>3, <1>4
<1>6. \A l \in 0 .. k - 1 : l \in 0 .. n - 1 /\ l # n - 1 /\ ~Recent(l)
  BY <1>1, <1>3, <1>5
<1>7. \E j \in 0 .. n - 1 :
        /\ j = n - 1 \/ Recent(j)
        /\ \A l \in 0 .. j - 1 : EndTime(Last(q)) - EndTime(q[l + 1]) > MaxDuration
  <2>1. \A l \in 0 .. k - 1 : EndTime(Last(q)) - EndTime(q[l + 1]) > MaxDuration
    <3> HIDE DEF Recent
    <3> QED  BY <1>2, <1>6
  <2>2. k \in 0 .. n - 1 /\ (k = n - 1 \/ Recent(k))
    OBVIOUS
  <2> QED  BY <2>1, <2>2
<1> QED  BY <1>7 DEF Dropped

(* Dropping packets in front keeps the last one and makes no new gap.      *)
LEMMA DropKeeps ==
  ASSUME NEW q \in Seq(Packets), q # <<>>, FollowsBehind(q),
         NEW k \in 0 .. Len(q) - 1
  PROVE  LET r == SubSeq(q, k + 1, Len(q))
         IN /\ r \in Seq(Packets) /\ r # <<>> /\ Len(r) <= Len(q)
            /\ Last(r) = Last(q) /\ FollowsBehind(r)
<1> DEFINE n == Len(q)
           r == SubSeq(q, k + 1, n)
<1>1. n \in Nat \ {0} /\ k \in 0 .. n - 1 /\ \A i \in k + 1 .. n : q[i] \in Packets
  OBVIOUS
<1>2. /\ r \in Seq(Packets) /\ Len(r) = n - k
      /\ \A i \in 1 .. n - k : r[i] = q[k + i]
  <2> HIDE DEF n
  <2>1. /\ r \in Seq(Packets)
        /\ Len(r) = IF k + 1 <= n THEN n - (k + 1) + 1 ELSE 0
        /\ \A i \in 1 .. n - (k + 1) + 1 : r[i] = q[(k + 1) + i - 1]
    BY <1>1, SubSeqProperties
  <2>2. n - (k + 1) + 1 = n - k /\ k + 1 <= n
    BY <1>1
  <2>3. \A i \in 1 .. n - k : (k + 1) + i - 1 = k + i
    BY <1>1
  <2> HIDE DEF r
  <2> QED  BY <2>1, <2>2, <2>3
<1> HIDE DEF r
<1>3. r # <<>> /\ Len(r) <= n /\ Last(r) = Last(q)
  <2>1. n - k \in 1 .. n - k /\ n - k # 0 /\ n - k <= n /\ k + (n - k) = n
    BY <1>1
  <2> QED  BY <1>2, <2>1 DEF Last
<1>4. ASSUME NEW i \in 3 .. Len(r) PROVE Follows(r, i)
  <2>1. /\ i \in 1 .. n - k /\ i - 1 \in 1 .. n - k /\ k + i \in 3 .. n
        /\ k + (i - 1) = (k + i) - 1
    BY <1>1, <1>2
  <2>2. r[i] = q[k + i] /\ r[i - 1] = q[(k + i) - 1]
    BY <1>2, <2>1
  <2>3. Follows(q, k + i)
    BY <2>1 DEF FollowsBehind
  <2> QED  BY <2>2, <2>3 DEF Follows
<1> QED  BY <1>2, <1>3, <1>4 DEF r, FollowsBehind

LEMMA NewPartFollows ==
  ASSUME NEW q \in Seq(Packets), NEW p \in Packets, ~Stale(q, p)
  PROVE  /\ NewPart(q, p) \in Packets /\ EndTime(NewPart(q, p)) = EndTime(p)
         /\ q # <<>> => \/ NewPart(q, p).start = p.start
                        \/ NewPart(q, p).start = EndTime(Last(q)) + 1
<1>1. p.start \in Nat /\ p.length \in Nat \ {0} /\ EndTime(p) = p.start + p.length - 1
  BY PacketTimes
<1>2. CASE q = <<>> \/ p.start > EndTime(Last(q))
  BY <1>2 DEF NewPart
<1>3. CASE q # <<>> /\ ~(p.start > EndTime(Last(q)))
  <2> DEFINE e == EndTime(Last(q))
  <2>1. e \in Nat
    BY <1>3, LastPacket, PacketTimes
  <2>2. e < EndTime(p)
    BY <1>1, <1>3, <2>1 DEF Stale
  <2>3. NewPart(q, p) = [start |-> e + 1, length |-> EndTime(p) - e]
    BY <1>3 DEF NewPart
  <2> HIDE DEF e
  <2>4. e + 1 \in Nat /\ EndTime(p) - e \in Nat \ {0}
    BY <1>1, <2>1, <2>2
  <2>5. NewPart(q, p) \in Packets
    BY <2>3, <2>4 DEF Packets
  <2>6. NewPart(q, p).start = e + 1 /\ NewPart(q, p).length = EndTime(p) - e
    BY <2>3
  <2>7. EndTime(NewPart(q, p)) = (e + 1) + (EndTime(p) - e) - 1
    BY <2>6 DEF EndTime
  <2>8. EndTime(NewPart(q, p)) = EndTime(p)
    <3>1. EndTime(p) \in Nat
      BY PacketTimes
    <3>2. \A i, j \in Nat : (i + 1) + (j - i) - 1 = j
      OBVIOUS
    <3> QED  BY <2>1, <2>7, <3>1, <3>2
  <2> QED  BY <2>5, <2>6, <2>8 DEF e
<1> QED  BY <1>2, <1>3

(* The fields of a processor after a change of some.                       *)
LEMMA ChangedFields ==
  ASSUME NEW w \in Processors, NEW t
  PROVE  /\ Reset(w) = [firsttime |-> TRUE, lasttime |-> w.lasttime,
                        dataq |-> <<>>, next_sample |-> 0]
         /\ [w EXCEPT !.firsttime = FALSE] =
               [firsttime |-> FALSE, lasttime |-> w.lasttime,
                dataq |-> w.dataq, next_sample |-> w.next_sample]
         /\ [w EXCEPT !.lasttime = t] =
               [firsttime |-> w.firsttime, lasttime |-> t,
                dataq |-> w.dataq, next_sample |-> w.next_sample]
<1>1. ASSUME NEW v, v = Reset(w)
      PROVE  v = [firsttime |-> TRUE, lasttime |-> w.lasttime,
                  dataq |-> <<>>, next_sample |-> 0]
  BY <1>1 DEF Processors, Reset
<1>2. ASSUME NEW v, v = [w EXCEPT !.firsttime = FALSE]
      PROVE  v = [firsttime |-> FALSE, lasttime |-> w.lasttime,
                  dataq |-> w.dataq, next_sample |-> w.next_sample]
  BY <1>2 DEF Processors
<1>3. ASSUME NEW v, v = [w EXCEPT !.lasttime = t]
      PROVE  v = [firsttime |-> w.firsttime, lasttime |-> t,
                  dataq |-> w.dataq, next_sample |-> w.next_sample]
  BY <1>3 DEF Processors
<1> QED  BY <1>1, <1>2, <1>3

(* The gap check sets the time it expects next, and lets a packet through  *)
(* that starts no later than one sample after the data, or clears them.    *)
LEMMA CheckGapKeeps ==
  ASSUME NEW w, BufferOk(w), NEW p \in Packets
  PROVE  LET c == CheckGap(w, p)
         IN /\ c \in Processors /\ c.lasttime = EndTime(p) + 1
            /\ c.dataq = IF IsGap(w, p) THEN <<>> ELSE w.dataq
            /\ c.next_sample = Len(Samples(c.dataq))
            /\ c.firsttime => c.dataq = <<>>
            /\ Len(c.dataq) > 1 => p.start - EndTime(Last(c.dataq)) <= 2
<1> DEFINE c == CheckGap(w, p)
<1>1. /\ w \in Processors /\ w.firsttime \in BOOLEAN /\ w.lasttime \in Nat
      /\ w.dataq \in Seq(Packets) /\ Len(w.dataq) \in Nat
      /\ w.next_sample \in Nat /\ w.next_sample = Len(Samples(w.dataq))
  BY DEF BufferOk, Processors
<1>2. /\ p.start \in Nat /\ p.length \in Nat
      /\ p.start + p.length = EndTime(p) + 1 /\ p.start + p.length \in Nat
  BY PacketTimes
<1>3. CASE IsGap(w, p)
  <2>1. c = [firsttime |-> TRUE, lasttime |-> p.start + p.length,
             dataq |-> <<>>, next_sample |-> 0]
    <3>1. Reset(w) = [firsttime |-> TRUE, lasttime |-> w.lasttime,
                      dataq |-> <<>>, next_sample |-> 0]
      BY <1>1, ChangedFields
    <3>2. c = [Reset(w) EXCEPT !.lasttime = p.start + p.length]
      BY <1>3 DEF CheckGap
    <3> HIDE DEF c
    <3>3. Reset(w) \in Processors
      BY <1>1, <3>1 DEF Processors
    <3>4. c = [firsttime |-> Reset(w).firsttime, lasttime |-> p.start + p.length,
               dataq |-> Reset(w).dataq, next_sample |-> Reset(w).next_sample]
      BY <3>2, <3>3, ChangedFields
    <3> QED  BY <3>1, <3>4
  <2> HIDE DEF c
  <2>2. /\ c \in Processors /\ c.lasttime = EndTime(p) + 1 /\ c.dataq = <<>>
        /\ c.next_sample = 0
    BY <1>2, <2>1 DEF Processors
  <2>3. ~(Len(c.dataq) > 1) /\ Len(Samples(c.dataq)) = 0
    BY <2>2, SamplesEmpty
  <2> QED  BY <1>3, <2>2, <2>3 DEF c
<1>4. CASE ~IsGap(w, p)
  <2>1. c = [firsttime |-> FALSE, lasttime |-> p.start + p.length,
             dataq |-> w.dataq, next_sample |-> w.next_sample]
    <3>1. [w EXCEPT !.firsttime = FALSE] =
            [firsttime |-> FALSE, lasttime |-> w.lasttime,
             dataq |-> w.dataq, next_sample |-> w.next_sample]
      BY <1>1, ChangedFields
    <3>2. c = [[w EXCEPT !.firsttime = FALSE] EXCEPT !.lasttime = p.start + p.length]
      BY <1>4 DEF CheckGap
    <3> HIDE DEF c
    <3> QED  BY <3>1, <3>2
  <2> HIDE DEF c
  <2>2. /\ c \in Processors /\ c.lasttime = EndTime(p) + 1 /\ c.dataq = w.dataq
        /\ c.firsttime = FALSE /\ c.next_sample = w.next_sample
    BY <1>1, <1>2, <2>1 DEF Processors
  <2>3. ASSUME Len(w.dataq) > 1 PROVE p.start - EndTime(Last(w.dataq)) <= 2
    <3>1. w.dataq # <<>> /\ ~(Len(w.dataq) <= 1)
      BY <1>1, <2>3
    <3>2. w.lasttime <= EndTime(Last(w.dataq)) + 1 /\ ~w.firsttime
      BY <3>1 DEF BufferOk
    <3>3. ~(p.start - w.lasttime > 1)
      BY <1>4, <3>2 DEF IsGap
    <3>4. EndTime(Last(w.dataq)) \in Nat
      BY <1>1, <3>1, LastPacket, PacketTimes
    <3> QED  BY <1>1, <1>2, <3>2, <3>3, <3>4
  <2> QED  BY <1>1, <1>4, <2>2, <2>3 DEF c
<1> QED  BY <1>3, <1>4

LEMMA SecondPart ==
  ASSUME NEW x \in Seq(Nat), NEW y \in Seq(Nat)
  PROVE  SubSeq(x \o y, Len(x) + 1, Len(x \o y)) = y
<1> DEFINE m == Len(x)
           n == Len(y)
           z == x \o y
           r == SubSeq(z, m + 1, m + n)
<1>1. /\ m \in Nat /\ n \in Nat /\ z \in Seq(Nat) /\ Len(z) = m + n
      /\ \A i \in 1 .. m + n : z[i] = IF i <= m THEN x[i] ELSE y[i - m]
  BY ConcatProperties
<1> HIDE DEF z
<1>2. /\ r \in Seq(Nat) /\ Len(r) = n /\ \A i \in 1 .. n : r[i] = z[m + i]
  <2> HIDE DEF m, n
  <2>1. \A i \in m + 1 .. m + n : z[i] \in Nat
    <3>1. \A i \in m + 1 .. m + n : i \in 1 .. Len(z)
      BY <1>1
    <3> QED  BY <1>1, <3>1
  <2>2. m + 1 \in Int /\ m + n \in Int
    BY <1>1
  <2>3. /\ r \in Seq(Nat)
        /\ Len(r) = IF m + 1 <= m + n THEN (m + n) - (m + 1) + 1 ELSE 0
        /\ \A i \in 1 .. (m + n) - (m + 1) + 1 : r[i] = z[(m + 1) + i - 1]
    BY <2>1, <2>2, SubSeqProperties
  <2>4. /\ (m + n) - (m + 1) + 1 = n
        /\ (IF m + 1 <= m + n THEN (m + n) - (m + 1) + 1 ELSE 0) = n
        /\ \A i \in 1 .. n : (m + 1) + i - 1 = m + i
    <3>1. m \in Nat /\ n \in Nat
      BY <1>1
    <3> QED  BY <3>1
  <2> HIDE DEF r
  <2> QED  BY <2>3, <2>4
<1> HIDE DEF r
<1>3. ASSUME NEW i \in 1 .. n PROVE r[i] = y[i]
  <2>1. m + i \in 1 .. m + n /\ ~(m + i <= m) /\ (m + i) - m = i
    BY <1>1
  <2> QED  BY <1>1, <1>2, <2>1
<1>4. r = y
  BY <1>1, <1>2, <1>3, SeqEqual
<1> QED  BY <1>1, <1>4 DEF r, z

(* Nothing is left in a buffer that has been read to its end.              *)
LEMMA NoData ==
  ASSUME NEW w \in Processors, w.next_sample = Len(Samples(w.dataq))
  PROVE  Data(w) = <<>> /\ AfterData(w) = w
<1>1. w.dataq \in Seq(Packets) /\ w.next_sample \in Nat
  BY DEF Processors
<1> DEFINE s == Samples(w.dataq)
<1>2. s \in Seq(Nat) /\ Len(s) \in Nat
  BY <1>1, SamplesTyped
<1>3. Data(w) = SubSeq(s, Len(s) + 1, Len(s))
  BY DEF Data
<1> HIDE DEF s
<1>4. s \o <<>> = s /\ <<>> \in Seq(Nat)
  BY <1>2, ConcatEmptySeq
<1>5. Data(w) = <<>>
  BY <1>2, <1>3, <1>4, SecondPart
<1>6. Len(Data(w)) = 0
  BY <1>5
<1>7. AfterData(w) = [w EXCEPT !.next_sample = w.next_sample + Len(Data(w))]
  BY DEF AfterData
<1>8. w.next_sample + Len(Data(w)) = w.next_sample
  BY <1>1, <1>6
<1>9. AfterData(w) = [w EXCEPT !.next_sample = w.next_sample]
  BY <1>7, <1>8
<1> QED  BY <1>5, <1>9 DEF Processors

(* ProcessBuffer::putPacket and getData: a packet that is not refused goes *)
(* to the end, and its new part is what is handed out.                     *)
LEMMA PutKeeps ==
  ASSUME NEW c \in Processors, c.next_sample = Len(Samples(c.dataq)),
         FollowsBehind(c.dataq), NEW p \in Packets, ~Stale(c.dataq, p),
         Len(c.dataq) > 1 => p.start - EndTime(Last(c.dataq)) <= 2
  PROVE  LET v == PutPacket(c, p)
         IN /\ v \in Processors /\ AfterData(v) \in Processors
            /\ v.firsttime = c.firsttime /\ v.lasttime = c.lasttime
            /\ v.dataq # <<>> /\ EndTime(Last(v.dataq)) = EndTime(p)
            /\ FollowsBehind(v.dataq) /\ Len(v.dataq) <= Len(c.dataq) + 1
            /\ Data(v) = Run(NewPart(c.dataq, p))
            /\ AfterData(v) = [v EXCEPT !.next_sample = Len(Samples(v.dataq))]
<1> DEFINE d == c.dataq
           x == NewPart(d, p)
           n == Len(d)
           q == Append(d, x)
           k == Dropped(q)
           first == SubSeq(d, 1, k)
           rest == SubSeq(d, k + 1, n)
           r == SubSeq(q, k + 1, Len(q))
           v == PutPacket(c, p)
<1>1. /\ d \in Seq(Packets) /\ n \in Nat /\ c.firsttime \in BOOLEAN
      /\ c.lasttime \in Nat /\ c.next_sample \in Nat
  BY DEF Processors
<1>2. /\ x \in Packets /\ EndTime(x) = EndTime(p)
      /\ d # <<>> => x.start = p.start \/ x.start = EndTime(Last(d)) + 1
  BY <1>1, NewPartFollows
<1>3. v = LET next == c.next_sample - Len(Samples(SubSeq(q, 1, k)))
          IN [c EXCEPT !.dataq = r, !.next_sample = IF next < 0 THEN 0 ELSE next]
  BY DEF PutPacket
<1> HIDE DEF x, v
<1>4. /\ q \in Seq(Packets) /\ q # <<>> /\ Len(q) = n + 1 /\ q[n + 1] = x
      /\ \A i \in 1 .. n : q[i] = d[i]
  BY <1>1, <1>2, AppendProperties
<1>5. Last(q) = x
  BY <1>4 DEF Last
<1>6. FollowsBehind(q)
  <2> SUFFICES ASSUME NEW i \in 3 .. n + 1 PROVE Follows(q, i)
    BY <1>4 DEF FollowsBehind
  <2> HIDE DEF q
  <2>1. CASE i \in 3 .. n
    <3>1. i \in 1 .. n /\ i - 1 \in 1 .. n
      BY <1>1, <2>1
    <3>2. Follows(d, i)
      BY <2>1 DEF FollowsBehind
    <3> QED  BY <1>4, <3>1, <3>2 DEF Follows
  <2>2. CASE i = n + 1
    <3>1. n > 1 /\ n \in 1 .. n /\ i - 1 = n
      BY <1>1, <2>2
    <3>2. q[i] = x /\ q[i - 1] = Last(d)
      BY <1>4, <2>2, <3>1 DEF Last
    <3>3. p.start - EndTime(Last(d)) <= 2 /\ d # <<>>
      BY <1>1, <3>1
    <3>4. EndTime(Last(d)) \in Nat
      BY <1>1, <3>3, LastPacket, PacketTimes
    <3>5. x.start - EndTime(Last(d)) <= 2
      BY <1>2, <3>3, <3>4
    <3> QED  BY <3>2, <3>5 DEF Follows
  <2> QED  BY <1>1, <2>1, <2>2
<1>7. k \in 0 .. n
  <2> HIDE DEF q
  <2>1. k \in 0 .. (n + 1) - 1
    BY <1>4, DroppedBefore
  <2> QED  BY <1>1, <2>1
<1> HIDE DEF q, k
<1>8. /\ r \in Seq(Packets) /\ r # <<>> /\ Len(r) <= n + 1
      /\ Last(r) = x /\ FollowsBehind(r)
  <2>1. k \in 0 .. Len(q) - 1
    BY <1>1, <1>4, <1>7
  <2> QED  BY <1>4, <1>5, <1>6, <2>1, DropKeeps
<1>9. /\ first \in Seq(Packets) /\ Len(first) = k
      /\ \A i \in 1 .. k : first[i] = d[i]
  <2>1. 1 \in 1 .. n + 1 /\ k \in 1 - 1 .. n
    BY <1>1, <1>7
  <2>2. /\ first \in Seq(Packets) /\ Len(first) = k - 1 + 1
        /\ \A i \in 1 .. k - 1 + 1 : first[i] = d[1 + i - 1]
    BY <1>1, <2>1, SubDeque
  <2> HIDE DEF first
  <2> QED  BY <1>1, <1>7, <2>2
<1>10. /\ rest \in Seq(Packets) /\ Len(rest) = n - k
       /\ \A i \in 1 .. n - k : rest[i] = d[k + i]
  <2>1. k + 1 \in 1 .. n + 1 /\ n \in (k + 1) - 1 .. n
    BY <1>1, <1>7
  <2>2. /\ rest \in Seq(Packets) /\ Len(rest) = n - (k + 1) + 1
        /\ \A i \in 1 .. n - (k + 1) + 1 : rest[i] = d[(k + 1) + i - 1]
    BY <1>1, <2>1, SubDeque
  <2> HIDE DEF rest
  <2>3. n - (k + 1) + 1 = n - k /\ \A i \in 1 .. n - k : (k + 1) + i - 1 = k + i
    BY <1>1, <1>7
  <2> QED  BY <2>2, <2>3
<1>11. SubSeq(q, 1, k) = first
  <2> DEFINE f == SubSeq(q, 1, k)
  <2>1. 1 \in 1 .. Len(q) + 1 /\ k \in 1 - 1 .. Len(q)
    BY <1>1, <1>4, <1>7
  <2>2. /\ f \in Seq(Packets) /\ Len(f) = k - 1 + 1
        /\ \A i \in 1 .. k - 1 + 1 : f[i] = q[1 + i - 1]
    BY <1>4, <2>1, SubDeque
  <2> HIDE DEF f, first
  <2>3. k - 1 + 1 = k /\ \A i \in 1 .. k : 1 + i - 1 = i /\ i \in 1 .. n
    BY <1>1, <1>7
  <2>4. Len(f) = k /\ \A i \in 1 .. k : f[i] = d[i]
    BY <1>4, <2>2, <2>3
  <2>5. f = first
    BY <1>9, <2>2, <2>4, SeqEqual
  <2> QED  BY <2>5 DEF f
<1>12. r = Append(rest, x)
  <2>1. k + 1 \in 1 .. Len(q) + 1 /\ Len(q) \in (k + 1) - 1 .. Len(q)
    BY <1>1, <1>4, <1>7
  <2>2. Len(r) = Len(q) - (k + 1) + 1
        /\ \A i \in 1 .. Len(q) - (k + 1) + 1 : r[i] = q[(k + 1) + i - 1]
    BY <1>4, <2>1, SubDeque
  <2> HIDE DEF r, rest
  <2>3. /\ Len(q) - (k + 1) + 1 = (n - k) + 1 /\ n - k \in Nat
        /\ \A i \in 1 .. (n - k) + 1 : (k + 1) + i - 1 = k + i
    BY <1>1, <1>4, <1>7
  <2>4. Len(r) = (n - k) + 1 /\ \A i \in 1 .. (n - k) + 1 : r[i] = q[k + i]
    BY <2>2, <2>3
  <2>5. /\ Append(rest, x) \in Seq(Packets) /\ Len(Append(rest, x)) = (n - k) + 1
        /\ Append(rest, x)[(n - k) + 1] = x
        /\ \A i \in 1 .. n - k : Append(rest, x)[i] = rest[i]
    BY <1>2, <1>10, AppendProperties
  <2>6. ASSUME NEW i \in 1 .. (n - k) + 1 PROVE r[i] = Append(rest, x)[i]
    <3>1. CASE i = (n - k) + 1
      <4>1. k + i = n + 1
        BY <1>1, <1>7, <3>1
      <4> QED  BY <1>4, <2>4, <2>5, <3>1, <4>1
    <3>2. CASE i \in 1 .. n - k
      <4>1. k + i \in 1 .. n /\ i \in 1 .. (n - k) + 1
        BY <1>1, <1>7, <3>2
      <4>2. r[i] = d[k + i]
        BY <1>4, <2>4, <4>1
      <4>3. Append(rest, x)[i] = d[k + i]
        BY <1>10, <2>5, <3>2
      <4> QED  BY <4>2, <4>3
    <3>3. i = (n - k) + 1 \/ i \in 1 .. n - k
      BY <2>3
    <3> QED  BY <3>1, <3>2, <3>3
  <2> QED  BY <1>8, <2>4, <2>5, <2>6, SeqEqual
<1>13. Samples(d) = Samples(first) \o Samples(rest)
  BY <1>1, <1>7, SamplesSplit
<1>14. Samples(r) = Samples(rest) \o Run(x)
  BY <1>2, <1>10, <1>12, SamplesAppend
<1>15. /\ Samples(first) \in Seq(Nat) /\ Len(Samples(first)) \in Nat
       /\ Samples(rest) \in Seq(Nat) /\ Len(Samples(rest)) \in Nat
       /\ Samples(r) \in Seq(Nat) /\ Len(Samples(r)) \in Nat
       /\ Run(x) \in Seq(Nat)
  BY <1>2, <1>8, <1>9, <1>10, SamplesTyped, RunProperties
<1> HIDE DEF r, first, rest
<1>16. v = [c EXCEPT !.dataq = r, !.next_sample = Len(Samples(rest))]
  <2> DEFINE next == c.next_sample - Len(Samples(first))
  <2>1. Len(Samples(d)) = Len(Samples(first)) + Len(Samples(rest))
    BY <1>13, <1>15, ConcatProperties
  <2>2. next = Len(Samples(rest)) /\ ~(next < 0)
    BY <1>15, <2>1
  <2>3. v = [c EXCEPT !.dataq = r, !.next_sample = IF next < 0 THEN 0 ELSE next]
    BY <1>3, <1>11
  <2> HIDE DEF next
  <2> QED  BY <2>2, <2>3
<1>17. v = [firsttime |-> c.firsttime, lasttime |-> c.lasttime,
            dataq |-> r, next_sample |-> Len(Samples(rest))]
  BY <1>16 DEF Processors
<1>18. /\ v \in Processors /\ v.firsttime = c.firsttime
       /\ v.lasttime = c.lasttime /\ v.dataq = r
       /\ v.next_sample = Len(Samples(rest))
  BY <1>1, <1>8, <1>15, <1>17 DEF Processors
<1>19. Data(v) = Run(x)
  <2>1. Data(v) = SubSeq(Samples(r), Len(Samples(rest)) + 1, Len(Samples(r)))
    BY <1>18 DEF Data
  <2> QED  BY <1>14, <1>15, <2>1, SecondPart
<1>20. AfterData(v) = [v EXCEPT !.next_sample = Len(Samples(r))]
  <2>1. Len(Samples(r)) = Len(Samples(rest)) + Len(Run(x))
    BY <1>14, <1>15, ConcatProperties
  <2>2. AfterData(v) = [v EXCEPT !.next_sample = v.next_sample + Len(Data(v))]
    BY DEF AfterData
  <2> QED  BY <1>18, <1>19, <2>1, <2>2
<1>21. AfterData(v) \in Processors
  BY <1>15, <1>18, <1>20 DEF Processors
<1> QED
  BY <1>2, <1>8, <1>18, <1>19, <1>20, <1>21 DEF v, x

(* EWP2::process keeps the buffer, and hands out the new part of a packet  *)
(* that ends after the data, or nothing.                                   *)
LEMMA ReceivedKeeps ==
  ASSUME NEW w, BufferOk(w), NEW p \in Packets
  PROVE  LET d == IF IsGap(w, p) THEN <<>> ELSE w.dataq
             v == Received(w, p)
             u == AfterData(v)
         IN /\ BufferOk(u) /\ u.lasttime = EndTime(p) + 1 /\ u.dataq # <<>>
            /\ Stale(d, p) => u.dataq = d /\ Data(v) = <<>>
            /\ ~Stale(d, p) => /\ Data(v) = Run(NewPart(d, p))
                               /\ EndTime(Last(u.dataq)) = EndTime(p)
<1> DEFINE c == CheckGap(w, p)
           d == IF IsGap(w, p) THEN <<>> ELSE w.dataq
           v == Received(w, p)
           u == AfterData(v)
<1>1. /\ c \in Processors /\ c.lasttime = EndTime(p) + 1 /\ c.dataq = d
      /\ c.next_sample = Len(Samples(c.dataq))
      /\ c.firsttime => c.dataq = <<>>
      /\ Len(c.dataq) > 1 => p.start - EndTime(Last(c.dataq)) <= 2
  BY CheckGapKeeps
<1>2. /\ d \in Seq(Packets) /\ Len(d) \in Nat /\ c.firsttime \in BOOLEAN
      /\ EndTime(p) \in Nat
  BY <1>1, PacketTimes DEF Processors
<1>3. FollowsBehind(d)
  BY DEF BufferOk, FollowsBehind
<1>4. v = PutPacket(c, p)
  BY DEF Received
<1> HIDE DEF c, d, v
<1>5. CASE Stale(d, p)
  <2>1. v = c
    BY <1>1, <1>4, <1>5 DEF PutPacket
  <2>2. Data(c) = <<>> /\ u = c
    BY <1>1, <2>1, NoData
  <2>3. d # <<>> /\ EndTime(Last(d)) >= EndTime(p)
    BY <1>5 DEF Stale
  <2>4. EndTime(Last(d)) \in Nat
    BY <1>2, <2>3, LastPacket, PacketTimes
  <2>5. c.lasttime <= EndTime(Last(d)) + 1
    BY <1>1, <1>2, <2>3, <2>4
  <2>6. ~c.firsttime
    BY <1>1, <2>3
  <2>7. BufferOk(c)
    BY <1>1, <1>3, <2>5, <2>6 DEF BufferOk
  <2> QED  BY <1>1, <1>5, <2>1, <2>2, <2>3, <2>7 DEF v, d
<1>6. CASE ~Stale(d, p)
  <2>1. /\ v \in Processors /\ u \in Processors
        /\ v.firsttime = c.firsttime /\ v.lasttime = c.lasttime
        /\ v.dataq # <<>> /\ EndTime(Last(v.dataq)) = EndTime(p)
        /\ FollowsBehind(v.dataq) /\ Len(v.dataq) <= Len(d) + 1
        /\ Data(v) = Run(NewPart(d, p))
        /\ u = [v EXCEPT !.next_sample = Len(Samples(v.dataq))]
    BY <1>1, <1>3, <1>4, <1>6, PutKeeps
  <2> HIDE DEF u
  <2>2. /\ u.firsttime = v.firsttime /\ u.lasttime = v.lasttime
        /\ u.dataq = v.dataq /\ u.next_sample = Len(Samples(u.dataq))
    BY <2>1 DEF Processors
  <2>3. v.dataq \in Seq(Packets) /\ Len(v.dataq) \in Nat
    BY <2>1 DEF Processors
  <2>4. u.firsttime => Len(u.dataq) <= 1
    <3>1. ASSUME c.firsttime PROVE Len(d) = 0
      BY <1>1, <3>1
    <3> QED  BY <2>1, <2>2, <2>3, <3>1
  <2>5. u.lasttime <= EndTime(Last(u.dataq)) + 1
    BY <1>1, <1>2, <2>1, <2>2
  <2>6. BufferOk(u)
    BY <2>1, <2>2, <2>4, <2>5 DEF BufferOk
  <2> QED  BY <1>1, <1>6, <2>1, <2>2, <2>6 DEF u, v, d
<1> QED  BY <1>5, <1>6

LEMMA NewProcessorOk == BufferOk(NewProcessor)
<1>1. /\ NewProcessor.dataq = <<>> /\ NewProcessor.firsttime
      /\ NewProcessor.next_sample = 0 /\ Len(<<>>) = 0
  BY DEF NewProcessor
<1>2. NewProcessor \in Processors
  BY DEF NewProcessor, Processors
<1>3. FollowsBehind(NewProcessor.dataq)
  BY <1>1 DEF FollowsBehind
<1>4. NewProcessor.next_sample = Len(Samples(NewProcessor.dataq))
  BY <1>1, SamplesEmpty
<1> QED  BY <1>1, <1>2, <1>3, <1>4 DEF BufferOk
=============================================================================
