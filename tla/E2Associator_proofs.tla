------------------------ MODULE E2Associator_proofs ------------------------
(***************************************************************************)
(* Proofs about the associator of EPIC: a trigger is in one event at most, *)
(* an event has one trigger of a channel, nothing points to a deleted      *)
(* trigger, and a multi-station event starts with stations that go         *)
(* together although its group grows in the array that is being read.      *)
(* For any triggers, stations, limits and bounds.                          *)
(***************************************************************************)
EXTENDS E2Associator, FunctionTheorems, FiniteSetTheorems, TLAPS

(* What a trigger says about its event; the rest are measurements.         *)
SameFlags(x, y) ==
  x.eventid = y.eventid /\ x.associated = y.associated /\ x.free = y.free

(* Events and triggers agree on who is where; new ids are new; a reserved  *)
(* trigger is not looked at again; and nothing is updated when triggers    *)
(* are removed.                                                            *)
Owned ==
  /\ TriggersOwned /\ OneTriggerPerChannel /\ UpdatedAlive
  /\ \A e \in DOMAIN eventlist : e < next_eventid
  /\ \A t \in Live : trigmap[t].free => trigmap[t].associated
  /\ phase = "expire" => updated_trigs = {}

(* The group that is being built: the entries it overwrote are its own, it *)
(* has one trigger of a channel, and sta_trigs one of each station, all of *)
(* which fit.                                                              *)
GroupOk ==
  phase \in Passes =>
    /\ group.i >= 1
    /\ Scanning =>
         /\ group.j >= 1 /\ group.num <= Len(trigs)
         /\ \A k \in 1 .. group.num : trigs[k] \in group.used
         /\ \A k, l \in 1 .. group.num :
              k # l => ChanOf[trigs[k]] # ChanOf[trigs[l]]
         /\ group.sta_trigs \subseteq Members \cap Unassociated
         /\ \A t, r \in group.sta_trigs :
              Fits(t, r) /\ (t # r => StaOf[t] # StaOf[r])

IndInv == TypeOK /\ Owned /\ GroupOk

-----------------------------------------------------------------------------
(* Sets of triggers.                                                       *)

LEMMA TriggersFinite ==
  ASSUME NEW T \in SUBSET Triggers
  PROVE  IsFiniteSet(T) /\ Cardinality(T) \in Nat
BY E2AssociatorAssumption, FS_Subset, FS_CardinalityType

(* As many stations as triggers when no two are of one station.            *)
LEMMA StationsCounted ==
  ASSUME NEW T \in SUBSET Triggers,
         \A t, r \in T : t # r => StaOf[t] # StaOf[r]
  PROVE  Cardinality(Stations(T)) = Cardinality(T)
<1> DEFINE f == [t \in T |-> StaOf[t]]
<1>1. f \in Bijection(T, Stations(T))
  BY DEF Stations, Bijection, Injection, IsInjective, Surjection
<1>2. ExistsBijection(T, Stations(T))
  BY <1>1 DEF ExistsBijection
<1> QED  BY <1>2, TriggersFinite, FS_Bijection

(* As many channels as triggers only when no two are of one channel.       *)
LEMMA ChannelsCounted ==
  ASSUME NEW T \in SUBSET Triggers, Cardinality(Channels(T)) = Cardinality(T)
  PROVE  \A t, r \in T : ChanOf[t] = ChanOf[r] => t = r
<1> DEFINE f == [t \in T |-> ChanOf[t]]
<1>1. f \in Surjection(T, Channels(T))
  BY DEF Channels, Surjection
<1> HIDE DEF f
<1>2. f \in Injection(T, Channels(T))
  BY <1>1, TriggersFinite, FS_Surjection
<1>3. \A t, r \in T : f[t] = f[r] => t = r
  BY <1>2 DEF Injection, IsInjective
<1> QED  BY <1>3 DEF f

(* Fits is about times and places only.                                    *)
LEMMA FitsTyped ==
  ASSUME TypeOK, NEW t \in Live, NEW r \in Live
  PROVE  /\ Dist(t, r) \in Nat /\ Dist(t, r) = Dist(r, t)
         /\ trigmap[t].trigger_time \in Nat /\ trigmap[r].trigger_time \in Nat
         /\ Fits(t, t)
         /\ Fits(t, r) => Fits(r, t)
<1> USE E2AssociatorAssumption
<1>1. t \in Triggers /\ r \in Triggers /\ Pos[t] \in Nat /\ Pos[r] \in Nat
  BY DEF TypeOK
<1>2. trigmap[t].trigger_time \in Nat /\ trigmap[r].trigger_time \in Nat
  BY DEF TypeOK, E2Triggers
<1> QED  BY <1>1, <1>2 DEF Fits, TimeDif, Dist, Abs

-----------------------------------------------------------------------------
LEMMA InitInv == Init => IndInv
<1> SUFFICES ASSUME Init PROVE IndInv
  OBVIOUS
<1>1. TypeOK
  BY E2AssociatorAssumption DEF Init, TypeOK, Phases, Live, Locals, NoGroup
<1>2. Owned
  BY DEF Init, Owned, TriggersOwned, OneTriggerPerChannel, UpdatedAlive, Live
<1>3. GroupOk
  BY DEF Init, GroupOk, Passes
<1> QED  BY <1>1, <1>2, <1>3 DEF IndInv

-----------------------------------------------------------------------------
(* Triggers and events.                                                    *)

(* A trigger without an event is in none.                                  *)
LEMMA UnassociatedIsFree ==
  ASSUME TypeOK, Owned, NEW t \in Unassociated
  PROVE  /\ t \in Live /\ t \in Triggers /\ trigmap[t].eventid = 0
         /\ ~trigmap[t].associated /\ ~trigmap[t].free
         /\ \A e \in DOMAIN eventlist : t \notin eventlist[e].triggers
<1>1. t \in Live /\ ~trigmap[t].associated
  BY DEF Unassociated
<1>2. trigmap[t].eventid = 0 /\ ~trigmap[t].free
  BY <1>1 DEF Owned, TriggersOwned
<1>3. \A e \in DOMAIN eventlist : e # 0
  BY E2AssociatorAssumption DEF TypeOK
<1> QED  BY <1>1, <1>2, <1>3 DEF TypeOK, Owned, TriggersOwned

(* Measurements, times and the group do not touch who owns what.           *)
LEMMA OwnedKept ==
  ASSUME Owned, DOMAIN eventlist' = DOMAIN eventlist, next_eventid' = next_eventid,
         \A e \in DOMAIN eventlist : eventlist'[e].triggers = eventlist[e].triggers,
         Live' = Live,
         \A t \in Live : SameFlags(trigmap'[t], trigmap[t]),
         updated_trigs' \subseteq updated_trigs,
         phase' = "expire" => updated_trigs' = {}
  PROVE  Owned'
<1>1. TriggersOwned'
  BY DEF Owned, TriggersOwned, SameFlags
<1>2. OneTriggerPerChannel'
  BY DEF Owned, OneTriggerPerChannel
<1>3. UpdatedAlive'
  BY DEF Owned, UpdatedAlive
<1> QED  BY <1>1, <1>2, <1>3 DEF Owned, SameFlags

(* Triggers J, unassociated until now, join event e, old or new, which has *)
(* triggers T and none of their channels; others are reserved.             *)
Joins(e, J, T, reserved) ==
  /\ e \in EventIds /\ J \in SUBSET Unassociated
  /\ reserved \in SUBSET (Unassociated \ J)
  /\ T = IF e \in DOMAIN eventlist THEN eventlist[e].triggers ELSE {}
  /\ DOMAIN eventlist' = DOMAIN eventlist \cup {e}
  /\ eventlist'[e].triggers = T \cup J
  /\ \A x \in DOMAIN eventlist \ {e} :
       eventlist'[x].triggers = eventlist[x].triggers
  /\ \A x \in DOMAIN eventlist' : x < next_eventid'
  /\ Live' = Live
  /\ \A t \in J : /\ trigmap'[t].eventid = e
                  /\ trigmap'[t].associated /\ ~trigmap'[t].free
  /\ \A t \in reserved : trigmap'[t].eventid = 0 /\ trigmap'[t].associated
  /\ \A t \in Live \ (J \cup reserved) : SameFlags(trigmap'[t], trigmap[t])
  /\ \A t, r \in T \cup J : ChanOf[t] = ChanOf[r] => t = r
  /\ updated_trigs' = updated_trigs /\ phase' # "expire"

LEMMA OwnedWhenJoined ==
  ASSUME TypeOK, Owned, NEW e, NEW J, NEW T, NEW reserved,
         Joins(e, J, T, reserved)
  PROVE  Owned'
<1> USE DEF Joins
<1>0. /\ \A t \in J \cup reserved : t \in Live /\ trigmap[t].eventid = 0
          /\ \A x \in DOMAIN eventlist : t \notin eventlist[x].triggers
      /\ e # 0 /\ \A x \in DOMAIN eventlist : x # 0
  BY UnassociatedIsFree, E2AssociatorAssumption DEF TypeOK
<1>1. ASSUME NEW x \in DOMAIN eventlist', NEW t \in eventlist'[x].triggers
      PROVE  t \in Live' /\ trigmap'[t].eventid = x
  <2>1. CASE x = e /\ t \in J
    BY <1>0, <2>1
  <2>2. CASE ~(x = e /\ t \in J)
    <3>1. x \in DOMAIN eventlist /\ t \in eventlist[x].triggers
      BY <1>1, <2>2
    <3>2. t \in Live /\ trigmap[t].eventid = x /\ t \notin J \cup reserved
      BY <1>0, <3>1 DEF Owned, TriggersOwned
    <3> QED  BY <3>2 DEF SameFlags
  <2> QED  BY <2>1, <2>2
<1>2. ASSUME NEW t \in Live', trigmap'[t].eventid # 0
      PROVE  /\ trigmap'[t].eventid \in DOMAIN eventlist'
             /\ t \in eventlist'[trigmap'[t].eventid].triggers
             /\ trigmap'[t].associated /\ ~trigmap'[t].free
  <2>1. CASE t \in J
    BY <2>1
  <2>2. CASE t \notin J
    <3>1. t \in Live \ (J \cup reserved)
      BY <1>2, <2>2
    <3>2. SameFlags(trigmap'[t], trigmap[t])
      BY <3>1
    <3>3. trigmap[t].eventid \in DOMAIN eventlist
          /\ t \in eventlist[trigmap[t].eventid].triggers
          /\ trigmap[t].associated /\ ~trigmap[t].free
      BY <1>2, <3>1, <3>2 DEF SameFlags, Owned, TriggersOwned
    <3> QED  BY <3>2, <3>3 DEF SameFlags
  <2> QED  BY <2>1, <2>2
<1>3. TriggersOwned'
  BY <1>1, <1>2 DEF TriggersOwned
<1>4. OneTriggerPerChannel'
  BY DEF Owned, OneTriggerPerChannel
<1>5. UpdatedAlive'
  BY DEF Owned, UpdatedAlive
<1>6. \A t \in Live' : trigmap'[t].free => trigmap'[t].associated
  BY DEF Owned, SameFlags
<1> QED  BY <1>3, <1>4, <1>5, <1>6 DEF Owned

LEMMA AssociatedTyped ==
  ASSUME TypeOK, Owned, NEW T \in SUBSET Unassociated, NEW e \in EventIds
  PROVE  /\ DOMAIN Associated(T, e) = Live
         /\ \A t \in Live :
              /\ Associated(T, e)[t] \in E2Triggers
              /\ Associated(T, e)[t].trigger_time = trigmap[t].trigger_time
              /\ t \notin T => Associated(T, e)[t] = trigmap[t]
         /\ \A t \in T : Associated(T, e)[t].eventid = e
              /\ Associated(T, e)[t].associated /\ ~Associated(T, e)[t].free
<1> SUFFICES ASSUME NEW t \in Live
             PROVE  /\ Associated(T, e)[t] \in E2Triggers
                    /\ Associated(T, e)[t].trigger_time = trigmap[t].trigger_time
                    /\ t \notin T => Associated(T, e)[t] = trigmap[t]
                    /\ t \in T => /\ Associated(T, e)[t].eventid = e
                                 /\ Associated(T, e)[t].associated
                                 /\ ~Associated(T, e)[t].free
  BY UnassociatedIsFree DEF Associated
<1>1. trigmap[t] \in E2Triggers
  BY DEF TypeOK
<1>2. CASE t \in T
  <2>1. Associated(T, e)[t] =
          [trigmap[t] EXCEPT !.eventid = e, !.associated = TRUE]
    BY <1>2 DEF Associated
  <2>2. ~trigmap[t].free
    BY <1>2, UnassociatedIsFree
  <2> QED  BY <1>1, <1>2, <2>1, <2>2 DEF E2Triggers
<1>3. CASE t \notin T
  BY <1>1, <1>3 DEF Associated
<1> QED  BY <1>2, <1>3

(* insertEvent, whichever search it comes from.                            *)
LEMMA InsertEventOwned ==
  ASSUME TypeOK, Owned, NEW T, InsertEvent(T),
         \A t, r \in T \cap Unassociated : ChanOf[t] = ChanOf[r] => t = r,
         updated_trigs' = updated_trigs
  PROVE  /\ Owned'
         /\ DOMAIN eventlist' = DOMAIN eventlist \cup {next_eventid}
         /\ next_eventid \in EventIds
         /\ eventlist'[next_eventid].triggers = T \cap Unassociated
         /\ Live' = Live
         /\ \A e \in DOMAIN eventlist' : eventlist'[e] \in Events
         /\ \A t \in Live : trigmap'[t] \in E2Triggers
              /\ trigmap'[t].trigger_time = trigmap[t].trigger_time
         /\ next_eventid' \in Nat \ {0} /\ evid' \in EventIds \cup {0}
<1> DEFINE J == T \cap Unassociated
           e == next_eventid
<1>1. J \in SUBSET Unassociated /\ e \in EventIds /\ e \in Nat /\ e > 0
  BY E2AssociatorAssumption DEF InsertEvent
<1>2. e \notin DOMAIN eventlist /\ J \subseteq Triggers
  <2>1. e \notin DOMAIN eventlist
    BY <1>1 DEF Owned
  <2>2. J \subseteq Triggers
    BY DEF Unassociated, TypeOK
  <2> QED  BY <2>1, <2>2
<1>3. /\ DOMAIN eventlist' = DOMAIN eventlist \cup {e}
      /\ eventlist'[e] = [triggers |-> J, split_ok |-> TRUE]
      /\ \A x \in DOMAIN eventlist : eventlist'[x] = eventlist[x]
      /\ trigmap' = Associated(J, e) /\ next_eventid' = e + 1 /\ evid' = e
      /\ phase' # "expire"
  BY <1>2 DEF InsertEvent
<1> HIDE DEF J, e
<1>4. DOMAIN trigmap' = Live /\ Live' = Live
  BY <1>1, <1>3, AssociatedTyped DEF Live
<1>5. \A t \in Live : trigmap'[t] \in E2Triggers
        /\ trigmap'[t].trigger_time = trigmap[t].trigger_time
  BY <1>1, <1>3, AssociatedTyped
<1>6. \A x \in DOMAIN eventlist' : x < next_eventid'
  <2>1. \A x \in DOMAIN eventlist : x < e /\ x \in Nat
    BY E2AssociatorAssumption DEF Owned, TypeOK, e
  <2> QED  BY <1>1, <1>3, <2>1
<1>7. Owned'
  <2> DEFINE none == {}
  <2>1. \A t \in J : trigmap'[t].eventid = e /\ trigmap'[t].associated
                   /\ ~trigmap'[t].free
    <3>1. \A t \in J : /\ Associated(J, e)[t].eventid = e
                      /\ Associated(J, e)[t].associated
                      /\ ~Associated(J, e)[t].free
      BY <1>1, AssociatedTyped
    <3> QED  BY <1>3, <3>1
  <2>2. \A t \in Live \ (J \cup none) : SameFlags(trigmap'[t], trigmap[t])
    BY <1>1, <1>3, AssociatedTyped DEF SameFlags
  <2>3. none = IF e \in DOMAIN eventlist THEN eventlist[e].triggers ELSE {}
    BY <1>2 DEF e
  <2>4. eventlist'[e].triggers = none \cup J
    BY <1>3
  <2>5. \A x \in DOMAIN eventlist \ {e} :
          eventlist'[x].triggers = eventlist[x].triggers
    BY <1>3
  <2>6. \A t \in none : trigmap'[t].eventid = 0 /\ trigmap'[t].associated
    OBVIOUS
  <2>7. \A t, r \in none \cup J : ChanOf[t] = ChanOf[r] => t = r
    BY DEF J
  <2>8. none \in SUBSET (Unassociated \ J)
    OBVIOUS
  <2> HIDE DEF none
  <2>9. /\ e \in EventIds /\ J \in SUBSET Unassociated
        /\ DOMAIN eventlist' = DOMAIN eventlist \cup {e}
        /\ phase' # "expire"
    BY <1>1, <1>3
  <2>10. Joins(e, J, none, none)
    BY <1>4, <1>6, <2>1, <2>2, <2>3, <2>4, <2>5, <2>6, <2>7, <2>8, <2>9 DEF Joins
  <2> QED  BY <2>10, OwnedWhenJoined
<1>8. ASSUME NEW x \in DOMAIN eventlist' PROVE eventlist'[x] \in Events
  <2>1. CASE x = e
    <3>1. [triggers |-> J, split_ok |-> TRUE] \in Events
      BY <1>2 DEF Events, J
    <3> QED  BY <1>3, <2>1, <3>1
  <2>2. CASE x # e
    BY <1>3, <2>2 DEF TypeOK
  <2> QED  BY <2>1, <2>2
<1>9. eventlist'[e].triggers = J /\ next_eventid' \in Nat \ {0}
  BY <1>1, <1>3
<1> QED
  BY <1>1, <1>3, <1>4, <1>5, <1>7, <1>8, <1>9 DEF J, e

-----------------------------------------------------------------------------
(* Each action keeps types and ownership.                                  *)

LEMMA ReserveTyped ==
  ASSUME NEW x \in E2Triggers
  PROVE  /\ Reserve(x) \in E2Triggers /\ Reserve(x).eventid = x.eventid
         /\ Reserve(x).associated /\ Reserve(x).trigger_time = x.trigger_time
BY DEF Reserve, E2Triggers

LEMMA JoinNoneInv ==
  ASSUME IndInv, NEW split, NEW reserved \in SUBSET Listed, JoinNone(split, reserved)
  PROVE  IndInv'
<1> USE DEF IndInv
<1>1. /\ DOMAIN eventlist' = DOMAIN eventlist
      /\ \A x \in DOMAIN eventlist :
           /\ eventlist'[x] \in Events
           /\ eventlist'[x].triggers = eventlist[x].triggers
  <2> SUFFICES ASSUME NEW x \in DOMAIN eventlist
               PROVE  /\ eventlist'[x] \in Events
                      /\ eventlist'[x].triggers = eventlist[x].triggers
    BY DEF JoinNone
  <2>1. eventlist[x] \in Events
    BY DEF TypeOK
  <2>2. eventlist'[x] = [eventlist[x] EXCEPT !.split_ok = @ /\ x \notin split]
    BY DEF JoinNone
  <2> QED  BY <2>1, <2>2 DEF Events
<1>2. /\ DOMAIN trigmap' = Live /\ Live' = Live
      /\ \A t \in Live \ reserved : trigmap'[t] = trigmap[t]
      /\ \A t \in reserved : trigmap'[t] = Reserve(trigmap[t])
      /\ reserved \subseteq Unassociated /\ Unassociated \subseteq Live
  BY DEF JoinNone, Live, Listed, Unassociated
<1>3. \A t \in Live : trigmap'[t] \in E2Triggers
  BY <1>2, ReserveTyped DEF TypeOK
<1>4. TypeOK'
  BY <1>1, <1>2, <1>3
  DEF JoinNone, reading, TypeOK, Phases, Passes, Locals, NoGroup
<1>5. \A t \in reserved : /\ trigmap'[t].eventid = 0
                         /\ trigmap'[t].associated /\ trigmap[t].eventid = 0
  BY <1>2, ReserveTyped, UnassociatedIsFree DEF TypeOK
<1>6. TriggersOwned'
  <2>1. ASSUME NEW e \in DOMAIN eventlist', NEW t \in eventlist'[e].triggers
        PROVE  t \in Live' /\ trigmap'[t].eventid = e
    <3>1. t \in eventlist[e].triggers /\ e \in DOMAIN eventlist
      BY <1>1
    <3>2. t \in Live /\ trigmap[t].eventid = e /\ t \notin reserved
      BY <1>2, <3>1, UnassociatedIsFree DEF Owned, TriggersOwned
    <3> QED  BY <1>2, <3>2
  <2>2. ASSUME NEW t \in Live', trigmap'[t].eventid # 0
        PROVE  /\ trigmap'[t].eventid \in DOMAIN eventlist'
               /\ t \in eventlist'[trigmap'[t].eventid].triggers
               /\ trigmap'[t].associated /\ ~trigmap'[t].free
    <3>1. trigmap'[t] = trigmap[t] /\ t \in Live
      BY <1>2, <1>5, <2>2
    <3> QED  BY <1>1, <2>2, <3>1 DEF Owned, TriggersOwned
  <2> QED  BY <2>1, <2>2 DEF TriggersOwned
<1>7. OneTriggerPerChannel'
  BY <1>1 DEF Owned, OneTriggerPerChannel
<1>8. UpdatedAlive' /\ next_eventid' = next_eventid /\ phase' = "forward"
  BY <1>2 DEF JoinNone, Owned, UpdatedAlive
<1>9. Owned'
  BY <1>1, <1>2, <1>5, <1>6, <1>7, <1>8 DEF Owned
<1>10. GroupOk'
  BY DEF JoinNone, GroupOk, NoGroup, Scanning
<1> QED  BY <1>4, <1>9, <1>10

LEMMA JoinEventInv ==
  ASSUME IndInv, NEW e \in Open, NEW J \in SUBSET Listed, MayJoin(J, e), NEW split,
         NEW reserved \in SUBSET (Listed \ J), JoinEvent(e, J, split, reserved)
  PROVE  IndInv'
<1> USE DEF IndInv
<1>0. /\ e \in DOMAIN eventlist /\ e \in EventIds /\ eventlist[e] \in Events
      /\ J \subseteq Unassociated /\ reserved \subseteq Unassociated \ J
      /\ Unassociated \subseteq Live /\ Live \subseteq Triggers
      /\ phase' = "update" /\ evid' = e /\ updated_trigs' = updated_trigs
      /\ next_eventid' = next_eventid
  BY DEF Open, Listed, Unassociated, TypeOK, JoinEvent
<1>1. /\ DOMAIN eventlist' = DOMAIN eventlist
      /\ \A x \in DOMAIN eventlist :
           /\ eventlist'[x] \in Events
           /\ eventlist'[x].triggers = IF x = e THEN eventlist[x].triggers \cup J
                                      ELSE eventlist[x].triggers
  <2> SUFFICES ASSUME NEW x \in DOMAIN eventlist
               PROVE  /\ eventlist'[x] \in Events
                      /\ eventlist'[x].triggers =
                           IF x = e THEN eventlist[x].triggers \cup J
                           ELSE eventlist[x].triggers
    BY DEF JoinEvent
  <2>1. eventlist[x] \in Events
    BY DEF TypeOK
  <2>2. eventlist'[x] = [triggers |-> IF x = e THEN eventlist[x].triggers \cup J
                                      ELSE eventlist[x].triggers,
                         split_ok |-> eventlist[x].split_ok /\ x \notin split]
    BY DEF JoinEvent
  <2> QED  BY <1>0, <2>1, <2>2 DEF Events
<1>2. /\ DOMAIN trigmap' = Live /\ Live' = Live
      /\ \A t \in Live : trigmap'[t] =
           IF t \in reserved THEN Reserve(trigmap[t]) ELSE Associated(J, e)[t]
  BY DEF JoinEvent, Live
<1>3. \A t \in Live : trigmap'[t] \in E2Triggers
  <2>1. \A t \in Live : Associated(J, e)[t] \in E2Triggers
    BY <1>0, AssociatedTyped
  <2>2. \A t \in Live : Reserve(trigmap[t]) \in E2Triggers
    BY ReserveTyped DEF TypeOK
  <2> QED  BY <1>2, <2>1, <2>2
<1>4. TypeOK'
  BY <1>0, <1>1, <1>2, <1>3 DEF JoinEvent, reading, TypeOK, Phases
<1> DEFINE T == eventlist[e].triggers
<1>5. Joins(e, J, T, reserved)
  <2>1. \A t \in J : /\ trigmap'[t].eventid = e
                    /\ trigmap'[t].associated /\ ~trigmap'[t].free
    BY <1>0, <1>2, AssociatedTyped
  <2>2. \A t \in reserved : trigmap'[t].eventid = 0 /\ trigmap'[t].associated
    BY <1>0, <1>2, ReserveTyped, UnassociatedIsFree DEF TypeOK
  <2>3. \A t \in Live \ (J \cup reserved) : SameFlags(trigmap'[t], trigmap[t])
    BY <1>0, <1>2, AssociatedTyped DEF SameFlags
  <2>4. \A t, r \in T \cup J : ChanOf[t] = ChanOf[r] => t = r
    <3>1. \A t, r \in J : ChanOf[t] = ChanOf[r] => t = r
      BY <1>0, ChannelsCounted DEF MayJoin
    <3>2. \A t \in J, r \in T : ChanOf[t] # ChanOf[r]
      BY DEF MayJoin, Channels
    <3>3. \A t, r \in T : ChanOf[t] = ChanOf[r] => t = r
      BY <1>0 DEF Owned, OneTriggerPerChannel
    <3> QED  BY <3>1, <3>2, <3>3
  <2>5. \A x \in DOMAIN eventlist' : x < next_eventid'
    BY <1>0, <1>1 DEF Owned
  <2>6. /\ DOMAIN eventlist' = DOMAIN eventlist \cup {e}
        /\ eventlist'[e].triggers = T \cup J
        /\ \A x \in DOMAIN eventlist \ {e} :
             eventlist'[x].triggers = eventlist[x].triggers
    BY <1>0, <1>1
  <2> QED  BY <1>0, <1>2, <2>1, <2>2, <2>3, <2>4, <2>5, <2>6 DEF Joins
<1>6. Owned'
  BY <1>5, OwnedWhenJoined
<1>7. GroupOk'
  BY <1>0 DEF GroupOk, Passes
<1> QED  BY <1>4, <1>6, <1>7

LEMMA JoinInv ==
  ASSUME IndInv, Join PROVE IndInv'
<1>1. CASE \E split \in SUBSET MayBeSplit(Open) :
             \E reserved \in SUBSET MayBeReserved(Open, {}) :
               JoinNone(split, reserved)
  <2>a. PICK split \in SUBSET MayBeSplit(Open) :
          \E reserved \in SUBSET MayBeReserved(Open, {}) : JoinNone(split, reserved)
    BY <1>1
  <2>1. PICK reserved \in SUBSET MayBeReserved(Open, {}) : JoinNone(split, reserved)
    BY <2>a
  <2>2. reserved \in SUBSET Listed
    BY DEF MayBeReserved
  <2> QED  BY <2>1, <2>2, JoinNoneInv
<1>2. CASE \E e \in Open, J \in SUBSET Listed \ {{}} :
             /\ MayJoin(J, e)
             /\ \E split \in SUBSET MayBeSplit(UpTo(e)) :
                  \E reserved \in SUBSET MayBeReserved(UpTo(e), J) :
                    JoinEvent(e, J, split, reserved)
  <2>1. PICK e \in Open, J \in SUBSET Listed \ {{}} :
          /\ MayJoin(J, e)
          /\ \E split \in SUBSET MayBeSplit(UpTo(e)) :
               \E reserved \in SUBSET MayBeReserved(UpTo(e), J) :
                 JoinEvent(e, J, split, reserved)
    BY <1>2
  <2>a. PICK split \in SUBSET MayBeSplit(UpTo(e)) :
          \E reserved \in SUBSET MayBeReserved(UpTo(e), J) :
            JoinEvent(e, J, split, reserved)
    BY <2>1
  <2>2. PICK reserved \in SUBSET MayBeReserved(UpTo(e), J) :
          JoinEvent(e, J, split, reserved)
    BY <2>a
  <2>3. reserved \in SUBSET (Listed \ J)
    BY DEF MayBeReserved
  <2> QED  BY <2>1, <2>2, <2>3, JoinEventInv
<1> QED  BY <1>1, <1>2 DEF Join

LEMMA ArriveInv ==
  ASSUME IndInv, NEW m \in Messages, Arrive(m) PROVE IndInv'
<1> USE DEF IndInv
<1>1. m.trig \in Triggers /\ m.samples \in 1 .. MaxSamples /\ MaxSamples \in Nat
  BY E2AssociatorAssumption DEF Messages
<1>2. recent' \in [Triggers -> 0 .. MaxSamples]
  BY <1>1 DEF Arrive, Remembered, TypeOK
<1>3. TypeOK'
  BY <1>2 DEF Arrive, owned, TypeOK, Live
<1>4. Owned'
  BY OwnedKept DEF Arrive, owned, Live, SameFlags, Owned
<1>5. GroupOk'
  BY DEF Arrive, GroupOk, Passes
<1> QED  BY <1>3, <1>4, <1>5

LEMMA ReadInv ==
  ASSUME IndInv, Read PROVE IndInv'
<1> USE DEF IndInv
<1>1. PICK last \in [Inserted -> DOMAIN trig_buffer] :
        trigmap' = [t \in Live \cup Inserted |->
                      IF t \notin Inserted THEN trigmap[t]
                      ELSE IF t \in Live
                           THEN UpdateMeasurements(trigmap[t], trig_buffer[last[t]])
                           ELSE NewTrigger(trig_buffer[last[t]])]
  BY DEF Read
<1>2. \A k \in DOMAIN trig_buffer : trig_buffer[k] \in Messages
  BY DEF TypeOK
<1>3. Inserted \subseteq Triggers
  BY <1>2 DEF Inserted, Elements, Messages
<1>4. /\ Live' = Live \cup Inserted
      /\ \A t \in Live' : trigmap'[t] =
           IF t \notin Inserted THEN trigmap[t]
           ELSE IF t \in Live
                THEN UpdateMeasurements(trigmap[t], trig_buffer[last[t]])
                ELSE NewTrigger(trig_buffer[last[t]])
  BY <1>1 DEF Live
<1>5. ASSUME NEW m \in Messages, NEW x \in E2Triggers
      PROVE  /\ UpdateMeasurements(x, m) \in E2Triggers
             /\ SameFlags(UpdateMeasurements(x, m), x)
             /\ NewTrigger(m) \in E2Triggers
             /\ NewTrigger(m).eventid = 0 /\ ~NewTrigger(m).free
  <2>1. /\ m.trig \in Triggers /\ FoundAt[m.trig] \in Nat
        /\ m.samples \in 1 .. MaxSamples /\ m.quality \in Qualities
    BY E2AssociatorAssumption DEF Messages
  <2>2. UpdateMeasurements(x, m) \in E2Triggers
        /\ SameFlags(UpdateMeasurements(x, m), x)
    BY <2>1 DEF UpdateMeasurements, E2Triggers, SameFlags
  <2>3. NewTrigger(m) \in E2Triggers
    BY <2>1 DEF NewTrigger, E2Triggers, Qualities
  <2>4. NewTrigger(m).eventid = 0 /\ ~NewTrigger(m).free
    BY DEF NewTrigger
  <2> QED  BY <2>2, <2>3, <2>4
<1>6. ASSUME NEW t \in Live'
      PROVE  /\ trigmap'[t] \in E2Triggers
             /\ t \in Live => SameFlags(trigmap'[t], trigmap[t])
             /\ t \notin Live => trigmap'[t].eventid = 0 /\ ~trigmap'[t].free
  <2>1. CASE t \notin Inserted
    BY <1>4, <2>1 DEF TypeOK, SameFlags
  <2>2. CASE t \in Inserted /\ t \in Live
    <3>1. trig_buffer[last[t]] \in Messages /\ trigmap[t] \in E2Triggers
      BY <1>2, <2>2 DEF TypeOK
    <3> QED  BY <1>4, <1>5, <2>2, <3>1
  <2>3. CASE t \in Inserted /\ t \notin Live
    <3>1. trig_buffer[last[t]] \in Messages
      BY <1>2, <2>3
    <3>2. NewTrigger(trig_buffer[last[t]]) \in E2Triggers
      BY <2>3, <3>1, E2AssociatorAssumption
      DEF NewTrigger, E2Triggers, Messages, Qualities
    <3>3. trigmap'[t] = NewTrigger(trig_buffer[last[t]])
      BY <1>4, <2>3
    <3> QED  BY <2>3, <3>2, <3>3 DEF NewTrigger
  <2> QED  BY <2>1, <2>2, <2>3
<1>7. updated_trigs' \subseteq updated_trigs \cup Inserted
  BY DEF Read
<1>8. /\ phase' \in {"collect", "update"} /\ trig_buffer' = <<>>
      /\ UNCHANGED <<recent, old, eventlist, next_eventid, evid, trigs, group,
                     tried>>
  BY DEF Read
<1>9. TypeOK'
  BY <1>3, <1>4, <1>6, <1>7, <1>8 DEF TypeOK, Phases, Events
<1>10. TriggersOwned'
  <2>1. \A e \in DOMAIN eventlist' : \A t \in eventlist'[e].triggers :
          t \in Live' /\ trigmap'[t].eventid = e
    BY <1>4, <1>6, <1>8 DEF Owned, TriggersOwned, SameFlags
  <2>2. \A t \in Live' : trigmap'[t].eventid # 0 =>
          /\ trigmap'[t].eventid \in DOMAIN eventlist'
          /\ t \in eventlist'[trigmap'[t].eventid].triggers
          /\ trigmap'[t].associated /\ ~trigmap'[t].free
    BY <1>4, <1>6, <1>8 DEF Owned, TriggersOwned, SameFlags
  <2> QED  BY <2>1, <2>2 DEF TriggersOwned
<1>11. OneTriggerPerChannel'
  BY <1>8 DEF Owned, OneTriggerPerChannel
<1>12. UpdatedAlive'
  BY <1>4, <1>7 DEF Owned, UpdatedAlive
<1>13. \A t \in Live' : trigmap'[t].free => trigmap'[t].associated
  BY <1>4, <1>6 DEF Owned, SameFlags
<1>14. Owned'
  BY <1>8, <1>10, <1>11, <1>12, <1>13 DEF Owned
<1>15. GroupOk'
  BY <1>8 DEF GroupOk, Passes
<1> QED  BY <1>9, <1>14, <1>15

LEMMA CollectInv ==
  ASSUME IndInv, Collect PROVE IndInv'
<1> USE DEF IndInv
<1>1. Qualified \in SUBSET Triggers
  BY DEF Qualified, Unassociated, TypeOK
<1>2. trigs' \in Seq(Triggers)
  <2>1. trigs' \in [1 .. Cardinality(Qualified) -> Qualified]
    BY DEF Collect, Sorted
  <2>2. Cardinality(Qualified) \in Nat
    BY <1>1, TriggersFinite
  <2> QED  BY <1>1, <2>1, <2>2
<1>3. /\ tried' \subseteq Triggers /\ phase' \in {"update", "join"}
      /\ evid' \in {0, evid}
      /\ UNCHANGED <<reading, old, owned, updated_trigs, group>>
  BY <1>1 DEF Collect
<1>4. TypeOK'
  BY <1>2, <1>3 DEF reading, owned, TypeOK, Phases, Live
<1>5. Owned'
  BY <1>3, OwnedKept DEF owned, Live, SameFlags, Owned
<1>6. GroupOk'
  BY <1>3 DEF GroupOk, Passes
<1> QED  BY <1>4, <1>5, <1>6

(* twoStationEvent and singleStationEvent.                                 *)
LEMMA NewSmallEventInv ==
  ASSUME IndInv, NEW T, InsertEvent(T),
         \A t, r \in T \cap Unassociated : ChanOf[t] = ChanOf[r] => t = r,
         UNCHANGED <<reading, old, updated_trigs, trigs, group, tried>>
  PROVE  IndInv'
<1> USE DEF IndInv
<1>1. /\ Owned' /\ Live' = Live /\ next_eventid \in EventIds
      /\ DOMAIN eventlist' = DOMAIN eventlist \cup {next_eventid}
      /\ \A e \in DOMAIN eventlist' : eventlist'[e] \in Events
      /\ \A t \in Live : trigmap'[t] \in E2Triggers
      /\ next_eventid' \in Nat \ {0} /\ evid' \in EventIds \cup {0}
  BY InsertEventOwned
<1>2. phase' = "update"
  BY DEF InsertEvent
<1>3. TypeOK'
  BY <1>1, <1>2 DEF reading, TypeOK, Phases
<1>4. GroupOk'
  BY <1>2 DEF GroupOk, Passes
<1> QED  BY <1>1, <1>3, <1>4

LEMMA NewTwoStationInv ==
  ASSUME IndInv, NEW t \in Triggers, NEW r \in Triggers, NewTwoStation(t, r)
  PROVE  IndInv'
<1>1. ChanOf[t] # ChanOf[r]
  BY E2AssociatorAssumption DEF NewTwoStation
<1>2. InsertEvent({t, r})
      /\ UNCHANGED <<reading, old, updated_trigs, trigs, group, tried>>
  BY DEF NewTwoStation
<1>3. \A x, y \in {t, r} \cap Unassociated : ChanOf[x] = ChanOf[y] => x = y
  BY <1>1
<1> QED  BY <1>2, <1>3, NewSmallEventInv

LEMMA NewSingleStationInv ==
  ASSUME IndInv, NEW t \in Triggers, NewSingleStation(t)
  PROVE  IndInv'
<1>1. InsertEvent({t})
      /\ UNCHANGED <<reading, old, updated_trigs, trigs, group, tried>>
  BY DEF NewSingleStation
<1>2. \A x, y \in {t} \cap Unassociated : ChanOf[x] = ChanOf[y] => x = y
  OBVIOUS
<1> QED  BY <1>1, <1>2, NewSmallEventInv

LEMMA NothingFoundInv ==
  ASSUME IndInv, NoTwoStation \/ NoEvent PROVE IndInv'
<1> USE DEF IndInv
<1>1. /\ phase' \in {"single", "update"} /\ evid' \in {0, evid}
      /\ UNCHANGED <<reading, old, owned, updated_trigs, trigs, group, tried>>
  BY DEF NoTwoStation, NoEvent
<1>2. TypeOK'
  BY <1>1 DEF reading, owned, TypeOK, Phases, Live
<1>3. Owned'
  BY <1>1, OwnedKept DEF owned, Live, SameFlags, Owned
<1>4. GroupOk'
  BY <1>1 DEF GroupOk, Passes
<1> QED  BY <1>2, <1>3, <1>4

LEMMA UpdateEventsInv ==
  ASSUME IndInv, UpdateEvents PROVE IndInv'
<1> USE DEF IndInv
<1>1. /\ phase' = "expire" /\ updated_trigs' = {}
      /\ UNCHANGED <<reading, old, owned, evid, trigs, group, tried>>
  BY DEF UpdateEvents, AfterUpdate
<1>2. TypeOK'
  BY <1>1 DEF reading, owned, TypeOK, Phases, Live
<1>3. Owned'
  BY <1>1, OwnedKept DEF owned, Live, SameFlags, Owned
<1>4. GroupOk'
  BY <1>1 DEF GroupOk, Passes
<1> QED  BY <1>2, <1>3, <1>4

(* Of the triggers that are removed none is in an event that stays, and of *)
(* the events that go all are removed.                                     *)
LEMMA ExpireInv ==
  ASSUME IndInv, NEW gone \in SUBSET DOMAIN eventlist, Expire(gone) PROVE IndInv'
<1> USE DEF IndInv
<1>1. /\ phase = "expire" /\ phase' = "read"
      /\ DOMAIN eventlist' = DOMAIN eventlist \ gone
      /\ \A e \in DOMAIN eventlist' : eventlist'[e] = eventlist[e]
      /\ Live' = Live \ Removed(gone)
      /\ \A t \in Live' : trigmap'[t] = trigmap[t]
      /\ UNCHANGED <<reading, old, next_eventid, evid, updated_trigs, trigs, group,
                     tried>>
  BY DEF Expire, Live
<1>2. TypeOK'
  BY <1>1 DEF reading, TypeOK, Phases
<1>3. ASSUME NEW e \in DOMAIN eventlist', NEW t \in eventlist'[e].triggers
      PROVE  t \in Live' /\ trigmap'[t].eventid = e
  <2>1. /\ e \in DOMAIN eventlist /\ e \notin gone /\ e # 0
        /\ t \in eventlist[e].triggers
    BY <1>1, E2AssociatorAssumption DEF TypeOK
  <2>2. /\ t \in Live /\ trigmap[t].eventid = e
        /\ trigmap[t].associated /\ ~trigmap[t].free
    BY <2>1 DEF Owned, TriggersOwned
  <2>3. \A x \in gone : t \notin eventlist[x].triggers
    BY <2>1, <2>2 DEF Owned, TriggersOwned
  <2>4. t \notin Removed(gone)
    BY <2>2, <2>3 DEF Removed
  <2> QED  BY <1>1, <2>2, <2>4
<1>4. ASSUME NEW t \in Live', trigmap'[t].eventid # 0
      PROVE  /\ trigmap'[t].eventid \in DOMAIN eventlist'
             /\ t \in eventlist'[trigmap'[t].eventid].triggers
             /\ trigmap'[t].associated /\ ~trigmap'[t].free
  <2>1. t \in Live /\ t \notin Removed(gone) /\ trigmap'[t] = trigmap[t]
    BY <1>1
  <2>2. /\ trigmap[t].eventid \in DOMAIN eventlist
        /\ t \in eventlist[trigmap[t].eventid].triggers
        /\ trigmap[t].associated /\ ~trigmap[t].free
    BY <1>4, <2>1 DEF Owned, TriggersOwned
  <2>3. trigmap[t].eventid \notin gone
    BY <2>1, <2>2 DEF Removed
  <2> QED  BY <1>1, <2>1, <2>2, <2>3
<1>5. TriggersOwned'
  BY <1>3, <1>4 DEF TriggersOwned
<1>6. OneTriggerPerChannel'
  BY <1>1 DEF Owned, OneTriggerPerChannel
<1>7. UpdatedAlive'
  BY <1>1 DEF Owned, UpdatedAlive
<1>8. Owned'
  BY <1>1, <1>5, <1>6, <1>7 DEF Owned
<1>9. GroupOk'
  BY <1>1 DEF GroupOk, Passes
<1> QED  BY <1>2, <1>8, <1>9

LEMMA AgeInv ==
  ASSUME IndInv, NEW t \in Triggers, Age(t) PROVE IndInv'
<1> USE DEF IndInv
<1>1. /\ old' \subseteq Triggers /\ phase \notin Passes /\ phase' = phase
      /\ UNCHANGED <<reading, owned, evid, updated_trigs, trigs, group, tried>>
  BY DEF Age, TypeOK, Passes
<1>2. TypeOK'
  BY <1>1 DEF reading, owned, TypeOK, Live
<1>3. Owned'
  BY <1>1, OwnedKept DEF owned, Live, SameFlags, Owned
<1>4. GroupOk'
  BY <1>1 DEF GroupOk
<1> QED  BY <1>2, <1>3, <1>4

-----------------------------------------------------------------------------
(* The search for a group.                                                 *)

(* What a step of the search leaves alone.                                 *)
Searching ==
  UNCHANGED <<reading, old, eventlist, next_eventid, evid, updated_trigs, tried>>

LEMMA OwnedInSearch ==
  ASSUME Owned, Searching, phase' # "expire", Live' = Live,
         \A t \in Live : SameFlags(trigmap'[t], trigmap[t])
  PROVE  Owned' /\ Unassociated' = Unassociated
<1>1. Owned'
  BY OwnedKept DEF Searching, reading
<1>2. Unassociated' = Unassociated
  BY DEF Unassociated, SameFlags
<1> QED  BY <1>1, <1>2

LEMMA StartSeedInv ==
  ASSUME IndInv, StartSeed PROVE IndInv'
<1> USE DEF IndInv
<1>0. /\ phase \in Passes /\ group.i \in 1 .. Len(trigs) /\ group \in Locals
      /\ trigs \in Seq(Triggers) /\ Len(trigs) \in Nat /\ ~Scanning
      /\ UNCHANGED <<phase, trigmap>> /\ Searching
  BY DEF StartSeed, GroupOk, TypeOK, Locals, owned, Searching
<1>1. Owned' /\ Unassociated' = Unassociated
  BY <1>0, OwnedInSearch DEF Live, SameFlags, Passes
<1>a. PICK t : t = trigs[group.i]
  OBVIOUS
<1>2. t \in Triggers
  BY <1>0, <1>a
<1>3. CASE t \notin Unassociated
  <2>1. group' = [group EXCEPT !.i = @ + 1] /\ trigs' = trigs
    BY <1>3, <1>a DEF StartSeed
  <2>2. group' \in Locals /\ group'.i >= 1 /\ group'.num = group.num
    BY <1>0, <2>1 DEF Locals
  <2>3. TypeOK'
    BY <1>0, <2>1, <2>2 DEF Searching, reading, TypeOK, Live
  <2>4. GroupOk'
    BY <1>0, <2>2 DEF GroupOk, Scanning
  <2> QED  BY <1>1, <2>3, <2>4
<1>4. CASE t \in Unassociated
  <2>1. /\ trigs' = [trigs EXCEPT ![1] = t]
        /\ group' = [group EXCEPT !.j = First, !.num = 1, !.before = 1,
                                  !.sta_trigs = {t}, !.used = {t}]
    BY <1>4, <1>a DEF StartSeed
  <2>2. First \in Nat /\ First >= 1
    BY <1>0 DEF First
  <2>3. /\ group' \in Locals /\ group'.i = group.i /\ group'.j = First
        /\ group'.num = 1 /\ group'.sta_trigs = {t} /\ group'.used = {t}
    BY <1>0, <1>2, <2>1, <2>2 DEF Locals
  <2>4. trigs' \in Seq(Triggers) /\ Len(trigs') = Len(trigs) /\ trigs'[1] = t
    BY <1>0, <1>2, <2>1
  <2>5. TypeOK'
    BY <1>0, <2>3, <2>4 DEF Searching, reading, TypeOK, Live
  <2>6. t \in Live /\ Live' = Live /\ t \in Live'
    BY <1>0, <1>4 DEF Unassociated, Live
  <2>7. Fits(t, t)'
    <3>1. Fits(t, t)
      BY <2>6, FitsTyped
    <3> QED  BY <1>0, <3>1 DEF Fits, TimeDif
  <2>8. 1 \in 1 .. group'.num /\ \A k \in 1 .. group'.num : k = 1
    BY <2>3
  <2>9. t \in Members'
    BY <2>4, <2>8 DEF Members
  <2>10. GroupOk'
    <3>1. group'.i >= 1 /\ group'.j >= 1 /\ group'.num <= Len(trigs')
      BY <1>0, <2>2, <2>3, <2>4
    <3>2. \A k \in 1 .. group'.num : trigs'[k] \in group'.used
      BY <2>3, <2>4, <2>8
    <3>3. \A k, l \in 1 .. group'.num : k = l
      BY <2>8
    <3>4. group'.sta_trigs \subseteq Members' \cap Unassociated'
      BY <1>1, <1>4, <2>3, <2>9
    <3>5. \A x, y \in group'.sta_trigs : x = y /\ Fits(x, y)'
      BY <2>3, <2>7
    <3> QED  BY <3>1, <3>2, <3>3, <3>4, <3>5 DEF GroupOk
  <2> QED  BY <1>1, <2>5, <2>10
<1> QED  BY <1>3, <1>4

(* A candidate that belongs to the group lies behind what it overwrites.   *)
LEMMA CandidateBehind ==
  ASSUME IndInv, ConsiderNext
  PROVE  /\ phase \in Passes /\ phase' = phase /\ Scanning /\ Searching
         /\ group \in Locals /\ trigs \in Seq(Triggers) /\ Len(trigs) \in Nat
         /\ group.j \in 1 .. Len(trigs) /\ Candidate \in Triggers
         /\ group.num \in 1 .. Len(trigs) /\ group.i >= 1
         /\ Belongs(Candidate) => group.num < Len(trigs)
<1>1. /\ phase \in Passes /\ phase' = phase /\ Scanning /\ Searching
      /\ group \in Locals /\ trigs \in Seq(Triggers) /\ Len(trigs) \in Nat
  BY DEF ConsiderNext, IndInv, TypeOK, Searching
<1>2. group.j \in Nat /\ group.num \in Nat /\ group.i \in Nat
  BY <1>1 DEF Locals
<1>3. /\ group.j \in 1 .. Len(trigs) /\ group.num \in 1 .. Len(trigs)
      /\ group.i >= 1 /\ \A k \in 1 .. group.num : trigs[k] \in group.used
  BY <1>1, <1>2 DEF ConsiderNext, IndInv, GroupOk, Scanning
<1>4. Candidate \in Triggers
  BY <1>1, <1>3 DEF Candidate
<1>5. ASSUME Belongs(Candidate) PROVE group.num < Len(trigs)
  <2>1. group.j \notin 1 .. group.num
    BY <1>3, <1>5 DEF Belongs, Skips, Candidate
  <2> QED  BY <1>2, <1>3, <2>1
<1> QED  BY <1>1, <1>3, <1>4, <1>5

LEMMA PassInv ==
  ASSUME IndInv, ConsiderNext, Pass(Candidate) PROVE IndInv'
<1> USE DEF IndInv
<1>0. /\ phase \in Passes /\ phase' = phase /\ Scanning /\ Searching
      /\ group \in Locals /\ trigs' = trigs /\ trigmap' = trigmap
      /\ group' = [group EXCEPT !.j = @ + 1]
  BY CandidateBehind DEF Pass
<1>1. Owned' /\ Unassociated' = Unassociated
  BY <1>0, OwnedInSearch DEF Live, SameFlags, Passes
<1>2. /\ group' \in Locals /\ group'.i = group.i /\ group'.num = group.num
      /\ group'.j >= 1 /\ group'.sta_trigs = group.sta_trigs
      /\ group'.used = group.used
  BY <1>0 DEF Locals
<1>3. TypeOK'
  BY <1>0, <1>2 DEF Searching, reading, TypeOK, Live
<1>4. GroupOk'
  BY <1>0, <1>1, <1>2 DEF GroupOk, Scanning, Members, Fits, TimeDif
<1> QED  BY <1>1, <1>3, <1>4

(* sta_trigs with a trigger that belongs to the group.                     *)
LEMMA WithStationOk ==
  ASSUME IndInv, ConsiderNext, NEW r, r = Candidate, Belongs(r)
  PROVE  /\ r \in Unassociated /\ r \in Live /\ r \notin group.used
         /\ \A t \in WithStation(r) : t \in Unassociated /\ t \in Live
         /\ WithStation(r) \subseteq group.sta_trigs \cup {r}
         /\ \A t, x \in WithStation(r) :
              Fits(t, x) /\ (t # x => StaOf[t] # StaOf[x])
<1>0. /\ phase \in Passes /\ Scanning
  BY CandidateBehind
<1>1. r \in Unassociated /\ r \in Live /\ r \notin group.used
  BY DEF Belongs, Skips, Unassociated
<1>2. /\ group.sta_trigs \subseteq Unassociated /\ group.sta_trigs \subseteq Live
      /\ \A t, x \in group.sta_trigs :
           Fits(t, x) /\ (t # x => StaOf[t] # StaOf[x])
  BY <1>0 DEF IndInv, GroupOk, Unassociated
<1>3. \A t \in group.sta_trigs : Fits(r, t) /\ Fits(t, r)
  BY <1>1, <1>2, FitsTyped DEF Belongs, IndInv
<1>4. Fits(r, r)
  BY <1>1, FitsTyped DEF IndInv
<1> QED  BY <1>1, <1>2, <1>3, <1>4 DEF WithStation

LEMMA TakenType ==
  ASSUME group \in Locals, NEW r \in Triggers, WithStation(r) \subseteq Triggers
  PROVE  /\ Taken(r) \in Locals /\ Taken(r).i = group.i
         /\ Taken(r).j = group.j + 1 /\ Taken(r).num = group.num
         /\ Taken(r).sta_trigs = WithStation(r)
         /\ Taken(r).used = group.used \cup {r}
<1> DEFINE moved == [group EXCEPT !.j = @ + 1]
           marked == [moved EXCEPT !.used = @ \cup {r}]
<1>1. /\ moved \in Locals /\ moved.i = group.i /\ moved.j = group.j + 1
      /\ moved.num = group.num /\ moved.used = group.used
  BY DEF Locals
<1> HIDE DEF moved
<1>2. /\ marked \in Locals /\ marked.i = group.i /\ marked.j = group.j + 1
      /\ marked.num = group.num /\ marked.used = group.used \cup {r}
  BY <1>1 DEF Locals
<1>3. Taken(r) = [marked EXCEPT !.sta_trigs = WithStation(r)]
  BY DEF Taken, Locals, moved
<1> HIDE DEF marked
<1> QED  BY <1>2, <1>3 DEF Locals

LEMMA EnlargeInv ==
  ASSUME IndInv, ConsiderNext, Enlarge(Candidate) PROVE IndInv'
<1> USE DEF IndInv
<1> DEFINE r == Candidate
           n == group.num
<1>0. /\ Belongs(r) /\ SameChannel(r) = {}
      /\ trigs' = [trigs EXCEPT ![n + 1] = r] /\ group' = Enlarged(r)
      /\ trigmap' = trigmap
  BY DEF Enlarge
<1>1. /\ phase \in Passes /\ phase' = phase /\ Scanning /\ Searching
      /\ group \in Locals /\ trigs \in Seq(Triggers) /\ Len(trigs) \in Nat
      /\ group.j \in 1 .. Len(trigs) /\ r \in Triggers /\ group.i >= 1
      /\ n \in Nat /\ n >= 1 /\ n < Len(trigs)
  BY <1>0, CandidateBehind
<1>2. /\ r \in Unassociated /\ r \in Live
      /\ \A t \in WithStation(r) : t \in Unassociated /\ t \in Live
      /\ WithStation(r) \subseteq group.sta_trigs \cup {r}
      /\ \A t, x \in WithStation(r) :
           Fits(t, x) /\ (t # x => StaOf[t] # StaOf[x])
  BY <1>0, WithStationOk
<1> HIDE DEF r, n
<1>3. WithStation(r) \subseteq Triggers
  BY <1>2 DEF TypeOK
<1>4. /\ group' \in Locals /\ group'.i = group.i /\ group'.j = group.j + 1
      /\ group'.num = n + 1 /\ group'.sta_trigs = WithStation(r)
      /\ group'.used = group.used \cup {r}
  <2>1. /\ Taken(r) \in Locals /\ Taken(r).i = group.i
        /\ Taken(r).j = group.j + 1 /\ Taken(r).num = n
        /\ Taken(r).sta_trigs = WithStation(r)
        /\ Taken(r).used = group.used \cup {r}
    BY <1>1, <1>3, TakenType DEF n
  <2> HIDE DEF n
  <2>2. group' = [Taken(r) EXCEPT !.num = @ + 1]
    BY <1>0 DEF Enlarged
  <2>3. \A x \in Locals, m \in Nat :
          /\ [x EXCEPT !.num = m] \in Locals /\ [x EXCEPT !.num = m].num = m
          /\ [x EXCEPT !.num = m].i = x.i /\ [x EXCEPT !.num = m].j = x.j
          /\ [x EXCEPT !.num = m].sta_trigs = x.sta_trigs
          /\ [x EXCEPT !.num = m].used = x.used
    BY DEF Locals
  <2>4. n + 1 \in Nat /\ group' = [Taken(r) EXCEPT !.num = n + 1]
    BY <1>1, <2>1, <2>2
  <2> QED  BY <2>1, <2>3, <2>4
<1>5. /\ trigs' \in Seq(Triggers) /\ Len(trigs') = Len(trigs)
      /\ trigs'[n + 1] = r /\ \A k \in 1 .. n : trigs'[k] = trigs[k]
  BY <1>0, <1>1
<1>6. Owned' /\ Unassociated' = Unassociated
  BY <1>0, <1>1, OwnedInSearch DEF Live, SameFlags, Passes
<1>7. TypeOK'
  BY <1>0, <1>1, <1>4, <1>5 DEF Searching, reading, TypeOK, Live
<1>8. /\ \A k \in 1 .. n : trigs[k] \in group.used
      /\ \A k, l \in 1 .. n : k # l => ChanOf[trigs[k]] # ChanOf[trigs[l]]
      /\ group.sta_trigs \subseteq {trigs[k] : k \in 1 .. n}
  BY <1>1 DEF GroupOk, Members, n
<1>9. \A k \in 1 .. n : ChanOf[trigs[k]] # ChanOf[r]
  BY <1>0 DEF SameChannel, n
<1>10. \A k \in 1 .. n + 1 : k \in 1 .. n \/ k = n + 1
  BY <1>1
<1>11. \A k \in 1 .. n + 1 : trigs'[k] \in group.used \cup {r}
  BY <1>5, <1>8, <1>10
<1>12. \A k, l \in 1 .. n + 1 : k # l => ChanOf[trigs'[k]] # ChanOf[trigs'[l]]
  BY <1>5, <1>8, <1>9, <1>10
<1>13. Members' = {trigs'[k] : k \in 1 .. n + 1}
  BY <1>4 DEF Members
<1>14. WithStation(r) \subseteq Members'
  <2>1. r \in Members' /\ \A k \in 1 .. n : trigs[k] \in Members'
    <3>1. n + 1 \in 1 .. n + 1 /\ \A k \in 1 .. n : k \in 1 .. n + 1
      BY <1>1
    <3> QED  BY <1>5, <1>13, <3>1
  <2> QED  BY <1>2, <1>8, <2>1
<1>15. \A t, x \in WithStation(r) : Fits(t, x)'
  BY <1>0, <1>2 DEF Fits, TimeDif
<1>16. n + 1 <= Len(trigs') /\ group'.j >= 1
  BY <1>1, <1>4, <1>5
<1>17. GroupOk'
  BY <1>1, <1>2, <1>4, <1>6, <1>11, <1>12, <1>14, <1>15, <1>16 DEF GroupOk
<1> QED  BY <1>6, <1>7, <1>17

(* Raising times to a common bound brings them no further apart.           *)
LEMMA RaisedTimesFit ==
  ASSUME TypeOK, NEW t \in Live, NEW x \in Live, NEW b \in Nat, Fits(t, x),
         trigmap'[t].trigger_time = IF trigmap[t].trigger_time < b THEN b
                                    ELSE trigmap[t].trigger_time,
         trigmap'[x].trigger_time = IF trigmap[x].trigger_time < b THEN b
                                    ELSE trigmap[x].trigger_time
  PROVE  Fits(t, x)'
<1>1. trigmap[t].trigger_time \in Nat /\ trigmap[x].trigger_time \in Nat
      /\ Dist(t, x) \in Nat /\ StaTTAllowance \in Nat
  BY FitsTyped, E2AssociatorAssumption
<1>2. TimeDif(t, x) <= Dist(t, x) + StaTTAllowance
  BY DEF Fits
<1>3. TimeDif(t, x)' <= TimeDif(t, x) /\ TimeDif(t, x)' \in Nat
      /\ TimeDif(t, x) \in Nat
  BY <1>1 DEF TimeDif, Abs
<1> QED  BY <1>1, <1>2, <1>3 DEF Fits

LEMMA ReplaceInv ==
  ASSUME IndInv, ConsiderNext, Replace(Candidate) PROVE IndInv'
<1> USE DEF IndInv
<1>a. PICK r : r = Candidate
  OBVIOUS
<1>b. PICK n : n = group.num
  OBVIOUS
<1>c. PICK k \in SameChannel(r) :
        IF WorstMisfit(r) < WorstMisfit(trigs[k])
        THEN /\ trigs' = [trigs EXCEPT ![k] = r]
             /\ group' = Taken(r)
             /\ trigmap' =
                  IF Cardinality(group.sta_trigs) > RelocateSpan THEN trigmap
                  ELSE [t \in Live |->
                          IF /\ t \in (Members \ {trigs[k]}) \cup {r}
                             /\ trigmap[t].trigger_time < trigmap[r].trigger_time
                          THEN [trigmap[t] EXCEPT
                                  !.trigger_time = trigmap[r].trigger_time]
                          ELSE trigmap[t]]
        ELSE group' = [group EXCEPT !.j = @ + 1] /\ UNCHANGED <<trigs, trigmap>>
  BY <1>a DEF Replace
<1>1. /\ phase \in Passes /\ phase' = phase /\ Scanning /\ Searching
      /\ group \in Locals /\ trigs \in Seq(Triggers) /\ Len(trigs) \in Nat
      /\ group.j \in 1 .. Len(trigs) /\ r \in Triggers /\ group.i >= 1
      /\ n \in Nat /\ n >= 1 /\ n <= Len(trigs) /\ Belongs(r)
  BY <1>a, <1>b, CandidateBehind DEF Replace
<1>2. /\ k \in 1 .. n /\ ChanOf[trigs[k]] = ChanOf[r] /\ trigs[k] \in Triggers
      /\ StaOf[trigs[k]] = StaOf[r]
  <2>1. k \in 1 .. n /\ ChanOf[trigs[k]] = ChanOf[r]
    BY <1>b DEF SameChannel
  <2>2. k \in 1 .. Len(trigs)
    BY <2>1, <1>1
  <2>3. trigs[k] \in Triggers
    BY <2>2, <1>1
  <2>4. StaOf[trigs[k]] = StaOf[r]
    BY <2>1, <2>3, <1>1, E2AssociatorAssumption
  <2> QED  BY <2>1, <2>3, <2>4
<1>3. /\ \A l \in 1 .. n : trigs[l] \in group.used
      /\ \A l, m \in 1 .. n : l # m => ChanOf[trigs[l]] # ChanOf[trigs[m]]
      /\ group.sta_trigs \subseteq {trigs[l] : l \in 1 .. n}
      /\ Members = {trigs[l] : l \in 1 .. n}
  BY <1>b, <1>1 DEF GroupOk, Members
<1>4. CASE WorstMisfit(r) < WorstMisfit(trigs[k])
  <2>1. /\ r \in Unassociated /\ r \in Live /\ r \notin group.used
        /\ \A t \in WithStation(r) : t \in Unassociated /\ t \in Live
        /\ WithStation(r) \subseteq group.sta_trigs \cup {r}
        /\ \A t, x \in WithStation(r) :
             Fits(t, x) /\ (t # x => StaOf[t] # StaOf[x])
    BY <1>a, <1>1, WithStationOk
  <2>2. /\ trigs' = [trigs EXCEPT ![k] = r] /\ group' = Taken(r)
        /\ trigmap' =
             IF Cardinality(group.sta_trigs) > RelocateSpan THEN trigmap
             ELSE [t \in Live |->
                     IF /\ t \in (Members \ {trigs[k]}) \cup {r}
                        /\ trigmap[t].trigger_time < trigmap[r].trigger_time
                     THEN [trigmap[t] EXCEPT
                             !.trigger_time = trigmap[r].trigger_time]
                     ELSE trigmap[t]]
    BY <1>c, <1>4
  <2>3. WithStation(r) \subseteq Triggers
    BY <2>1 DEF TypeOK
  <2>4. /\ group' \in Locals /\ group'.i = group.i /\ group'.j = group.j + 1
        /\ group'.num = n /\ group'.sta_trigs = WithStation(r)
        /\ group'.used = group.used \cup {r}
    BY <1>b, <1>1, <2>2, <2>3, TakenType
  <2>5. /\ trigs' \in Seq(Triggers) /\ Len(trigs') = Len(trigs)
        /\ trigs'[k] = r /\ \A l \in 1 .. n : l # k => trigs'[l] = trigs[l]
    BY <1>1, <1>2, <2>2
  <2>6. PICK b \in Nat : b = trigmap[r].trigger_time
    BY <2>1, FitsTyped
  <2>7. ASSUME NEW t \in WithStation(r), t # r
        PROVE  t \in Members \ {trigs[k]}
    <3>1. t \in group.sta_trigs /\ StaOf[t] # StaOf[r]
      BY <2>1, <2>7 DEF WithStation
    <3> QED  BY <1>2, <1>3, <3>1
  <2>8. Live' = Live /\ \A t \in Live : SameFlags(trigmap'[t], trigmap[t])
                       /\ trigmap'[t] \in E2Triggers
    <3>1. CASE Cardinality(group.sta_trigs) > RelocateSpan
      BY <2>2, <3>1 DEF SameFlags, Live, TypeOK
    <3>2. CASE ~(Cardinality(group.sta_trigs) > RelocateSpan)
      <4>1. Live' = Live
        BY <2>2, <3>2 DEF Live
      <4>2. ASSUME NEW t \in Live
            PROVE  SameFlags(trigmap'[t], trigmap[t]) /\ trigmap'[t] \in E2Triggers
        <5>1. trigmap[t] \in E2Triggers
          BY DEF TypeOK
        <5>2. \/ trigmap'[t] = trigmap[t]
              \/ trigmap'[t] = [trigmap[t] EXCEPT !.trigger_time = b]
          BY <2>2, <2>6, <3>2
        <5> QED  BY <5>1, <5>2 DEF SameFlags, E2Triggers
      <4> QED  BY <4>1, <4>2
    <3> QED  BY <3>1, <3>2
  <2>9. ASSUME NEW t \in WithStation(r), NEW x \in WithStation(r)
        PROVE  Fits(t, x)'
    <3>1. Fits(t, x) /\ t \in Live /\ x \in Live
      BY <2>1
    <3>2. CASE Cardinality(group.sta_trigs) > RelocateSpan
      BY <2>2, <3>1, <3>2 DEF Fits, TimeDif
    <3>3. CASE ~(Cardinality(group.sta_trigs) > RelocateSpan)
      <4>1. ASSUME NEW y \in WithStation(r)
            PROVE  trigmap'[y].trigger_time =
                     IF trigmap[y].trigger_time < b THEN b
                     ELSE trigmap[y].trigger_time
        <5>1. y \in Live /\ y \in (Members \ {trigs[k]}) \cup {r}
              /\ trigmap[y] \in E2Triggers
          BY <2>1, <2>7 DEF TypeOK
        <5>2. trigmap'[y] =
                IF trigmap[y].trigger_time < b
                THEN [trigmap[y] EXCEPT !.trigger_time = b] ELSE trigmap[y]
          BY <2>2, <2>6, <3>3, <5>1
        <5> QED  BY <5>1, <5>2 DEF E2Triggers
      <4> QED  BY <3>1, <4>1, RaisedTimesFit
    <3> QED  BY <3>2, <3>3
  <2>10. Owned' /\ Unassociated' = Unassociated
    BY <1>1, <2>8, OwnedInSearch DEF Passes
  <2>11. TypeOK'
    BY <1>1, <2>4, <2>5, <2>8 DEF Searching, reading, TypeOK
  <2>12. Members' = {trigs'[l] : l \in 1 .. n}
    BY <2>4 DEF Members
  <2>13. \A l \in 1 .. n : trigs'[l] \in group.used \cup {r}
    BY <1>3, <2>5
  <2>14. \A l \in 1 .. n : ChanOf[trigs'[l]] = ChanOf[trigs[l]]
    BY <1>2, <2>5
  <2>15. \A l, m \in 1 .. n : l # m => ChanOf[trigs'[l]] # ChanOf[trigs'[m]]
    BY <1>3, <2>14
  <2>16. WithStation(r) \subseteq Members'
    <3>1. r \in Members'
      BY <1>2, <2>5, <2>12
    <3>2. ASSUME NEW t \in WithStation(r), t # r PROVE t \in Members'
      <4>1. PICK l \in 1 .. n : t = trigs[l] /\ l # k
        BY <1>3, <2>7, <3>2
      <4> QED  BY <2>5, <2>12, <4>1
    <3> QED  BY <3>1, <3>2
  <2>17. n <= Len(trigs') /\ group'.j >= 1
    BY <1>1, <2>4, <2>5
  <2>18. GroupOk'
    BY <1>1, <2>1, <2>4, <2>9, <2>10, <2>13, <2>15, <2>16, <2>17 DEF GroupOk
  <2> QED  BY <2>10, <2>11, <2>18
<1>5. CASE ~(WorstMisfit(r) < WorstMisfit(trigs[k]))
  <2>1. /\ group' = [group EXCEPT !.j = @ + 1] /\ trigs' = trigs
        /\ trigmap' = trigmap
    BY <1>c, <1>5
  <2>2. Owned' /\ Unassociated' = Unassociated
    BY <1>1, <2>1, OwnedInSearch DEF Live, SameFlags, Passes
  <2>3. /\ group' \in Locals /\ group'.i = group.i /\ group'.num = group.num
        /\ group'.j >= 1 /\ group'.sta_trigs = group.sta_trigs
        /\ group'.used = group.used
    BY <1>1, <2>1 DEF Locals
  <2>4. TypeOK'
    BY <1>1, <2>1, <2>3 DEF Searching, reading, TypeOK, Live
  <2>5. GroupOk'
    BY <1>1, <2>1, <2>2, <2>3 DEF GroupOk, Scanning, Members, Fits, TimeDif
  <2> QED  BY <2>2, <2>4, <2>5
<1> QED  BY <1>4, <1>5

LEMMA ScanAgainInv ==
  ASSUME IndInv, ScanAgain PROVE IndInv'
<1> USE DEF IndInv
<1>1. /\ phase \in Passes /\ phase' = phase /\ Scanning /\ Searching
      /\ group \in Locals /\ trigs' = trigs /\ trigmap' = trigmap
      /\ group' = [group EXCEPT !.j = First, !.before = group.num]
      /\ First \in Nat /\ First >= 1
  BY DEF ScanAgain, Searching, owned, TypeOK, First, Locals
<1>2. Owned' /\ Unassociated' = Unassociated
  BY <1>1, OwnedInSearch DEF Live, SameFlags, Passes
<1>3. /\ group' \in Locals /\ group'.i = group.i /\ group'.num = group.num
      /\ group'.j >= 1 /\ group'.sta_trigs = group.sta_trigs
      /\ group'.used = group.used
  BY <1>1 DEF Locals
<1>4. TypeOK'
  BY <1>1, <1>3 DEF Searching, reading, TypeOK, Live
<1>5. GroupOk'
  BY <1>1, <1>2, <1>3 DEF GroupOk, Scanning, Members, Fits, TimeDif
<1> QED  BY <1>2, <1>4, <1>5

LEMMA NextSeedInv ==
  ASSUME IndInv, NextSeed \/ NextPass PROVE IndInv'
<1> USE DEF IndInv
<1>1. /\ phase' \in {"forward", "backward", "two"} /\ Searching
      /\ group \in Locals /\ trigs' = trigs /\ trigmap' = trigmap
      /\ group' = [NoGroup EXCEPT !.i = group.i + 1] \/ group' = NoGroup
  BY DEF NextSeed, NextPass, ScanEnds, Passes, Searching, owned, TypeOK
<1>2. Owned'
  BY <1>1, OwnedInSearch DEF Live, SameFlags
<1>3. group' \in Locals /\ group'.i >= 1 /\ group'.num = 0
  BY <1>1 DEF Locals, NoGroup
<1>4. TypeOK'
  BY <1>1, <1>3 DEF Searching, reading, TypeOK, Live, Phases, Passes
<1>5. GroupOk'
  BY <1>3 DEF GroupOk, Scanning
<1> QED  BY <1>2, <1>4, <1>5

(* The event of a group: its triggers, one of a channel, and among them    *)
(* sta_trigs, which fit.                                                   *)
LEMMA NewMultiStationInv ==
  ASSUME IndInv, NewMultiStation
  PROVE  /\ IndInv'
         /\ \A e \in DOMAIN eventlist' \ DOMAIN eventlist : HasGroup(e)'
<1> USE DEF IndInv
<1>1. /\ phase \in Passes /\ Scanning /\ EnoughTrigs /\ InsertEvent(Members)
      /\ group' = NoGroup
      /\ UNCHANGED <<reading, old, updated_trigs, trigs, tried>>
  BY DEF NewMultiStation, ScanEnds
<1>2. /\ \A k, l \in 1 .. group.num : k # l => ChanOf[trigs[k]] # ChanOf[trigs[l]]
      /\ group.sta_trigs \subseteq Members \cap Unassociated
      /\ \A t, r \in group.sta_trigs :
           Fits(t, r) /\ (t # r => StaOf[t] # StaOf[r])
  BY <1>1 DEF GroupOk
<1>3. \A t, r \in Members \cap Unassociated : ChanOf[t] = ChanOf[r] => t = r
  BY <1>2 DEF Members
<1>4. /\ Owned'
      /\ DOMAIN eventlist' = DOMAIN eventlist \cup {next_eventid}
      /\ next_eventid \in EventIds
      /\ eventlist'[next_eventid].triggers = Members \cap Unassociated
      /\ Live' = Live
      /\ \A e \in DOMAIN eventlist' : eventlist'[e] \in Events
      /\ \A t \in Live : trigmap'[t] \in E2Triggers
           /\ trigmap'[t].trigger_time = trigmap[t].trigger_time
      /\ next_eventid' \in Nat \ {0} /\ evid' \in EventIds \cup {0}
  BY <1>1, <1>3, InsertEventOwned
<1>5. phase' = "update"
  BY <1>1 DEF InsertEvent
<1>6. NoGroup \in Locals
  BY DEF NoGroup, Locals
<1>7. TypeOK'
  BY <1>1, <1>4, <1>5, <1>6 DEF reading, TypeOK, Phases
<1>8. GroupOk'
  BY <1>5 DEF GroupOk, Passes
<1>9. ASSUME NEW e \in DOMAIN eventlist' \ DOMAIN eventlist PROVE HasGroup(e)'
  <2>1. e = next_eventid
    BY <1>4
  <2>2. PICK R : R = group.sta_trigs
    OBVIOUS
  <2>3. R \subseteq eventlist'[e].triggers
    BY <1>2, <1>4, <2>1, <2>2
  <2>4. R \subseteq Live /\ R \subseteq Triggers
    BY <1>2, <2>2 DEF Unassociated, TypeOK
  <2>5. Cardinality(Stations(R)) >= MinTrigs
    BY <1>1, <1>2, <2>2, <2>4, StationsCounted DEF EnoughTrigs
  <2>6. \A t, r \in R : Fits(t, r)'
    BY <1>2, <1>4, <2>2, <2>4 DEF Fits, TimeDif
  <2> QED  BY <2>3, <2>5, <2>6 DEF HasGroup
<1> QED  BY <1>4, <1>7, <1>8, <1>9

-----------------------------------------------------------------------------
(* The search makes no event but in NewMultiStation.                       *)
LEMMA SearchMakesNoEvent ==
  ASSUME StartSeed \/ ConsiderNext \/ ScanAgain \/ NextSeed \/ NextPass
  PROVE  eventlist' = eventlist
BY DEF StartSeed, ConsiderNext, ScanAgain, NextSeed, NextPass, owned

LEMMA SearchInv ==
  ASSUME IndInv, StartSeed \/ ConsiderNext \/ ScanAgain \/ NextSeed \/ NextPass
  PROVE  IndInv'
<1>1. CASE ConsiderNext
  BY <1>1, PassInv, EnlargeInv, ReplaceInv DEF ConsiderNext
<1> QED  BY <1>1, StartSeedInv, ScanAgainInv, NextSeedInv

LEMMA NextInv == IndInv /\ [Next]_vars => IndInv'
<1> SUFFICES ASSUME IndInv, [Next]_vars PROVE IndInv'
  OBVIOUS
<1>1. CASE Main
  <2>1. CASE \E t, r \in Triggers : NewTwoStation(t, r)
    BY <2>1, NewTwoStationInv
  <2>2. CASE \E t \in Triggers : NewSingleStation(t)
    BY <2>2, NewSingleStationInv
  <2>3. CASE \E gone \in SUBSET DOMAIN eventlist : Expire(gone)
    BY <2>3, ExpireInv
  <2> QED  BY <1>1, <2>1, <2>2, <2>3, ReadInv, CollectInv, JoinInv, SearchInv,
              NewMultiStationInv, NothingFoundInv, UpdateEventsInv DEF Main
<1>2. CASE Bus
  BY <1>2, ArriveInv DEF Bus
<1>3. CASE \E t \in Triggers : Age(t)
  BY <1>3, AgeInv
<1>4. CASE UNCHANGED vars
  <2>1. TypeOK'
    BY <1>4 DEF vars, IndInv, TypeOK, Live
  <2>2. Owned'
    BY <1>4, OwnedKept DEF vars, IndInv, Live, SameFlags, Owned
  <2>3. GroupOk'
    BY <1>4 DEF vars, IndInv, GroupOk, Scanning, Members, Unassociated, Live, Fits,
       TimeDif
  <2> QED  BY <2>1, <2>2, <2>3 DEF IndInv
<1> QED  BY <1>1, <1>2, <1>3, <1>4 DEF Next

(* The inductive invariant, for any triggers, stations and limits.         *)
THEOREM Invariance == Spec => []IndInv
BY InitInv, NextInv, PTL DEF Spec

(* The type invariant; with it the search never leaves the array of        *)
(* triggers, whatever it overwrites (GroupOk).                             *)
THEOREM TypeCorrect == Spec => []TypeOK
<1>1. IndInv => TypeOK
  BY DEF IndInv
<1> QED  BY <1>1, Invariance, PTL

(* trigmap and the events agree on who owns a trigger: deleteEventTriggers *)
(* and removeOldTriggers delete none that is in an event that stays.       *)
THEOREM OneOwner == Spec => []TriggersOwned
<1>1. IndInv => TriggersOwned
  BY DEF IndInv, Owned
<1> QED  BY <1>1, Invariance, PTL

(* updateEvents reads no trigger that was deleted.                         *)
THEOREM NoDeletedTriggerUpdated == Spec => []UpdatedAlive
<1>1. IndInv => UpdatedAlive
  BY DEF IndInv, Owned
<1> QED  BY <1>1, Invariance, PTL

(* No event has two triggers of a channel, in whichever of the five ways   *)
(* they came to it.                                                        *)
THEOREM ChannelsDistinct == Spec => []OneTriggerPerChannel
<1>1. IndInv => OneTriggerPerChannel
  BY DEF IndInv, Owned
<1> QED  BY <1>1, Invariance, PTL

(* Only NewMultiStation makes an event during the search.                  *)
LEMMA StepFits ==
  ASSUME IndInv, [Next]_vars, phase \in Passes,
         NEW e \in DOMAIN eventlist' \ DOMAIN eventlist
  PROVE  HasGroup(e)'
<1>1. CASE NewMultiStation
  BY <1>1, NewMultiStationInv
<1>2. CASE ~NewMultiStation
  <2>1. \/ StartSeed \/ ConsiderNext \/ ScanAgain \/ NextSeed \/ NextPass
        \/ Bus \/ (\E t \in Triggers : Age(t)) \/ UNCHANGED vars
    BY <1>2 DEF Next, Main, Passes, Read, Collect, Join, JoinNone, NewTwoStation,
       NewSingleStation, NoTwoStation, NoEvent, UpdateEvents, Expire
  <2>2. Bus \/ (\E t \in Triggers : Age(t)) \/ UNCHANGED vars =>
          eventlist' = eventlist
    BY DEF Bus, Arrive, Age, owned, vars
  <2>3. eventlist' = eventlist
    BY <2>1, <2>2, SearchMakesNoEvent
  <2> QED  BY <2>3
<1> QED  BY <1>1, <1>2

(* A multi-station event starts with MinTrigs stations that go together,   *)
(* though multiStationEvent overwrites what it reads and changes times.    *)
THEOREM GroupsGoTogether == Spec => EventsFit
<1>1. IndInv /\ [Next]_vars =>
        [(phase \in Passes) =>
          (\A e \in DOMAIN eventlist' \ DOMAIN eventlist : HasGroup(e)')]_vars
  BY StepFits
<1> QED  BY <1>1, Invariance, PTL DEF EventsFit, Spec
=============================================================================
