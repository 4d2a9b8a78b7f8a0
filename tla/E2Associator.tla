---------------------------- MODULE E2Associator ----------------------------
(***************************************************************************)
(* The triggers of EPIC (E2) and how they become events: E2AMQReader.cc    *)
(* (buffer of the bus thread), E2TriggerManager.cc (trigmap),              *)
(* E2Associator.cc (associateTriggers) and the part of E2EventManager.cc   *)
(* that owns the triggers of events, around the loop of E2ModuleManager.cc.*)
(*                                                                         *)
(* The bus thread fills trig_buffer; everything else is the main thread's. *)
(* Stations lie on a line and P waves travel one unit in one unit of time. *)
(* An instance lies within MultiStaMaxDist, so that of the two tests for a *)
(* trigger to enter a group only the travel times between stations count.  *)
(* What locate and countNeighbors make of a group is a verdict from        *)
(* outside, and so is which of the triggers near an event join it.         *)
(***************************************************************************)
EXTENDS Integers, Sequences, FiniteSets

CONSTANTS
  Triggers,       \* keys of trigmap: channel and second, 1 .. n
  StaOf, ChanOf,  \* [Triggers -> station], [Triggers -> channel]
  Pos, FoundAt,   \* [Triggers -> place of the station], [-> trigger time]
  EventIds,       \* the ids getNewEventid may hand out, a bound
  MinTrigs,       \* MultiStaMinTrigs
  StaTTAllowance,
  EnoughStations, \* no trigger is added to a group of this many stations: 6
  RelocateSpan,   \* up to this many stations replace moves the times: 3
  UseTwoStations, UseSingleStation,
  MaxStaRelocate, \* an event of more stations is not relocated
  Verdicts,       \* what the criteria of a new event may say
  Enough,         \* samples after which a trigger is no longer WAITING
  MaxSamples,     \* bound of the samples of a message
  MaxBuffer,      \* bound of trig_buffer
  Memory          \* newTrigParam remembers the messages of so many seconds

VARIABLES
  phase,        \* the step of the loop that comes next
  recent,       \* [trigger -> samples of its last message], trig_time_map
  trig_buffer,
  trigmap,      \* [trigger -> its E2Trigger]
  old,          \* triggers past UnassocTriggerTimeout
  eventlist,    \* [id -> event]
  next_eventid,
  evid,         \* what associateTriggers returned, 0 for none
  updated_trigs,
  trigs,        \* the array that holds the collected triggers AND the group
  group,        \* the locals of multiStationEvent, while it runs
  tried         \* history: what the last associateTriggers collected

reading == <<recent, trig_buffer>>
owned == <<trigmap, eventlist, next_eventid>>
vars == <<phase, recent, trig_buffer, trigmap, old, eventlist, next_eventid,
          evid, updated_trigs, trigs, group, tried>>

Passes == {"forward", "backward"}
Phases == {"read", "collect", "join", "two", "single", "update", "expire"}
            \cup Passes
Qualities == {"WAITING", "OKAY", "REJECT"}

ASSUME E2AssociatorAssumption ==
  /\ Triggers \subseteq Nat \ {0} /\ IsFiniteSet(Triggers)
  /\ Pos \in [Triggers -> Nat] /\ FoundAt \in [Triggers -> Nat]
  /\ DOMAIN StaOf = Triggers /\ DOMAIN ChanOf = Triggers
  /\ \A t, r \in Triggers : ChanOf[t] = ChanOf[r] => StaOf[t] = StaOf[r]
  /\ EventIds \subseteq Nat \ {0}
  /\ {MinTrigs, EnoughStations, Enough, MaxSamples, MaxBuffer} \subseteq Nat \ {0}
  /\ {StaTTAllowance, RelocateSpan, MaxStaRelocate, Memory} \subseteq Nat
  /\ {UseTwoStations, UseSingleStation} \subseteq BOOLEAN
  /\ Verdicts \subseteq BOOLEAN

Messages == [trig : Triggers, samples : 1 .. MaxSamples, quality : Qualities]

(* free: free_with_unassoc.  eventid 0: in no event.                       *)
E2Triggers ==
  [samples : 1 .. MaxSamples, quality : Qualities, eventid : EventIds \cup {0},
   associated : BOOLEAN, free : BOOLEAN, trigger_time : Nat]

Events == [triggers : SUBSET Triggers, split_ok : BOOLEAN]

(* Locals: the seed's index, the index of the candidate, num_event_trigs,  *)
(* its value when the scan began, sta_trigs and the triggers marked used.  *)
Locals ==
  [i : Nat, j : Nat, num : Nat, before : Nat,
   sta_trigs : SUBSET Triggers, used : SUBSET Triggers]

NoGroup == [i |-> 1, j |-> 0, num |-> 0, before |-> 0,
            sta_trigs |-> {}, used |-> {}]

-----------------------------------------------------------------------------
Abs(x) == IF x < 0 THEN -x ELSE x
Dist(t, r) == Abs(Pos[t] - Pos[r])
TimeDif(t, r) == Abs(trigmap[t].trigger_time - trigmap[r].trigger_time)
Misfit(t, r) == IF TimeDif(t, r) > Dist(t, r) THEN TimeDif(t, r) - Dist(t, r)
                                              ELSE 0

(* The difference of the trigger times is possible for one source.         *)
Fits(t, r) == TimeDif(t, r) <= Dist(t, r) + StaTTAllowance

Live == DOMAIN trigmap
Unassociated == {t \in Live : ~trigmap[t].associated}
Qualified == {t \in Unassociated : trigmap[t].quality = "OKAY"}
Channels(T) == {ChanOf[t] : t \in T}
Stations(T) == {StaOf[t] : t \in T}
Elements(s) == {s[k] : k \in DOMAIN s}

(* What qsort by trigger_time may leave: equal times come in any order.    *)
Sorted(T) ==
  {s \in [1 .. Cardinality(T) -> T] :
     \A k, l \in DOMAIN s : k < l =>
       /\ trigmap[s[k]].trigger_time <= trigmap[s[l]].trigger_time
       /\ s[k] # s[l]}

-----------------------------------------------------------------------------
Init ==
  /\ phase = "read"
  /\ recent = [t \in Triggers |-> 0]
  /\ trig_buffer = <<>>
  /\ trigmap = [t \in {} |-> {}]
  /\ old = {}
  /\ eventlist = [e \in {} |-> {}]
  /\ next_eventid = 1
  /\ evid = 0
  /\ updated_trigs = {}
  /\ trigs = <<>>
  /\ group = NoGroup
  /\ tried = {}

(* Bus thread, processTrigPacket: a message that newTrigParam finds to     *)
(* hold no more samples than the last of its trigger is dropped; triggers  *)
(* Memory seconds older than the latest are forgotten.  It runs at any     *)
(* time; what it fills is looked at in read, under the lock, so that       *)
(* nothing is lost in taking all of it to happen right before.             *)
Remembered(t, n) ==
  LET known == {x \in Triggers : recent[x] > 0} \cup {t}
  IN [x \in Triggers |->
        IF \E y \in known : FoundAt[y] - FoundAt[x] > Memory THEN 0
        ELSE IF x = t THEN n ELSE recent[x]]

Arrive(m) ==
  /\ phase = "read"
  /\ Len(trig_buffer) < MaxBuffer
  /\ recent[m.trig] < m.samples
  /\ recent' = Remembered(m.trig, m.samples)
  /\ trig_buffer' = Append(trig_buffer, m)
  /\ UNCHANGED <<phase, owned, old, evid, updated_trigs, trigs, group, tried>>

(* The messages of a trigger, and of which triggers there are any;         *)
(* readNormal skips those past UnassocTriggerTimeout.                      *)
MessagesOf(t) == {m \in Elements(trig_buffer) : m.trig = t}
Inserted == {m.trig : m \in Elements(trig_buffer)} \ old

(* The places of the last message of each trigger.                         *)
IsLast(last) ==
  \A t \in Inserted : \A k \in DOMAIN trig_buffer :
    /\ trig_buffer[last[t]].trig = t
    /\ trig_buffer[k].trig = t => k <= last[t]

(* Mutant of NewTrigger: the measurements are not copied.                  *)
NewTriggerEmpty(m) ==
  [samples |-> 0, quality |-> "WAITING", eventid |-> 0,
   associated |-> FALSE, free |-> FALSE, trigger_time |-> FoundAt[m.trig]]

NewTrigger(m) ==
  [samples |-> m.samples, quality |-> m.quality, eventid |-> 0,
   associated |-> FALSE, free |-> FALSE, trigger_time |-> FoundAt[m.trig]]

(* getQualityCode keeps its verdict once the trigger is in an event.       *)
UpdateMeasurements(x, m) ==
  [x EXCEPT !.samples = m.samples,
            !.quality = IF x.eventid = 0 THEN m.quality ELSE @]

(* read: waits a second at most when nothing is left to do, then inserts   *)
(* the whole buffer.  associateTriggers is called for a new trigger, not   *)
(* for an updated one.                                                     *)
Read ==
  /\ phase = "read"
  /\ LET differ(x, m) == x.samples # m.samples \/ x.quality # m.quality
         changed == {t \in Inserted : \E m \in MessagesOf(t) :
                       IF t \in Live THEN differ(trigmap[t], m)
                       ELSE \E n \in MessagesOf(t) : differ(n, m)}
     IN /\ \E last \in [Inserted -> DOMAIN trig_buffer] :
             /\ IsLast(last)
             /\ trigmap' = [t \in Live \cup Inserted |->
                  IF t \notin Inserted THEN trigmap[t]
                  ELSE IF t \in Live
                       THEN UpdateMeasurements(trigmap[t], trig_buffer[last[t]])
                       ELSE NewTrigger(trig_buffer[last[t]])]
        /\ updated_trigs' = updated_trigs \cup changed
  /\ phase' = IF Inserted \subseteq Live /\ evid = 0 THEN "update" ELSE "collect"
  /\ trig_buffer' = <<>>
  /\ UNCHANGED <<recent, old, eventlist, next_eventid, evid, trigs, group,
                 tried>>

-----------------------------------------------------------------------------
(* associateTriggers: the unassociated triggers of good quality.           *)
Collect ==
  /\ phase = "collect"
  /\ trigs' \in Sorted(Qualified)
  /\ tried' = Qualified
  /\ IF Qualified = {} THEN evid' = 0 /\ phase' = "update"
                       ELSE evid' = evid /\ phase' = "join"
  /\ UNCHANGED <<reading, old, owned, updated_trigs, group>>

Listed == Elements(trigs) \cap Unassociated

(* Trigger::associate.                                                     *)
Associated(T, e) ==
  [t \in Live |-> IF t \in T
                  THEN [trigmap[t] EXCEPT !.eventid = e, !.associated = TRUE]
                  ELSE trigmap[t]]

(* A trigger that may belong to an event but fails its percentage of       *)
(* stations is kept from other events, yet not used in this one.           *)
Reserve(x) == [x EXCEPT !.associated = TRUE, !.free = TRUE]

(* Mutant of MayJoin: the channels of the event are not looked at.         *)
MayJoinTwice(J, e) == J \subseteq Listed

(* containsChannel: one trigger per channel.                               *)
MayJoin(J, e) ==
  /\ J \subseteq Listed
  /\ Channels(J) \cap Channels(eventlist[e].triggers) = {}
  /\ Cardinality(Channels(J)) = Cardinality(J)

Open == {x \in DOMAIN eventlist : eventlist[x].split_ok}
Crowded(T) == Cardinality(Stations(T)) > MaxStaRelocate

(* Of the events looked at, S, those that a trial relocation may find to   *)
(* be split from another, and the triggers that one of them may reserve.   *)
MayBeSplit(S) ==
  {x \in S : \E t \in Listed : ~Crowded(eventlist[x].triggers \cup {t})}
MayBeReserved(S, J) ==
  {t \in Listed \ J : \E x \in S :
     /\ ChanOf[t] \notin Channels(eventlist[x].triggers)
     /\ Crowded(eventlist[x].triggers \cup J \cup {t})}

UpTo(e) == {x \in Open : x <= e}

(* associateToEvent, up to the first event e that triggers J join ...      *)
JoinEvent(e, J, split, reserved) ==
  /\ eventlist' = [x \in DOMAIN eventlist |->
                     [triggers |-> IF x = e THEN eventlist[x].triggers \cup J
                                   ELSE eventlist[x].triggers,
                      split_ok |-> eventlist[x].split_ok /\ x \notin split]]
  /\ trigmap' = [t \in Live |-> IF t \in reserved THEN Reserve(trigmap[t])
                                ELSE Associated(J, e)[t]]
  /\ evid' = e
  /\ phase' = "update"
  /\ UNCHANGED <<reading, old, next_eventid, updated_trigs, trigs, group, tried>>

(* ... or to the end: then the search for new events begins.               *)
JoinNone(split, reserved) ==
  /\ eventlist' = [x \in DOMAIN eventlist |->
                     [eventlist[x] EXCEPT !.split_ok = @ /\ x \notin split]]
  /\ trigmap' = [t \in Live |->
                   IF t \in reserved THEN Reserve(trigmap[t]) ELSE trigmap[t]]
  /\ phase' = "forward"
  /\ group' = NoGroup
  /\ UNCHANGED <<reading, old, next_eventid, evid, updated_trigs, trigs, tried>>

-----------------------------------------------------------------------------
(* multiStationEvent.  trigs is the array of associateTriggers, the        *)
(* parameter triggers the same array: growing the group overwrites it.     *)

Scanning == group.num > 0
First == IF phase = "forward" THEN group.i + 1 ELSE 1
Members == {trigs[k] : k \in 1 .. group.num}

(* The next seed: the first trigger from i on that is still unassociated.  *)
StartSeed ==
  /\ phase \in Passes /\ ~Scanning /\ group.i <= Len(trigs)
  /\ LET t == trigs[group.i]
     IN IF t \notin Unassociated
        THEN group' = [group EXCEPT !.i = @ + 1] /\ UNCHANGED trigs
        ELSE /\ trigs' = [trigs EXCEPT ![1] = t]
             /\ group' = [group EXCEPT !.j = First, !.num = 1, !.before = 1,
                                       !.sta_trigs = {t}, !.used = {t}]
  /\ UNCHANGED <<phase, reading, old, owned, evid, updated_trigs, tried>>

Candidate == trigs[group.j]
Skips(r) == r \notin Unassociated \/ r \in group.used
Belongs(r) == ~Skips(r) /\ \A t \in group.sta_trigs : Fits(r, t)
SameChannel(r) == {k \in 1 .. group.num : ChanOf[trigs[k]] = ChanOf[r]}

WithStation(r) ==
  {t \in group.sta_trigs : StaOf[t] # StaOf[r]} \cup {r}
Taken(r) ==
  [group EXCEPT !.j = @ + 1, !.sta_trigs = WithStation(r), !.used = @ \cup {r}]

(* Mutant of Enlarged: the trigger does not count as one of the group.     *)
EnlargedByUse(r) == [group EXCEPT !.j = @ + 1, !.sta_trigs = WithStation(r)]

Enlarged(r) == [Taken(r) EXCEPT !.num = @ + 1]

Pass(r) ==
  /\ ~Belongs(r)
  /\ group' = [group EXCEPT !.j = @ + 1]
  /\ UNCHANGED <<trigs, trigmap>>

Enlarge(r) ==
  /\ Belongs(r) /\ SameChannel(r) = {}
  /\ trigs' = [trigs EXCEPT ![group.num + 1] = r]
  /\ group' = Enlarged(r)
  /\ UNCHANGED trigmap

(* max_ttdif1, max_ttdif2.                                                 *)
WorstMisfit(t) ==
  LET dif == {Misfit(t, x) : x \in {y \in group.sta_trigs : ChanOf[y] # ChanOf[t]}}
  IN CHOOSE m \in dif \cup {0} : \A d \in dif : d <= m

(* Another trigger of a channel in the group: the one that fits better is  *)
(* kept.  In a small group its time becomes that of the earlier triggers.  *)
Replace(r) ==
  /\ Belongs(r)
  /\ \E k \in SameChannel(r) :
       IF WorstMisfit(r) < WorstMisfit(trigs[k])
       THEN /\ trigs' = [trigs EXCEPT ![k] = r]
            /\ group' = Taken(r)
            /\ trigmap' =
                 IF Cardinality(group.sta_trigs) > RelocateSpan THEN trigmap
                 ELSE [t \in Live |->
                         IF /\ t \in (Members \ {trigs[k]}) \cup {r}
                            /\ trigmap[t].trigger_time < trigmap[r].trigger_time
                         THEN [trigmap[t] EXCEPT
                                 !.trigger_time = trigmap[r].trigger_time]
                         ELSE trigmap[t]]
       ELSE group' = [group EXCEPT !.j = @ + 1] /\ UNCHANGED <<trigs, trigmap>>

Complete == Cardinality(group.sta_trigs) >= EnoughStations

ConsiderNext ==
  /\ phase \in Passes /\ Scanning /\ ~Complete /\ group.j <= Len(trigs)
  /\ Pass(Candidate) \/ Enlarge(Candidate) \/ Replace(Candidate)
  /\ UNCHANGED <<phase, reading, old, eventlist, next_eventid, evid,
                 updated_trigs, tried>>

(* Mutant of Grew: the scan is repeated whether it adds triggers or not.   *)
GrewOrNot == group.num >= group.before

(* The scan is repeated as long as it adds triggers.                       *)
Grew == group.num > group.before

ScanAgain ==
  /\ phase \in Passes /\ Scanning /\ ~Complete /\ group.j > Len(trigs)
  /\ Grew
  /\ group' = [group EXCEPT !.j = First, !.before = group.num]
  /\ UNCHANGED <<phase, reading, old, owned, evid, updated_trigs, trigs, tried>>

ScanEnds ==
  /\ phase \in Passes /\ Scanning
  /\ Complete \/ (group.j > Len(trigs) /\ ~Grew)

EnoughTrigs == Cardinality(group.sta_trigs) >= MinTrigs

(* insertEvent and addTrigger.                                             *)
InsertEvent(T) ==
  /\ next_eventid \in EventIds
  /\ eventlist' = [e \in DOMAIN eventlist \cup {next_eventid} |->
                     IF e = next_eventid
                     THEN [triggers |-> T \cap Unassociated, split_ok |-> TRUE]
                     ELSE eventlist[e]]
  /\ trigmap' = Associated(T \cap Unassociated, next_eventid)
  /\ next_eventid' = next_eventid + 1
  /\ evid' = next_eventid
  /\ phase' = "update"

NewMultiStation ==
  /\ ScanEnds /\ EnoughTrigs /\ TRUE \in Verdicts
  /\ InsertEvent(Members)
  /\ group' = NoGroup
  /\ UNCHANGED <<reading, old, updated_trigs, trigs, tried>>

NextSeed ==
  /\ ScanEnds /\ (~EnoughTrigs \/ FALSE \in Verdicts)
  /\ group' = [NoGroup EXCEPT !.i = group.i + 1]
  /\ UNCHANGED <<phase, reading, old, owned, evid, updated_trigs, trigs, tried>>

NextPass ==
  /\ phase \in Passes /\ ~Scanning /\ group.i > Len(trigs)
  /\ phase' = IF phase = "forward" THEN "backward" ELSE "two"
  /\ group' = NoGroup
  /\ UNCHANGED <<reading, old, owned, evid, updated_trigs, trigs, tried>>

(* twoStationEvent, with the triggers left in the array; the limits and    *)
(* the nearness of the two are data.                                       *)
NewTwoStation(t, r) ==
  /\ phase = "two" /\ UseTwoStations /\ TRUE \in Verdicts
  /\ {t, r} \subseteq Listed /\ StaOf[t] # StaOf[r]
  /\ InsertEvent({t, r})
  /\ UNCHANGED <<reading, old, updated_trigs, trigs, group, tried>>

NoTwoStation ==
  /\ phase = "two"
  /\ UseTwoStations /\ Cardinality(Stations(Listed)) > 1 => FALSE \in Verdicts
  /\ phase' = "single"
  /\ UNCHANGED <<reading, old, owned, evid, updated_trigs, trigs, group, tried>>

(* singleStationEvent.                                                     *)
NewSingleStation(t) ==
  /\ phase = "single" /\ UseSingleStation /\ TRUE \in Verdicts
  /\ t \in Listed
  /\ InsertEvent({t})
  /\ UNCHANGED <<reading, old, updated_trigs, trigs, group, tried>>

NoEvent ==
  /\ phase = "single"
  /\ UseSingleStation /\ Listed # {} => FALSE \in Verdicts
  /\ evid' = 0
  /\ phase' = "update"
  /\ UNCHANGED <<reading, old, owned, updated_trigs, trigs, group, tried>>

-----------------------------------------------------------------------------
(* Mutant of AfterUpdate: the list is cleared only when an event is        *)
(* updated.                                                                *)
AfterNeededUpdate(T) ==
  IF \E t \in T : t \in Live /\ trigmap[t].eventid \notin {0, evid} THEN {} ELSE T

(* updateEvents reads the event ids of the updated triggers, and forgets   *)
(* the triggers.  What it does to the events is E2Alert's.                 *)
AfterUpdate(T) == {}

UpdateEvents ==
  /\ phase = "update"
  /\ phase' = "expire"
  /\ updated_trigs' = AfterUpdate(updated_trigs)
  /\ UNCHANGED <<reading, old, owned, evid, trigs, group, tried>>

(* Mutant of Removed: every old trigger goes, whether in an event or not.  *)
RemovedWhenOld(gone) ==
  old \cup UNION {eventlist[e].triggers : e \in gone}

(* deleteEventTriggers and removeOldTriggers.                              *)
Removed(gone) ==
  {t \in Live \cap old : ~trigmap[t].associated \/ trigmap[t].free}
    \cup UNION {eventlist[e].triggers : e \in gone}

(* removeOldEvents and removeOldTriggers.                                  *)
Expire(gone) ==
  /\ phase = "expire"
  /\ phase' = "read"
  /\ eventlist' = [e \in DOMAIN eventlist \ gone |-> eventlist[e]]
  /\ trigmap' = [t \in Live \ Removed(gone) |-> trigmap[t]]
  /\ UNCHANGED <<reading, old, next_eventid, evid, updated_trigs, trigs, group,
                 tried>>

(* Time passes: triggers come of age in the order of their times.  Only    *)
(* read and removeOldTriggers look at the clock.                           *)
Age(t) ==
  /\ phase \in {"read", "expire"}
  /\ t \notin old
  /\ \A x \in Triggers : FoundAt[x] < FoundAt[t] => x \in old
  /\ old' = old \cup {t}
  /\ UNCHANGED <<phase, reading, owned, evid, updated_trigs, trigs, group, tried>>

-----------------------------------------------------------------------------
Join ==
  /\ phase = "join"
  /\ \/ \E split \in SUBSET MayBeSplit(Open) :
          \E reserved \in SUBSET MayBeReserved(Open, {}) :
            JoinNone(split, reserved)
     \/ \E e \in Open, J \in SUBSET Listed \ {{}} :
          /\ MayJoin(J, e)
          /\ \E split \in SUBSET MayBeSplit(UpTo(e)) :
               \E reserved \in SUBSET MayBeReserved(UpTo(e), J) :
                 JoinEvent(e, J, split, reserved)

Main ==
  \/ Read \/ Collect \/ Join
  \/ StartSeed \/ ConsiderNext \/ ScanAgain
  \/ NewMultiStation \/ NextSeed \/ NextPass
  \/ \E t, r \in Triggers : NewTwoStation(t, r)
  \/ \E t \in Triggers : NewSingleStation(t)
  \/ NoTwoStation \/ NoEvent
  \/ UpdateEvents
  \/ \E gone \in SUBSET DOMAIN eventlist : Expire(gone)

(* A message has a verdict on the quality once it holds Enough samples.    *)
Bus ==
  \E m \in Messages :
    /\ m.quality = "WAITING" <=> m.samples < Enough
    /\ Arrive(m)

Next == Main \/ Bus \/ \E t \in Triggers : Age(t)

Spec == Init /\ [][Next]_vars

(* The main thread runs.                                                   *)
FairSpec == Spec /\ WF_vars(Main)

-----------------------------------------------------------------------------
(* The types of the state.                                                 *)
TypeOK ==
  /\ phase \in Phases
  /\ recent \in [Triggers -> 0 .. MaxSamples]
  /\ trig_buffer \in Seq(Messages)
  /\ Live \subseteq Triggers /\ \A t \in Live : trigmap[t] \in E2Triggers
  /\ old \subseteq Triggers
  /\ DOMAIN eventlist \subseteq EventIds
  /\ \A e \in DOMAIN eventlist : eventlist[e] \in Events
  /\ next_eventid \in Nat \ {0}
  /\ evid \in EventIds \cup {0}
  /\ updated_trigs \subseteq Triggers
  /\ trigs \in Seq(Triggers)
  /\ group \in Locals
  /\ tried \subseteq Triggers

(* An event points to triggers that trigmap owns and that know it, and a   *)
(* trigger with an event is in that event and no other: what is deleted by *)
(* one of two functions is never reached through another container.        *)
TriggersOwned ==
  /\ \A e \in DOMAIN eventlist : \A t \in eventlist[e].triggers :
       t \in Live /\ trigmap[t].eventid = e
  /\ \A t \in Live :
       trigmap[t].eventid # 0 =>
         /\ trigmap[t].eventid \in DOMAIN eventlist
         /\ t \in eventlist[trigmap[t].eventid].triggers
         /\ trigmap[t].associated /\ ~trigmap[t].free

(* updated_trigs holds no trigger that was deleted.                        *)
UpdatedAlive == updated_trigs \subseteq Live

(* An event has one trigger of a channel, whichever way they came to it.   *)
OneTriggerPerChannel ==
  \A e \in DOMAIN eventlist : \A t, r \in eventlist[e].triggers :
    ChanOf[t] = ChanOf[r] => t = r

HasGroup(e) ==
  \E R \in SUBSET eventlist[e].triggers :
    /\ Cardinality(Stations(R)) >= MinTrigs
    /\ \A t, r \in R : Fits(t, r)

(* A multi-station event starts with MinTrigs stations whose trigger times *)
(* go together, although the group is overwritten, and times are changed,  *)
(* while it grows.                                                         *)
EventsFit ==
  [][(phase \in Passes) =>
       (\A e \in DOMAIN eventlist' \ DOMAIN eventlist : HasGroup(e)')]_vars

(* associateTriggers returns, and as long as it finds an event it is       *)
(* called again: that ends, although a group may be scanned many times.    *)
WorkEnds == phase = "collect" ~> phase = "read" /\ evid = 0

-----------------------------------------------------------------------------
(* What comments and epic.conf say, and the code does not do.              *)

(* epic.conf, MultiStaMinTrigs: the "Required number of triggers to create *)
(* an event".  A trigger with enough triggers around it, all of which fit  *)
(* it and each other, is not left alone.                                   *)
Neighbours(t) == {r \in tried \cap Unassociated : Fits(t, r)}
GroupsFound ==
  phase = "update" /\ evid = 0 =>
    \A t \in tried \cap Unassociated :
      ~ /\ Cardinality(Stations(Neighbours(t))) >= MinTrigs
        /\ Cardinality(Channels(Neighbours(t))) = Cardinality(Neighbours(t))
        /\ \A r, x \in Neighbours(t) : Fits(r, x)
=============================================================================
