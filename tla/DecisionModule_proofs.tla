----------------------- MODULE DecisionModule_proofs -----------------------
(***************************************************************************)
(* Proofs about the Decision Module, for every set of sources, ids and     *)
(* payloads and every setting of its limits.                               *)
(*                                                                         *)
(* The first part says what the operators of DMEvent do to the members of  *)
(* an event and that they keep its type.  The second part is the           *)
(* inductive invariant: the stored messages are partitioned by the current *)
(* events.  The third part adds to it that an event whose flag is clear is *)
(* settled, from which follows what the subscribers have been shown.       *)
(***************************************************************************)
EXTENDS DecisionModule, FiniteSetTheorems, TLAPS

(* A map of stored messages.                                               *)
MessageMap(msgs) ==
  /\ DOMAIN msgs \subseteq Keys
  /\ \A k \in DOMAIN msgs : msgs[k] \in Messages

(* A map of events.                                                        *)
EventMap(dm) == \A e \in DOMAIN dm : dm[e] \in DMEvents

-----------------------------------------------------------------------------
(* Forming the attributes anew keeps the type, the known members and       *)
(* everything but the members and the attributes.                          *)
LEMMA RecalculateLemma ==
  ASSUME NEW ev \in DMEvents, NEW msgs, MessageMap(msgs)
  PROVE  /\ Recalculate(ev, msgs) \in DMEvents
         /\ Recalculate(ev, msgs).algo_events = ev.algo_events \cap DOMAIN msgs
         /\ Recalculate(ev, msgs).version = ev.version
         /\ Recalculate(ev, msgs).category = ev.category
<1> DEFINE members == ev.algo_events \cap DOMAIN msgs
           used == Contributing(members)
           f == [k \in used |-> msgs[k].body]
           cur == IF used = {} THEN ev.current ELSE Combine(f)
<1>1. used \subseteq members /\ used \subseteq Keys
  BY DEF Contributing, MessageMap
<1>2. cur \in Attributes
  <2>1. CASE used = {}
    BY <2>1 DEF DMEvents
  <2>2. CASE used # {}
    <3>1. f \in [used -> Payloads]
      BY <1>1 DEF MessageMap, Messages
    <3>2. used \in (SUBSET Keys) \ {{}}
      BY <1>1, <2>2
    <3>3. Combine(f) \in Attributes
      BY <3>1, <3>2, CombineAssumption
    <3> QED BY <2>2, <3>3
  <2> QED BY <2>1, <2>2
<1>3. Recalculate(ev, msgs) = [ev EXCEPT !.algo_events = members, !.current = cur]
  BY DEF Recalculate, DMEvents
<1>4. members \in SUBSET Keys
  BY DEF MessageMap
<1> HIDE DEF members, cur
<1> QED BY <1>2, <1>3, <1>4 DEF DMEvents, members

(* The same of every operation on one event.                               *)
LEMMA AddLemma ==
  ASSUME NEW ev \in DMEvents, NEW msgs, MessageMap(msgs),
         NEW k \in DOMAIN msgs, ev.algo_events \subseteq DOMAIN msgs
  PROVE  /\ AddAlgoEvent(ev, k, msgs) \in DMEvents
         /\ AddAlgoEvent(ev, k, msgs).algo_events = ev.algo_events \cup {k}
         /\ AddAlgoEvent(ev, k, msgs).version = ev.version
         /\ AddAlgoEvent(ev, k, msgs).category = ev.category
<1> DEFINE joined == [ev EXCEPT
                 !.algo_events = @ \cup {k},
                 !.previous_algo_events =
                    IF k \in ev.algo_events THEN @ ELSE ev.algo_events \cup {k}]
<1>1. k \in Keys
  BY DEF MessageMap
<1>2. /\ joined \in DMEvents
      /\ joined.algo_events = ev.algo_events \cup {k}
      /\ joined.version = ev.version
      /\ joined.category = ev.category
  BY <1>1 DEF DMEvents
<1>3. AddAlgoEvent(ev, k, msgs) = Recalculate(joined, msgs)
  BY DEF AddAlgoEvent
<1> HIDE DEF joined
<1> QED BY <1>2, <1>3, RecalculateLemma

LEMMA TryLemma ==
  ASSUME NEW ev \in DMEvents, NEW msgs, MessageMap(msgs),
         NEW k \in DOMAIN msgs, ev.algo_events \subseteq DOMAIN msgs
  PROVE  /\ TryAlgoEvent(ev, k, msgs) \in DMEvents
         /\ TryAlgoEvent(ev, k, msgs).algo_events = ev.algo_events \cup {k}
         /\ TryAlgoEvent(ev, k, msgs).version = ev.version
         /\ TryAlgoEvent(ev, k, msgs).category = ev.category
<1> DEFINE joined == [ev EXCEPT !.algo_events = @ \cup {k}]
<1>1. k \in Keys
  BY DEF MessageMap
<1>2. /\ joined \in DMEvents
      /\ joined.algo_events = ev.algo_events \cup {k}
      /\ joined.version = ev.version
      /\ joined.category = ev.category
  BY <1>1 DEF DMEvents
<1>3. TryAlgoEvent(ev, k, msgs) = Recalculate(joined, msgs)
  BY DEF TryAlgoEvent
<1> HIDE DEF joined
<1> QED BY <1>2, <1>3, RecalculateLemma

LEMMA RemoveLemma ==
  ASSUME NEW ev \in DMEvents, NEW msgs, MessageMap(msgs), NEW k,
         ev.algo_events \subseteq DOMAIN msgs
  PROVE  /\ RemoveAlgoEvent(ev, k, msgs) \in DMEvents
         /\ RemoveAlgoEvent(ev, k, msgs).algo_events = ev.algo_events \ {k}
         /\ RemoveAlgoEvent(ev, k, msgs).version = ev.version
         /\ RemoveAlgoEvent(ev, k, msgs).category = ev.category
<1> DEFINE left == [ev EXCEPT !.algo_events = @ \ {k}]
<1>1. /\ left \in DMEvents
      /\ left.algo_events = ev.algo_events \ {k}
      /\ left.version = ev.version
      /\ left.category = ev.category
  BY DEF DMEvents
<1>2. RemoveAlgoEvent(ev, k, msgs) =
        IF k \in ev.algo_events THEN Recalculate(left, msgs) ELSE ev
  BY DEF RemoveAlgoEvent
<1> HIDE DEF left
<1>3. /\ Recalculate(left, msgs) \in DMEvents
      /\ Recalculate(left, msgs).algo_events = ev.algo_events \ {k}
      /\ Recalculate(left, msgs).version = ev.version
      /\ Recalculate(left, msgs).category = ev.category
  BY <1>1, RecalculateLemma
<1> QED BY <1>2, <1>3

LEMMA UpdateLemma ==
  ASSUME NEW ev \in DMEvents, NEW msgs, MessageMap(msgs),
         ev.algo_events \subseteq DOMAIN msgs
  PROVE  /\ UpdateEvent(ev, msgs) \in DMEvents
         /\ UpdateEvent(ev, msgs).algo_events = ev.algo_events
         /\ UpdateEvent(ev, msgs).version = ev.version
         /\ UpdateEvent(ev, msgs).category = ev.category
<1> DEFINE flagged == [ev EXCEPT !.publish_flag = TRUE]
<1>1. /\ flagged \in DMEvents
      /\ flagged.algo_events = ev.algo_events
      /\ flagged.version = ev.version
      /\ flagged.category = ev.category
  BY DEF DMEvents
<1>2. UpdateEvent(ev, msgs) = Recalculate(flagged, msgs)
  BY DEF UpdateEvent
<1> HIDE DEF flagged
<1>3. flagged.algo_events \cap DOMAIN msgs = ev.algo_events
  BY <1>1
<1> QED BY <1>1, <1>2, <1>3, RecalculateLemma

LEMMA TrialLemma ==
  ASSUME NEW ev \in DMEvents, NEW msgs, MessageMap(msgs),
         NEW k \in DOMAIN msgs, ev.algo_events \subseteq DOMAIN msgs,
         k \notin ev.algo_events
  PROVE  /\ AfterTrial(ev, k, msgs) \in DMEvents
         /\ AfterTrial(ev, k, msgs).algo_events = ev.algo_events
         /\ AfterTrial(ev, k, msgs).version = ev.version
         /\ AfterTrial(ev, k, msgs).category = ev.category
<1> DEFINE trial == TryAlgoEvent(ev, k, msgs)
<1>1. /\ trial \in DMEvents
      /\ trial.algo_events = ev.algo_events \cup {k}
      /\ trial.version = ev.version
      /\ trial.category = ev.category
  BY TryLemma
<1>2. AfterTrial(ev, k, msgs) = RemoveAlgoEvent(trial, k, msgs) \/
      AfterTrial(ev, k, msgs) = ev
  BY DEF AfterTrial
<1> HIDE DEF trial
<1>3. trial.algo_events \subseteq DOMAIN msgs
  BY <1>1
<1>4. /\ RemoveAlgoEvent(trial, k, msgs) \in DMEvents
      /\ RemoveAlgoEvent(trial, k, msgs).algo_events = trial.algo_events \ {k}
      /\ RemoveAlgoEvent(trial, k, msgs).version = trial.version
      /\ RemoveAlgoEvent(trial, k, msgs).category = trial.category
  BY <1>1, <1>3, RemoveLemma
<1>5. trial.algo_events \ {k} = ev.algo_events
  BY <1>1
<1> QED BY <1>1, <1>2, <1>4, <1>5

LEMMA PublishLemma ==
  ASSUME NEW ev \in DMEvents
  PROVE  /\ Content(ev) \in Contents
         /\ AfterPublish(ev) \in DMEvents
         /\ AfterPublish(ev).algo_events = ev.algo_events
         /\ AfterPublish(ev).category = ev.category
         /\ AfterPublish(ev).version =
              IF Publishes(ev) THEN ev.version + 1 ELSE ev.version
<1>1. Cardinality(ev.algo_events) \in Nat
  <2>1. ev.algo_events \subseteq Keys
    BY DEF DMEvents
  <2> QED BY <2>1, KeysAssumption, FS_Subset, FS_CardinalityType
<1>2. Content(ev) \in Contents
  BY <1>1 DEF Content, Contents, DMEvents
<1> DEFINE kept == IF PublishChangesOnly /\ Considered(ev) /\ MessageChanged(ev)
                   THEN Content(ev) ELSE ev.previous_message
           ver == IF Publishes(ev) THEN ev.version + 1 ELSE ev.version
           pub == IF Publishes(ev) THEN ev.current ELSE ev.published
<1>3. AfterPublish(ev) = [ev EXCEPT !.previous_message = kept,
                                    !.version = ver, !.published = pub]
  BY DEF AfterPublish, DMEvents
<1>4. kept \in Contents \cup {NotYet}
  BY <1>2 DEF DMEvents
<1>5. ver \in {-1} \cup Nat
  BY DEF DMEvents
<1>6. pub \in Attributes \cup {NotYet}
  BY DEF DMEvents
<1>7. ver = IF Publishes(ev) THEN ev.version + 1 ELSE ev.version
  OBVIOUS
<1> HIDE DEF kept, ver, pub
<1> QED BY <1>2, <1>3, <1>4, <1>5, <1>6, <1>7 DEF DMEvents

-----------------------------------------------------------------------------
(* Two maps of events with the same members, versions and categories.      *)
Alike(dm2, dm1) ==
  /\ DOMAIN dm2 = DOMAIN dm1
  /\ \A e \in DOMAIN dm1 : /\ dm2[e] \in DMEvents
                           /\ dm2[e].algo_events = dm1[e].algo_events
                           /\ dm2[e].version = dm1[e].version
                           /\ dm2[e].category = dm1[e].category

(* Every event holds stored messages only.                                 *)
Known(dm, msgs) == \A e \in DOMAIN dm : dm[e].algo_events \subseteq DOMAIN msgs

(* What the operations on the whole map do to members and versions.        *)
LEMMA FlagsResetLemma ==
  ASSUME EventMap(dm_events)
  PROVE  Alike(FlagsReset, dm_events)
BY DEF EventMap, Alike, FlagsReset, DMEvents

LEMMA SetPublishLemma ==
  ASSUME NEW dm, NEW msgs, NEW k, EventMap(dm), MessageMap(msgs), Known(dm, msgs)
  PROVE  Alike(SetDMEventPublish(dm, k, msgs), dm)
<1> SUFFICES ASSUME NEW e \in DOMAIN dm
             PROVE  LET ev == SetDMEventPublish(dm, k, msgs)[e]
                    IN /\ ev \in DMEvents
                       /\ ev.algo_events = dm[e].algo_events
                       /\ ev.version = dm[e].version
                       /\ ev.category = dm[e].category
  BY DEF Alike, SetDMEventPublish
<1>1. dm[e] \in DMEvents /\ dm[e].algo_events \subseteq DOMAIN msgs
  BY DEF EventMap, Known
<1>2. /\ UpdateEvent(dm[e], msgs) \in DMEvents
      /\ UpdateEvent(dm[e], msgs).algo_events = dm[e].algo_events
      /\ UpdateEvent(dm[e], msgs).version = dm[e].version
      /\ UpdateEvent(dm[e], msgs).category = dm[e].category
  BY <1>1, UpdateLemma
<1> QED BY <1>1, <1>2 DEF SetDMEventPublish

LEMMA AfterTrialsLemma ==
  ASSUME NEW dm, NEW msgs, NEW k \in DOMAIN msgs, EventMap(dm), MessageMap(msgs),
         Known(dm, msgs), \A e \in DOMAIN dm : k \notin dm[e].algo_events
  PROVE  Alike(AfterTrials(dm, k, msgs), dm)
<1> SUFFICES ASSUME NEW e \in DOMAIN dm
             PROVE  LET ev == AfterTrials(dm, k, msgs)[e]
                    IN /\ ev \in DMEvents
                       /\ ev.algo_events = dm[e].algo_events
                       /\ ev.version = dm[e].version
                       /\ ev.category = dm[e].category
  BY DEF Alike, AfterTrials
<1>1. dm[e] \in DMEvents /\ dm[e].algo_events \subseteq DOMAIN msgs
  BY DEF EventMap, Known
<1>2. /\ AfterTrial(dm[e], k, msgs) \in DMEvents
      /\ AfterTrial(dm[e], k, msgs).algo_events = dm[e].algo_events
      /\ AfterTrial(dm[e], k, msgs).version = dm[e].version
      /\ AfterTrial(dm[e], k, msgs).category = dm[e].category
  BY <1>1, TrialLemma
<1> QED BY <1>1, <1>2 DEF AfterTrials

LEMMA RemoveAlgoLemma ==
  ASSUME NEW dm, NEW msgs, NEW k, EventMap(dm), MessageMap(msgs), Known(dm, msgs)
  PROVE  /\ DOMAIN RemoveAlgo(dm, k, msgs) = DOMAIN dm
         /\ \A e \in DOMAIN dm :
              LET ev == RemoveAlgo(dm, k, msgs)[e]
              IN /\ ev \in DMEvents
                 /\ ev.algo_events = dm[e].algo_events \ {k}
                 /\ ev.version = dm[e].version
                 /\ ev.category = dm[e].category
<1> SUFFICES ASSUME NEW e \in DOMAIN dm
             PROVE  LET ev == RemoveAlgo(dm, k, msgs)[e]
                    IN /\ ev \in DMEvents
                       /\ ev.algo_events = dm[e].algo_events \ {k}
                       /\ ev.version = dm[e].version
                       /\ ev.category = dm[e].category
  BY DEF RemoveAlgo
<1> DEFINE left == RemoveAlgoEvent(dm[e], k, msgs)
<1>1. dm[e] \in DMEvents /\ dm[e].algo_events \subseteq DOMAIN msgs
  BY DEF EventMap, Known
<1>2. /\ left \in DMEvents
      /\ left.algo_events = dm[e].algo_events \ {k}
      /\ left.version = dm[e].version
      /\ left.category = dm[e].category
  BY <1>1, RemoveLemma
<1>3. RemoveAlgo(dm, k, msgs)[e] =
        IF k \in dm[e].algo_events THEN UpdateEvent(left, msgs) ELSE dm[e]
  BY DEF RemoveAlgo
<1> HIDE DEF left
<1>4. /\ UpdateEvent(left, msgs) \in DMEvents
      /\ UpdateEvent(left, msgs).algo_events = dm[e].algo_events \ {k}
      /\ UpdateEvent(left, msgs).version = dm[e].version
      /\ UpdateEvent(left, msgs).category = dm[e].category
  BY <1>1, <1>2, UpdateLemma
<1> QED BY <1>1, <1>3, <1>4

(* dm_events' is dm with k added to the event e, which may be a new one    *)
(* that takes the next id.                                                 *)
Joined(dm, k, e) ==
  /\ DOMAIN dm_events' = DOMAIN dm \cup {e}
  /\ EventMap(dm_events')
  /\ \A f \in DOMAIN dm \ {e} :
       /\ dm_events'[f].algo_events = dm[f].algo_events
       /\ dm_events'[f].version = dm[f].version
       /\ dm_events'[f].category = dm[f].category
  /\ dm_events'[e].category = k.cat
  /\ \/ /\ e \in DOMAIN dm /\ dm[e].category = k.cat /\ ~Conflicts(dm[e], k)
        /\ dm_events'[e].algo_events = dm[e].algo_events \cup {k}
        /\ dm_events'[e].version = dm[e].version
        /\ next_event_id' = next_event_id
     \/ /\ e = next_event_id /\ e \in EventIds
        /\ dm_events'[e].algo_events = {k}
        /\ dm_events'[e].version = -1
        /\ next_event_id' = next_event_id + 1

(* associateAlgorithmEvent: exactly one event gains the message.           *)
LEMMA AssociateLemma ==
  ASSUME NEW dm, NEW msgs, NEW k \in DOMAIN msgs, EventMap(dm), MessageMap(msgs),
         Known(dm, msgs), \A e \in DOMAIN dm : k \notin dm[e].algo_events,
         Associate(dm, k, msgs)
  PROVE  \E e : Joined(dm, k, e)
<1> DEFINE tried == AfterTrials(dm, k, msgs)
           existing == IF Fitting(dm, k, msgs) # {} THEN BestFit(dm, k, msgs)
                       ELSE Reusable(dm, k)
           Gains(ev) == Flagged(AddAlgoEvent(ev, k, msgs))
<1>1. Alike(tried, dm)
  BY AfterTrialsLemma
<1>2. /\ existing \subseteq DOMAIN dm
      /\ \A e \in existing : dm[e].category = k.cat /\ ~Conflicts(dm[e], k)
  BY DEF BestFit, Fitting, Tried, Reusable, Conflicts
<1>3. ASSUME NEW ev \in DMEvents, ev.algo_events \subseteq DOMAIN msgs
      PROVE  /\ Gains(ev) \in DMEvents
             /\ Gains(ev).algo_events = ev.algo_events \cup {k}
             /\ Gains(ev).version = ev.version
             /\ Gains(ev).category = ev.category
  <2>1. /\ AddAlgoEvent(ev, k, msgs) \in DMEvents
        /\ AddAlgoEvent(ev, k, msgs).algo_events = ev.algo_events \cup {k}
        /\ AddAlgoEvent(ev, k, msgs).version = ev.version
        /\ AddAlgoEvent(ev, k, msgs).category = ev.category
    BY <1>3, AddLemma
  <2> QED BY <2>1 DEF Flagged, DMEvents
<1>4. \A ev : Flagged(AddAlgoEvent(ev, k, msgs)) = Gains(ev)
  OBVIOUS
<1>5. \/ /\ existing # {}
         /\ \E e \in existing : dm_events' = Put(tried, e, Gains(tried[e]))
         /\ next_event_id' = next_event_id
      \/ /\ next_event_id \in EventIds
         /\ dm_events' = Put(tried, next_event_id, Gains(NewEvent(k, msgs)))
         /\ next_event_id' = next_event_id + 1
  BY DEF Associate
<1> HIDE DEF tried, existing, Gains
<1>6. CASE /\ existing # {}
           /\ \E e \in existing : dm_events' = Put(tried, e, Gains(tried[e]))
           /\ next_event_id' = next_event_id
  <2>1. PICK e \in existing : dm_events' = Put(tried, e, Gains(tried[e]))
    BY <1>6
  <2>2. e \in DOMAIN dm /\ dm[e].category = k.cat /\ ~Conflicts(dm[e], k)
    BY <1>2
  <2>3. /\ tried[e] \in DMEvents
        /\ tried[e].algo_events = dm[e].algo_events
        /\ tried[e].version = dm[e].version
        /\ tried[e].category = k.cat
        /\ tried[e].algo_events \subseteq DOMAIN msgs
    BY <1>1, <2>2 DEF Alike, Known
  <2>4. /\ Gains(tried[e]) \in DMEvents
        /\ Gains(tried[e]).algo_events = dm[e].algo_events \cup {k}
        /\ Gains(tried[e]).version = dm[e].version
        /\ Gains(tried[e]).category = k.cat
    BY <1>3, <2>3
  <2>5. /\ DOMAIN dm_events' = DOMAIN dm \cup {e}
        /\ dm_events'[e] = Gains(tried[e])
        /\ \A f \in DOMAIN dm \ {e} : dm_events'[f] = tried[f]
    BY <1>1, <2>1, <2>2 DEF Put, Alike
  <2>6. \A f \in DOMAIN dm \ {e} :
          /\ dm_events'[f] \in DMEvents
          /\ dm_events'[f].algo_events = dm[f].algo_events
          /\ dm_events'[f].version = dm[f].version
          /\ dm_events'[f].category = dm[f].category
    BY <1>1, <2>5 DEF Alike
  <2>7. EventMap(dm_events')
    BY <2>4, <2>5, <2>6 DEF EventMap
  <2> QED BY <1>6, <2>2, <2>4, <2>5, <2>6, <2>7 DEF Joined
<1>7. CASE /\ next_event_id \in EventIds
           /\ dm_events' = Put(tried, next_event_id, Gains(NewEvent(k, msgs)))
           /\ next_event_id' = next_event_id + 1
  <2> DEFINE e == next_event_id
             new == NewEvent(k, msgs)
  <2>1. /\ new \in DMEvents
        /\ new.algo_events = {}
        /\ new.version = -1
        /\ new.category = k.cat
    BY PayloadAssumption DEF NewEvent, DMEvents, MessageMap, Messages, Keys
  <2> HIDE DEF new
  <2>2. /\ Gains(new) \in DMEvents
        /\ Gains(new).algo_events = {k}
        /\ Gains(new).version = -1
        /\ Gains(new).category = k.cat
    BY <1>3, <2>1
  <2>3. /\ DOMAIN dm_events' = DOMAIN dm \cup {e}
        /\ dm_events'[e] = Gains(new)
        /\ \A f \in DOMAIN dm \ {e} : dm_events'[f] = tried[f]
    BY <1>1, <1>7 DEF Put, Alike, new
  <2>4. \A f \in DOMAIN dm \ {e} :
          /\ dm_events'[f] \in DMEvents
          /\ dm_events'[f].algo_events = dm[f].algo_events
          /\ dm_events'[f].version = dm[f].version
          /\ dm_events'[f].category = dm[f].category
    BY <1>1, <2>3 DEF Alike
  <2>5. EventMap(dm_events')
    BY <2>2, <2>3, <2>4 DEF EventMap
  <2> QED BY <1>7, <2>2, <2>3, <2>4, <2>5 DEF Joined
<1> QED BY <1>5, <1>6, <1>7

-----------------------------------------------------------------------------
(* The current events partition the stored messages.                       *)
Partition(dm, msgs) ==
  /\ Known(dm, msgs)
  /\ \A k \in DOMAIN msgs : \E e \in DOMAIN dm : k \in dm[e].algo_events
  /\ \A e, f \in DOMAIN dm :
       e # f => dm[e].algo_events \cap dm[f].algo_events = {}

(* A current event remembers the version last sent for its id, and nothing *)
(* is stored of the ids still to be given.                                 *)
VersionsAgree ==
  /\ \A e \in DOMAIN dm_events :
       IF e \in DOMAIN sent
       THEN sent[e].type # "DELETE" /\ sent[e].ver = dm_events[e].version
       ELSE dm_events[e].version = -1
  /\ \A e \in DOMAIN dm_events \cup DOMAIN sent : e < next_event_id

IndInv ==
  /\ TypeOK
  /\ Partition(dm_events, algo_messages)
  /\ free_algo_messages = {}
  /\ DeletedStaysAway
  /\ NoEmptyEventAtReceive
  /\ VersionsAgree
  /\ OneMessagePerSource

(* Events that lose messages, or nothing, have no two of a source.         *)
LEMMA NothingJoined ==
  ASSUME OneMessagePerSource, DOMAIN dm_events' \subseteq DOMAIN dm_events,
         \A e \in DOMAIN dm_events' :
           /\ dm_events'[e].algo_events \subseteq dm_events[e].algo_events
           /\ dm_events'[e].category = dm_events[e].category
  PROVE  OneMessagePerSource'
BY DEF OneMessagePerSource

LEMMA InitInv == Init => IndInv
<1> SUFFICES ASSUME Init PROVE IndInv
  OBVIOUS
<1> USE DEF Init
<1>1. 0 \in 0 .. MaxTime
  BY DecisionModuleAssumption
<1>2. TypeOK
  BY <1>1 DEF TypeOK, Phases
<1>3. Partition(dm_events, algo_messages)
  BY DEF Partition, Known
<1>4. /\ DeletedStaysAway /\ NoEmptyEventAtReceive /\ VersionsAgree
      /\ OneMessagePerSource
  BY DEF DeletedStaysAway, NoEmptyEventAtReceive, VersionsAgree,
     OneMessagePerSource
<1> QED BY <1>2, <1>3, <1>4 DEF IndInv

(* The invariant, taken apart for the lemmas above.                        *)
LEMMA Facts ==
  ASSUME IndInv
  PROVE  /\ MessageMap(algo_messages)
         /\ EventMap(dm_events)
         /\ Known(dm_events, algo_messages)
         /\ EventIds \subseteq Nat
         /\ next_event_id \notin DOMAIN dm_events
         /\ next_event_id \notin DOMAIN sent
<1>1. EventIds \subseteq Nat
  BY DecisionModuleAssumption
<1>2. \A e \in DOMAIN dm_events \cup DOMAIN sent : e < next_event_id /\ e \in Nat
  BY <1>1 DEF IndInv, VersionsAgree, TypeOK
<1>3. next_event_id \in Nat
  BY DEF IndInv, TypeOK
<1>4. next_event_id \notin DOMAIN dm_events \cup DOMAIN sent
  BY <1>2, <1>3
<1>5. MessageMap(algo_messages) /\ EventMap(dm_events)
  BY DEF IndInv, TypeOK, MessageMap, EventMap
<1>6. Known(dm_events, algo_messages)
  BY DEF IndInv, Partition
<1> QED BY <1>1, <1>4, <1>5, <1>6

LEMMA AlikeLemma ==
  ASSUME NEW dm2, NEW dm1, NEW msgs, Alike(dm2, dm1), Partition(dm1, msgs)
  PROVE  EventMap(dm2) /\ Partition(dm2, msgs)
BY DEF Alike, EventMap, Partition, Known

(* The events after processMessage has reset the flags.                    *)
LEMMA ResetFacts ==
  ASSUME IndInv
  PROVE  /\ Alike(FlagsReset, dm_events)
         /\ EventMap(FlagsReset)
         /\ Partition(FlagsReset, algo_messages)
         /\ Known(FlagsReset, algo_messages)
BY Facts, FlagsResetLemma, AlikeLemma DEF IndInv, Partition

-----------------------------------------------------------------------------
(* Each step of the loop preserves the invariant.                          *)
LEMMA ReceiveNothingInv == IndInv /\ ReceiveNothing => IndInv'
<1> SUFFICES ASSUME IndInv, ReceiveNothing PROVE IndInv'
  OBVIOUS
<1> USE DEF ReceiveNothing
<1>1. Alike(dm_events', dm_events) /\ EventMap(dm_events')
      /\ Partition(dm_events', algo_messages)
  BY ResetFacts
<1>2. TypeOK'
  BY <1>1 DEF IndInv, TypeOK, Alike, EventMap, Phases
<1>3. VersionsAgree'
  BY <1>1 DEF IndInv, VersionsAgree, Alike
<1>4. OneMessagePerSource'
  BY <1>1, NothingJoined DEF IndInv, Alike
<1> QED
  BY <1>1, <1>2, <1>3, <1>4 DEF IndInv, DeletedStaysAway, NoEmptyEventAtReceive

LEMMA ReceiveUpdateInv ==
  ASSUME NEW k \in Keys, NEW ver \in Versions, NEW body \in Payloads, IndInv,
         ReceiveUpdate(k, ver, body)
  PROVE  IndInv'
<1> USE DEF ReceiveUpdate
<1>1. /\ MessageMap(algo_messages')
      /\ DOMAIN algo_messages' = DOMAIN algo_messages
  BY Facts, DecisionModuleAssumption DEF Put, MessageMap, Messages
<1>2. /\ Alike(FlagsReset, dm_events) /\ EventMap(FlagsReset)
      /\ Known(FlagsReset, algo_messages')
  BY <1>1, ResetFacts DEF Known
<1>3. Alike(dm_events', FlagsReset)
  BY <1>1, <1>2, SetPublishLemma
<1>4. Alike(dm_events', dm_events)
  BY <1>2, <1>3 DEF Alike
<1>5. EventMap(dm_events') /\ Partition(dm_events', algo_messages)
  BY <1>4, AlikeLemma DEF IndInv
<1>6. Partition(dm_events', algo_messages')
  BY <1>1, <1>5 DEF Partition, Known
<1>7. free_algo_messages' = {}
  BY <1>6 DEF FreeAlgos, Partition
<1>8. TypeOK'
  BY <1>1, <1>4, <1>5, <1>7
  DEF IndInv, TypeOK, MessageMap, Alike, EventMap, Phases
<1>9. VersionsAgree'
  BY <1>4 DEF IndInv, VersionsAgree, Alike
<1>10. DeletedStaysAway' /\ NoEmptyEventAtReceive'
  BY <1>1 DEF IndInv, DeletedStaysAway, NoEmptyEventAtReceive
<1>11. OneMessagePerSource'
  BY <1>4, NothingJoined DEF IndInv, Alike
<1> QED BY <1>6, <1>7, <1>8, <1>9, <1>10, <1>11 DEF IndInv

LEMMA ReceiveNewInv ==
  ASSUME NEW k \in Keys, NEW ver \in Versions, NEW body \in Payloads, IndInv,
         ReceiveNew(k, ver, body)
  PROVE  IndInv'
<1>0. /\ phase' = "expire"
      /\ k \notin DOMAIN algo_messages /\ k \notin DOMAIN delete_messages
      /\ algo_messages' = Put(algo_messages, k, [ver |-> ver, body |-> body])
      /\ Associate(FlagsReset, k, algo_messages')
      /\ free_algo_messages' = FreeAlgos(dm_events', algo_messages')
      /\ UNCHANGED <<now, delete_messages, sent>>
  BY DEF ReceiveNew, Acceptable
<1>1. /\ MessageMap(algo_messages')
      /\ DOMAIN algo_messages' = DOMAIN algo_messages \cup {k}
      /\ k \in DOMAIN algo_messages'
  BY <1>0, Facts, DecisionModuleAssumption DEF Put, MessageMap, Messages
<1>2. /\ Alike(FlagsReset, dm_events) /\ EventMap(FlagsReset)
      /\ Partition(FlagsReset, algo_messages)
      /\ Known(FlagsReset, algo_messages)
  BY ResetFacts
<1>3. /\ Known(FlagsReset, algo_messages')
      /\ \A e \in DOMAIN FlagsReset : k \notin FlagsReset[e].algo_events
  BY <1>0, <1>1, <1>2 DEF Known
<1>4. PICK e : Joined(FlagsReset, k, e)
  BY <1>0, <1>1, <1>2, <1>3, AssociateLemma
<1> USE DEF Joined
<1>5. next_event_id \notin DOMAIN dm_events /\ next_event_id \notin DOMAIN sent
      /\ EventIds \subseteq Nat /\ next_event_id \in Nat \ {0}
  BY Facts DEF IndInv, TypeOK
<1>6. Partition(dm_events', algo_messages')
  <2>1. Known(dm_events', algo_messages')
    BY <1>1, <1>2, <1>4 DEF Known
  <2>2. ASSUME NEW j \in DOMAIN algo_messages'
        PROVE  \E f \in DOMAIN dm_events' : j \in dm_events'[f].algo_events
    <3>1. CASE j = k
      BY <1>4, <3>1
    <3>2. CASE j # k
      <4>1. PICK f \in DOMAIN FlagsReset : j \in FlagsReset[f].algo_events
        BY <1>1, <1>2, <3>2 DEF Partition
      <4>2. f \in DOMAIN dm_events'
        BY <1>4, <4>1
      <4>3. CASE f = e
        <5>1. e # next_event_id
          BY <1>2, <1>5, <4>1, <4>3 DEF Alike
        <5> QED BY <1>4, <4>1, <4>2, <4>3, <5>1
      <4>4. CASE f # e
        BY <1>4, <4>1, <4>2, <4>4
      <4> QED BY <4>2, <4>3, <4>4
    <3> QED BY <3>1, <3>2
  <2>3. ASSUME NEW f \in DOMAIN dm_events', NEW g \in DOMAIN dm_events', f # g
        PROVE  dm_events'[f].algo_events \cap dm_events'[g].algo_events = {}
    <3>1. CASE e \in DOMAIN FlagsReset
      BY <1>2, <1>3, <1>4, <1>5, <2>3, <3>1 DEF Partition, Alike
    <3>2. CASE e \notin DOMAIN FlagsReset
      BY <1>2, <1>3, <1>4, <2>3, <3>2 DEF Partition
    <3> QED BY <3>1, <3>2
  <2> QED BY <2>1, <2>2, <2>3 DEF Partition
<1>7. free_algo_messages' = {}
  BY <1>0, <1>6 DEF FreeAlgos, Partition
<1>8. TypeOK'
  <2>1. DOMAIN dm_events' \subseteq EventIds
    BY <1>2, <1>4 DEF IndInv, TypeOK, Alike
  <2>2. next_event_id' \in Nat \ {0}
    BY <1>4, <1>5
  <2> QED
    BY <1>0, <1>1, <1>4, <1>7, <2>1, <2>2
    DEF IndInv, TypeOK, MessageMap, EventMap, Phases
<1>9. VersionsAgree'
  <2>1. \A f \in DOMAIN dm_events' \cup DOMAIN sent : f < next_event_id'
    <3>1. \A f \in DOMAIN dm_events \cup DOMAIN sent :
            f < next_event_id /\ f \in Nat
      BY <1>5 DEF IndInv, VersionsAgree, TypeOK
    <3>2. DOMAIN dm_events' = DOMAIN dm_events \cup {e}
      BY <1>2, <1>4 DEF Alike
    <3>3. CASE e \in DOMAIN FlagsReset
      BY <1>2, <1>4, <1>5, <3>1, <3>2, <3>3 DEF Alike
    <3>4. CASE e \notin DOMAIN FlagsReset
      <4>1. e = next_event_id /\ next_event_id' = next_event_id + 1
        BY <1>4, <3>4
      <4> QED BY <1>0, <1>5, <3>1, <3>2, <4>1
    <3> QED BY <3>3, <3>4
  <2>2. ASSUME NEW f \in DOMAIN dm_events'
        PROVE  IF f \in DOMAIN sent
               THEN sent[f].type # "DELETE" /\ sent[f].ver = dm_events'[f].version
               ELSE dm_events'[f].version = -1
    <3>1. CASE f \in DOMAIN dm_events
      <4>1. dm_events'[f].version = dm_events[f].version
        BY <1>2, <1>4, <1>5, <3>1 DEF Alike
      <4> QED BY <3>1, <4>1 DEF IndInv, VersionsAgree
    <3>2. CASE f \notin DOMAIN dm_events
      BY <1>2, <1>4, <1>5, <3>2 DEF Alike
    <3> QED BY <3>1, <3>2
  <2> QED BY <1>0, <2>1, <2>2 DEF VersionsAgree
<1>10. DeletedStaysAway'
  BY <1>0, <1>1 DEF IndInv, DeletedStaysAway
<1>11. OneMessagePerSource'
  <2> SUFFICES ASSUME NEW f \in DOMAIN dm_events', NEW i \in dm_events'[f].algo_events,
                      NEW j \in dm_events'[f].algo_events
               PROVE  /\ i.cat = dm_events'[f].category
                      /\ i.src = j.src => i = j
    BY DEF OneMessagePerSource
  <2>1. ASSUME NEW g \in DOMAIN FlagsReset
        PROVE  /\ g \in DOMAIN dm_events
               /\ FlagsReset[g].algo_events = dm_events[g].algo_events
               /\ FlagsReset[g].category = dm_events[g].category
    BY <1>2 DEF Alike
  <2>2. CASE f # e
    <3>1. /\ f \in DOMAIN dm_events
          /\ dm_events'[f].algo_events = dm_events[f].algo_events
          /\ dm_events'[f].category = dm_events[f].category
      BY <1>4, <2>1, <2>2
    <3> QED  BY <3>1 DEF IndInv, OneMessagePerSource
  <2>3. CASE f = e /\ e \in DOMAIN FlagsReset
    <3>1. /\ dm_events'[e].algo_events = dm_events[e].algo_events \cup {k}
          /\ dm_events'[e].category = k.cat /\ dm_events[e].category = k.cat
          /\ e \in DOMAIN dm_events
          /\ \A m \in dm_events[e].algo_events : m.src # k.src
      BY <1>2, <1>4, <1>5, <2>1, <2>3 DEF Conflicts, Alike
    <3>2. \A m, n \in dm_events[e].algo_events :
            m.cat = k.cat /\ (m.src = n.src => m = n)
      BY <3>1 DEF IndInv, OneMessagePerSource
    <3> QED  BY <2>3, <3>1, <3>2
  <2>4. CASE f = e /\ e \notin DOMAIN FlagsReset
    BY <1>4, <2>4
  <2> QED  BY <2>2, <2>3, <2>4
<1> QED
  BY <1>0, <1>6, <1>7, <1>8, <1>9, <1>10, <1>11 DEF IndInv, NoEmptyEventAtReceive

LEMMA ReceiveDeleteInv ==
  ASSUME NEW k \in Keys, NEW body \in Payloads, IndInv, ReceiveDelete(k, body)
  PROVE  IndInv'
<1> USE DEF ReceiveDelete
<1>1. /\ Alike(FlagsReset, dm_events) /\ EventMap(FlagsReset)
      /\ Partition(FlagsReset, algo_messages)
      /\ Known(FlagsReset, algo_messages)
      /\ MessageMap(algo_messages)
  BY Facts, ResetFacts
<1>2. /\ DOMAIN algo_messages' = DOMAIN algo_messages \ {k}
      /\ MessageMap(algo_messages')
  BY <1>1 DEF Erase, MessageMap
<1>3. /\ DOMAIN dm_events' = DOMAIN dm_events
      /\ \A e \in DOMAIN dm_events :
           /\ dm_events'[e] \in DMEvents
           /\ dm_events'[e].algo_events = dm_events[e].algo_events \ {k}
           /\ dm_events'[e].version = dm_events[e].version
           /\ dm_events'[e].category = dm_events[e].category
  <2>1. CASE k \in DOMAIN algo_messages
    <3>1. dm_events' = RemoveAlgo(FlagsReset, k, algo_messages)
      BY <2>1
    <3> QED BY <1>1, <3>1, RemoveAlgoLemma DEF Alike
  <2>2. CASE k \notin DOMAIN algo_messages
    <3>1. dm_events' = FlagsReset
      BY <2>2
    <3> QED BY <1>1, <2>2, <3>1 DEF Alike, Known
  <2> QED BY <2>1, <2>2
<1>4. Partition(dm_events', algo_messages')
  <2>1. Known(dm_events', algo_messages')
    BY <1>2, <1>3 DEF IndInv, Partition, Known
  <2>2. \A j \in DOMAIN algo_messages' :
          \E e \in DOMAIN dm_events' : j \in dm_events'[e].algo_events
    BY <1>2, <1>3 DEF IndInv, Partition
  <2>3. ASSUME NEW e \in DOMAIN dm_events', NEW f \in DOMAIN dm_events', e # f
        PROVE  dm_events'[e].algo_events \cap dm_events'[f].algo_events = {}
    <3>1. dm_events[e].algo_events \cap dm_events[f].algo_events = {}
      BY <1>3, <2>3 DEF IndInv, Partition
    <3> QED BY <1>3, <2>3, <3>1
  <2> QED BY <2>1, <2>2, <2>3 DEF Partition
<1>5. /\ DOMAIN delete_messages' = DOMAIN delete_messages \cup {k}
      /\ \A j \in DOMAIN delete_messages' : delete_messages'[j] \in Int
  <2>1. body.ot \in Int
    BY PayloadAssumption DEF Attributes
  <2>2. CASE k \in DOMAIN delete_messages
    BY <2>2 DEF IndInv, TypeOK
  <2>3. CASE k \notin DOMAIN delete_messages
    BY <2>1, <2>3 DEF IndInv, TypeOK, Put
  <2> QED BY <2>2, <2>3
<1>6. TypeOK'
  BY <1>2, <1>3, <1>5 DEF IndInv, TypeOK, MessageMap, Phases
<1>7. VersionsAgree'
  BY <1>3 DEF IndInv, VersionsAgree
<1>8. DeletedStaysAway'
  BY <1>2, <1>5 DEF IndInv, DeletedStaysAway
<1>9. OneMessagePerSource'
  BY <1>3, NothingJoined DEF IndInv
<1> QED BY <1>4, <1>6, <1>7, <1>8, <1>9 DEF IndInv, NoEmptyEventAtReceive

LEMMA ReviewCurrentInv ==
  ASSUME NEW id, IndInv, ReviewCurrent(id)
  PROVE  IndInv'
<1> DEFINE gone == dm_events[id].algo_events \cap DOMAIN algo_messages
<1>1. /\ phase' = "expire" /\ id \in DOMAIN dm_events
      /\ algo_messages' = Erase(algo_messages, gone)
      /\ delete_messages' =
           [k \in DOMAIN delete_messages \cup gone |->
              IF k \in DOMAIN delete_messages THEN delete_messages[k]
              ELSE algo_messages[k].body.ot]
      /\ UNCHANGED <<now, free_algo_messages, next_event_id, sent>>
  BY DEF ReviewCurrent
<1>2. PICK last \in gone :
        dm_events' = Put(FlagsReset, id,
                         Emptied(FlagsReset[id], last, algo_messages))
  BY DEF ReviewCurrent
<1>3. /\ Alike(FlagsReset, dm_events)
      /\ MessageMap(algo_messages)
      /\ Known(dm_events, algo_messages)
  BY Facts, ResetFacts
<1>4. gone = dm_events[id].algo_events
  BY <1>1, <1>3 DEF Known
<1>5. /\ DOMAIN algo_messages' = DOMAIN algo_messages \ gone
      /\ MessageMap(algo_messages')
  BY <1>1, <1>3 DEF Erase, MessageMap
<1> DEFINE reset == FlagsReset[id]
           sole == [reset EXCEPT !.algo_events = {last}]
           emptied == Emptied(reset, last, algo_messages)
<1>6. /\ emptied \in DMEvents
      /\ emptied.algo_events = {}
      /\ emptied.version = dm_events[id].version
      /\ emptied.category = dm_events[id].category
  <2>1. /\ reset \in DMEvents /\ reset.version = dm_events[id].version
        /\ reset.category = dm_events[id].category
    BY <1>1, <1>3 DEF Alike
  <2>2. last \in DOMAIN algo_messages /\ last \in Keys
    BY <1>2, <1>3 DEF MessageMap
  <2> HIDE DEF reset
  <2>3. /\ sole \in DMEvents /\ sole.algo_events = {last}
        /\ sole.version = dm_events[id].version
        /\ sole.category = dm_events[id].category
    BY <2>1, <2>2 DEF DMEvents
  <2>4. emptied = RemoveAlgoEvent(UpdateEvent(sole, algo_messages), last,
                                  algo_messages)
    BY DEF Emptied
  <2> HIDE DEF sole, emptied
  <2>5. sole.algo_events \subseteq DOMAIN algo_messages
    BY <2>2, <2>3
  <2>6. /\ UpdateEvent(sole, algo_messages) \in DMEvents
        /\ UpdateEvent(sole, algo_messages).algo_events = {last}
        /\ UpdateEvent(sole, algo_messages).version = dm_events[id].version
        /\ UpdateEvent(sole, algo_messages).category = dm_events[id].category
    BY <1>3, <2>3, <2>5, UpdateLemma
  <2>7. UpdateEvent(sole, algo_messages).algo_events \subseteq DOMAIN algo_messages
    BY <2>2, <2>6
  <2>8. /\ emptied \in DMEvents
        /\ emptied.algo_events =
             UpdateEvent(sole, algo_messages).algo_events \ {last}
        /\ emptied.version = UpdateEvent(sole, algo_messages).version
        /\ emptied.category = UpdateEvent(sole, algo_messages).category
    BY <1>3, <2>4, <2>6, <2>7, RemoveLemma
  <2> QED BY <2>6, <2>8
<1>7. /\ DOMAIN dm_events' = DOMAIN dm_events
      /\ dm_events'[id] = emptied
      /\ \A e \in DOMAIN dm_events \ {id} : dm_events'[e] = FlagsReset[e]
  BY <1>1, <1>2, <1>3 DEF Put, Alike
<1> HIDE DEF emptied, gone
<1>8. \A e \in DOMAIN dm_events :
        /\ dm_events'[e] \in DMEvents
        /\ dm_events'[e].version = dm_events[e].version
        /\ dm_events'[e].category = dm_events[e].category
        /\ dm_events'[e].algo_events =
             IF e = id THEN {} ELSE dm_events[e].algo_events
  BY <1>3, <1>6, <1>7 DEF Alike
<1>9. Partition(dm_events', algo_messages')
  <2>1. Known(dm_events', algo_messages')
    BY <1>1, <1>4, <1>5, <1>7, <1>8 DEF IndInv, Partition, Known
  <2>2. ASSUME NEW j \in DOMAIN algo_messages'
        PROVE  \E e \in DOMAIN dm_events' : j \in dm_events'[e].algo_events
    <3>1. PICK e \in DOMAIN dm_events : j \in dm_events[e].algo_events
      BY <1>5 DEF IndInv, Partition
    <3>2. e # id
      BY <1>4, <1>5, <3>1
    <3> QED BY <1>7, <1>8, <3>1, <3>2
  <2>3. ASSUME NEW e \in DOMAIN dm_events', NEW f \in DOMAIN dm_events', e # f
        PROVE  dm_events'[e].algo_events \cap dm_events'[f].algo_events = {}
    <3>1. dm_events[e].algo_events \cap dm_events[f].algo_events = {}
      BY <1>7, <2>3 DEF IndInv, Partition
    <3> QED BY <1>7, <1>8, <3>1
  <2> QED BY <2>1, <2>2, <2>3 DEF Partition
<1>10. /\ DOMAIN delete_messages' = DOMAIN delete_messages \cup gone
       /\ \A j \in DOMAIN delete_messages' : delete_messages'[j] \in Int
  <2>1. \A j \in gone : algo_messages[j].body.ot \in Int
    BY <1>3, <1>4, <1>1, PayloadAssumption
    DEF MessageMap, Known, Messages, Attributes
  <2> QED BY <1>1, <2>1 DEF IndInv, TypeOK
<1>11. TypeOK'
  <2>1. gone \subseteq Keys
    BY <1>1, <1>3, <1>4 DEF MessageMap, Known
  <2> QED
    BY <1>1, <1>5, <1>7, <1>8, <1>10, <2>1
    DEF IndInv, TypeOK, MessageMap, Phases
<1>12. VersionsAgree'
  BY <1>1, <1>7, <1>8 DEF IndInv, VersionsAgree
<1>13. DeletedStaysAway'
  BY <1>5, <1>10 DEF IndInv, DeletedStaysAway
<1>14. OneMessagePerSource'
  BY <1>7, <1>8, NothingJoined DEF IndInv
<1> QED
  BY <1>1, <1>9, <1>11, <1>12, <1>13, <1>14 DEF IndInv, NoEmptyEventAtReceive

LEMMA ReviewUnknownInv ==
  ASSUME NEW id \in DOMAIN sent, IndInv, ReviewUnknown(id)
  PROVE  IndInv'
<1> USE DEF ReviewUnknown
<1>1. Alike(dm_events', dm_events) /\ EventMap(dm_events')
      /\ Partition(dm_events', algo_messages)
  BY ResetFacts
<1>2. /\ DOMAIN sent' = DOMAIN sent
      /\ sent'[id] = [type |-> "DELETE", ver |-> 0]
      /\ \A e \in DOMAIN sent \ {id} : sent'[e] = sent[e]
  BY DEF Put
<1>3. [type |-> "DELETE", ver |-> 0] \in Cancelled
  BY DEF Cancelled
<1>4. \A e \in DOMAIN sent' : sent'[e] \in Published \cup Cancelled
  BY <1>2, <1>3 DEF IndInv, TypeOK
<1>5. TypeOK'
  BY <1>1, <1>2, <1>4 DEF IndInv, TypeOK, Alike, EventMap, Phases
<1>6. VersionsAgree'
  BY <1>1, <1>2 DEF IndInv, VersionsAgree, Alike
<1>7. OneMessagePerSource'
  BY <1>1, NothingJoined DEF IndInv, Alike
<1> QED
  BY <1>1, <1>5, <1>6, <1>7 DEF IndInv, DeletedStaysAway, NoEmptyEventAtReceive

LEMMA DiscardOldDMEventsInv == IndInv /\ DiscardOldDMEvents => IndInv'
<1> SUFFICES ASSUME IndInv, DiscardOldDMEvents PROVE IndInv'
  OBVIOUS
<1> DEFINE old == {e \in DOMAIN dm_events :
                     now - dm_events[e].current.ot > DMTimeout}
           held == UNION {dm_events[e].algo_events : e \in old}
<1>1. /\ phase' = "expire_deletes"
      /\ algo_messages' = Erase(algo_messages, held)
      /\ dm_events' = Erase(dm_events, old)
      /\ UNCHANGED <<now, free_algo_messages, delete_messages, next_event_id,
                     sent>>
  BY DEF DiscardOldDMEvents
<1>2. old \subseteq DOMAIN dm_events
  OBVIOUS
<1>3. \A k : k \in held <=> \E e \in old : k \in dm_events[e].algo_events
  OBVIOUS
<1> HIDE DEF old, held
<1>4. /\ DOMAIN dm_events' = DOMAIN dm_events \ old
      /\ \A e \in DOMAIN dm_events' : dm_events'[e] = dm_events[e]
      /\ DOMAIN algo_messages' = DOMAIN algo_messages \ held
      /\ \A k \in DOMAIN algo_messages' : algo_messages'[k] = algo_messages[k]
  BY <1>1 DEF Erase
<1>5. Partition(dm_events', algo_messages')
  <2>1. ASSUME NEW e \in DOMAIN dm_events', NEW k \in dm_events'[e].algo_events
        PROVE  k \in DOMAIN algo_messages'
    <3>1. k \in dm_events[e].algo_events /\ e \in DOMAIN dm_events /\ e \notin old
      BY <1>4, <2>1
    <3>2. k \in DOMAIN algo_messages
      BY <3>1 DEF IndInv, Partition, Known
    <3>3. k \notin held
      BY <1>2, <1>3, <3>1 DEF IndInv, Partition
    <3> QED BY <1>4, <3>2, <3>3
  <2>2. ASSUME NEW k \in DOMAIN algo_messages'
        PROVE  \E e \in DOMAIN dm_events' : k \in dm_events'[e].algo_events
    <3>1. PICK e \in DOMAIN dm_events : k \in dm_events[e].algo_events
      BY <1>4 DEF IndInv, Partition
    <3>2. e \notin old
      BY <1>3, <1>4, <3>1
    <3> QED BY <1>4, <3>1, <3>2
  <2>3. \A e, f \in DOMAIN dm_events' :
          e # f => dm_events'[e].algo_events \cap dm_events'[f].algo_events = {}
    BY <1>4 DEF IndInv, Partition
  <2> QED BY <2>1, <2>2, <2>3 DEF Partition, Known
<1>6. TypeOK'
  BY <1>1, <1>4 DEF IndInv, TypeOK, Phases
<1>7. VersionsAgree'
  BY <1>1, <1>4 DEF IndInv, VersionsAgree
<1>8. DeletedStaysAway'
  BY <1>1, <1>4 DEF IndInv, DeletedStaysAway
<1>9. OneMessagePerSource'
  BY <1>4, NothingJoined DEF IndInv
<1> QED
  BY <1>1, <1>5, <1>6, <1>7, <1>8, <1>9 DEF IndInv, NoEmptyEventAtReceive

LEMMA DiscardOldDeleteEventsInv == IndInv /\ DiscardOldDeleteEvents => IndInv'
<1> SUFFICES ASSUME IndInv, DiscardOldDeleteEvents PROVE IndInv'
  OBVIOUS
<1> USE DEF DiscardOldDeleteEvents
<1>1. /\ DOMAIN delete_messages' \subseteq DOMAIN delete_messages
      /\ \A k \in DOMAIN delete_messages' :
           delete_messages'[k] = delete_messages[k]
  BY DEF Erase
<1>2. TypeOK'
  BY <1>1 DEF IndInv, TypeOK, Phases
<1>3. DeletedStaysAway'
  BY <1>1 DEF IndInv, DeletedStaysAway
<1> QED
  BY <1>2, <1>3
  DEF IndInv, VersionsAgree, OneMessagePerSource, NoEmptyEventAtReceive

(* There is nothing to associate: no message is ever free.                 *)
LEMMA UpdateAssociationsInv == IndInv /\ UpdateAssociations => IndInv'
<1> SUFFICES ASSUME IndInv, UpdateAssociations PROVE IndInv'
  OBVIOUS
<1>1. /\ phase' = "publish"
      /\ UNCHANGED <<now, algo_messages, free_algo_messages, delete_messages,
                     dm_events, next_event_id, sent>>
  BY DEF UpdateAssociations, IndInv
<1>2. TypeOK'
  BY <1>1 DEF IndInv, TypeOK, Phases
<1> QED
  BY <1>1, <1>2
  DEF IndInv, VersionsAgree, OneMessagePerSource, NoEmptyEventAtReceive,
      DeletedStaysAway

LEMMA DiscardOldAlgoEventsInv == IndInv /\ DiscardOldAlgoEvents => IndInv'
<1> SUFFICES ASSUME IndInv, DiscardOldAlgoEvents PROVE IndInv'
  OBVIOUS
<1> USE DEF DiscardOldAlgoEvents
<1>1. FreeAlgos(dm_events, algo_messages) = {}
  BY DEF IndInv, Partition, FreeAlgos
<1>2. /\ DOMAIN algo_messages' = DOMAIN algo_messages
      /\ \A k \in DOMAIN algo_messages' : algo_messages'[k] = algo_messages[k]
  BY <1>1 DEF Erase
<1>3. TypeOK'
  BY <1>2 DEF IndInv, TypeOK, Phases
<1>4. Partition(dm_events', algo_messages')
  BY <1>2 DEF IndInv, Partition, Known
<1>5. DeletedStaysAway' /\ NoEmptyEventAtReceive' /\ VersionsAgree'
  BY <1>2
  DEF IndInv, DeletedStaysAway, NoEmptyEventAtReceive, VersionsAgree
<1>6. OneMessagePerSource'
  BY NothingJoined DEF IndInv
<1> QED BY <1>3, <1>4, <1>5, <1>6 DEF IndInv

LEMMA TickInv == IndInv /\ Tick => IndInv'
<1> SUFFICES ASSUME IndInv, Tick PROVE IndInv'
  OBVIOUS
<1> USE DEF Tick
<1>1. now' \in 0 .. MaxTime
  BY DecisionModuleAssumption DEF IndInv, TypeOK
<1>2. TypeOK'
  BY <1>1 DEF IndInv, TypeOK
<1> QED
  BY <1>2
  DEF IndInv, VersionsAgree, OneMessagePerSource, NoEmptyEventAtReceive,
      DeletedStaysAway

(* Publication drops the events without members and counts versions.       *)
LEMMA PublishFacts ==
  ASSUME IndInv, PublishDMEvents
  PROVE  /\ phase' = "expire_algos"
         /\ UNCHANGED <<now, algo_messages, free_algo_messages,
                        delete_messages, next_event_id>>
         /\ DOMAIN dm_events' = DOMAIN dm_events \ EmptyEvents
         /\ \A e \in DOMAIN dm_events' :
              /\ dm_events'[e] \in DMEvents
              /\ dm_events'[e].algo_events = dm_events[e].algo_events
              /\ dm_events'[e].category = dm_events[e].category
              /\ dm_events'[e].version =
                   IF e \in AlertedEvents THEN dm_events[e].version + 1
                   ELSE dm_events[e].version
         /\ DOMAIN sent' = DOMAIN sent \cup EmptyEvents \cup AlertedEvents
         /\ \A e \in EmptyEvents :
              sent'[e] = [type |-> "DELETE", ver |-> dm_events[e].version + 1]
         /\ \A e \in AlertedEvents :
              sent'[e] =
                [type |-> IF dm_events[e].version >= 0 THEN "UPDATE" ELSE "NEW",
                 ver |-> dm_events[e].version + 1,
                 body |-> dm_events[e].current]
         /\ \A e \in DOMAIN sent \ (EmptyEvents \cup AlertedEvents) :
              sent'[e] = sent[e]
<1> DEFINE message(e) ==
             IF e \in EmptyEvents
             THEN [type |-> "DELETE", ver |-> dm_events[e].version + 1]
             ELSE [type |-> Content(dm_events[e]).type,
                   ver |-> dm_events[e].version + 1,
                   body |-> dm_events[e].current]
<1>1. /\ phase' = "expire_algos"
      /\ dm_events' = [e \in DOMAIN dm_events \ EmptyEvents |->
                         AfterPublish(dm_events[e])]
      /\ sent' = [e \in DOMAIN sent \cup EmptyEvents \cup AlertedEvents |->
                    IF e \in EmptyEvents \cup AlertedEvents
                    THEN message(e) ELSE sent[e]]
      /\ UNCHANGED <<now, algo_messages, free_algo_messages, delete_messages,
                     next_event_id>>
  BY DEF PublishDMEvents
<1>2. EventMap(dm_events)
  BY Facts
<1>3. \A e \in DOMAIN dm_events \ EmptyEvents :
        e \in AlertedEvents <=> Publishes(dm_events[e])
  BY DEF AlertedEvents
<1>4. \A e \in EmptyEvents : message(e) =
        [type |-> "DELETE", ver |-> dm_events[e].version + 1]
  OBVIOUS
<1>5. \A e \in AlertedEvents : message(e) =
        [type |-> IF dm_events[e].version >= 0 THEN "UPDATE" ELSE "NEW",
         ver |-> dm_events[e].version + 1, body |-> dm_events[e].current]
  BY DEF AlertedEvents, Content
<1> HIDE DEF message
<1>6. /\ DOMAIN sent' = DOMAIN sent \cup EmptyEvents \cup AlertedEvents
      /\ \A e \in EmptyEvents \cup AlertedEvents : sent'[e] = message(e)
      /\ \A e \in DOMAIN sent \ (EmptyEvents \cup AlertedEvents) :
           sent'[e] = sent[e]
  BY <1>1
<1>7. /\ DOMAIN dm_events' = DOMAIN dm_events \ EmptyEvents
      /\ \A e \in DOMAIN dm_events' :
           /\ dm_events'[e] \in DMEvents
           /\ dm_events'[e].algo_events = dm_events[e].algo_events
           /\ dm_events'[e].category = dm_events[e].category
           /\ dm_events'[e].version =
                IF Publishes(dm_events[e]) THEN dm_events[e].version + 1
                ELSE dm_events[e].version
  BY <1>1, <1>2, PublishLemma DEF EventMap
<1> QED BY <1>1, <1>3, <1>4, <1>5, <1>6, <1>7

LEMMA PublishDMEventsInv == IndInv /\ PublishDMEvents => IndInv'
<1> SUFFICES ASSUME IndInv, PublishDMEvents PROVE IndInv'
  OBVIOUS
<1> DEFINE empty == EmptyEvents
           published == AlertedEvents
<1>1. /\ phase' = "expire_algos"
      /\ UNCHANGED <<now, algo_messages, free_algo_messages, delete_messages,
                     next_event_id>>
  BY PublishFacts
<1>2. EventMap(dm_events)
  BY Facts
<1>3. /\ DOMAIN dm_events' = DOMAIN dm_events \ empty
      /\ \A e \in DOMAIN dm_events' :
           /\ dm_events'[e] \in DMEvents
           /\ dm_events'[e].algo_events = dm_events[e].algo_events
           /\ dm_events'[e].version =
                IF e \in published THEN dm_events[e].version + 1
                ELSE dm_events[e].version
  BY PublishFacts
<1>4. /\ empty \subseteq DOMAIN dm_events
      /\ published \subseteq DOMAIN dm_events \ empty
      /\ \A e \in DOMAIN dm_events :
           e \in empty <=> dm_events[e].algo_events = {}
  BY DEF EmptyEvents, AlertedEvents
<1>7. /\ DOMAIN sent' = DOMAIN sent \cup empty \cup published
      /\ \A e \in DOMAIN sent \ (empty \cup published) : sent'[e] = sent[e]
  BY PublishFacts
<1>8. \A e \in empty : sent'[e] \in Cancelled
  BY <1>2, <1>4, PublishFacts DEF EventMap, DMEvents, Cancelled
<1>9. ASSUME NEW e \in published
      PROVE  /\ sent'[e] \in Published
             /\ sent'[e].type # "DELETE"
             /\ sent'[e].ver = dm_events[e].version + 1
  <2>1. dm_events[e] \in DMEvents
    BY <1>2, <1>4 DEF EventMap
  <2>2. dm_events[e].version + 1 \in Nat /\ dm_events[e].current \in Attributes
    BY <2>1 DEF DMEvents
  <2>3. sent'[e] =
          [type |-> IF dm_events[e].version >= 0 THEN "UPDATE" ELSE "NEW",
           ver |-> dm_events[e].version + 1, body |-> dm_events[e].current]
    BY PublishFacts
  <2> QED BY <2>2, <2>3 DEF Published
<1> HIDE DEF empty, published
<1>10. TypeOK'
  <2>1. \A e \in DOMAIN sent' : sent'[e] \in Published \cup Cancelled
    BY <1>7, <1>8, <1>9 DEF IndInv, TypeOK
  <2>2. DOMAIN sent' \subseteq EventIds
    BY <1>4, <1>7 DEF IndInv, TypeOK
  <2> QED BY <1>1, <1>3, <2>1, <2>2 DEF IndInv, TypeOK, Phases
<1>11. Partition(dm_events', algo_messages')
  <2>1. Known(dm_events', algo_messages')
    BY <1>1, <1>3 DEF IndInv, Partition, Known
  <2>2. ASSUME NEW k \in DOMAIN algo_messages'
        PROVE  \E e \in DOMAIN dm_events' : k \in dm_events'[e].algo_events
    <3>1. PICK e \in DOMAIN dm_events : k \in dm_events[e].algo_events
      BY <1>1 DEF IndInv, Partition
    <3>2. e \notin empty
      BY <1>4, <3>1
    <3> QED BY <1>3, <3>1, <3>2
  <2>3. \A e, f \in DOMAIN dm_events' :
          e # f => dm_events'[e].algo_events \cap dm_events'[f].algo_events = {}
    BY <1>3 DEF IndInv, Partition
  <2> QED BY <2>1, <2>2, <2>3 DEF Partition
<1>12. VersionsAgree'
  <2>1. \A e \in DOMAIN dm_events' \cup DOMAIN sent' : e < next_event_id'
    BY <1>1, <1>3, <1>4, <1>7 DEF IndInv, VersionsAgree
  <2>2. ASSUME NEW e \in DOMAIN dm_events'
        PROVE  IF e \in DOMAIN sent'
               THEN sent'[e].type # "DELETE"
                    /\ sent'[e].ver = dm_events'[e].version
               ELSE dm_events'[e].version = -1
    <3>1. e \in DOMAIN dm_events /\ e \notin empty
      BY <1>3
    <3>2. CASE e \in published
      BY <1>3, <1>4, <1>7, <1>9, <3>1, <3>2
    <3>3. CASE e \notin published
      <4>1. dm_events'[e].version = dm_events[e].version
        BY <1>3, <1>4, <3>1, <3>3
      <4>2. e \in DOMAIN sent' <=> e \in DOMAIN sent
        BY <1>7, <3>1, <3>3
      <4>3. e \in DOMAIN sent => sent'[e] = sent[e]
        BY <1>7, <3>1, <3>3
      <4> QED BY <3>1, <4>1, <4>2, <4>3 DEF IndInv, VersionsAgree
    <3> QED BY <3>2, <3>3
  <2> QED BY <2>1, <2>2 DEF VersionsAgree
<1>13. NoEmptyEventAtReceive'
  BY <1>3, <1>4 DEF NoEmptyEventAtReceive
<1>14. DeletedStaysAway'
  BY <1>1 DEF IndInv, DeletedStaysAway
<1>15. OneMessagePerSource'
  BY PublishFacts, NothingJoined DEF IndInv
<1> QED BY <1>1, <1>10, <1>11, <1>12, <1>13, <1>14, <1>15 DEF IndInv

-----------------------------------------------------------------------------
LEMMA NextInv == IndInv /\ [Next]_vars => IndInv'
<1> SUFFICES ASSUME IndInv, [Next]_vars PROVE IndInv'
  OBVIOUS
<1>1. CASE Receive
  <2>1. CASE ReceiveNothing
    BY <2>1, ReceiveNothingInv
  <2>2. ASSUME NEW k \in Keys, NEW body \in Payloads, NEW ver \in Versions,
               ReceiveUpdate(k, ver, body)
        PROVE  IndInv'
    BY <2>2, ReceiveUpdateInv
  <2>3. ASSUME NEW k \in Keys, NEW body \in Payloads, NEW ver \in Versions,
               ReceiveNew(k, ver, body)
        PROVE  IndInv'
    BY <2>3, ReceiveNewInv
  <2>4. ASSUME NEW k \in Keys, NEW body \in Payloads, ReceiveDelete(k, body)
        PROVE  IndInv'
    BY <2>4, ReceiveDeleteInv
  <2>5. ASSUME NEW id \in DOMAIN sent, ReviewCurrent(id)
        PROVE  IndInv'
    BY <2>5, ReviewCurrentInv
  <2>6. ASSUME NEW id \in DOMAIN sent, ReviewUnknown(id)
        PROVE  IndInv'
    BY <2>6, ReviewUnknownInv
  <2> QED BY <1>1, <2>1, <2>2, <2>3, <2>4, <2>5, <2>6 DEF Receive
<1>2. CASE DiscardOldDMEvents
  BY <1>2, DiscardOldDMEventsInv
<1>3. CASE DiscardOldDeleteEvents
  BY <1>3, DiscardOldDeleteEventsInv
<1>4. CASE UpdateAssociations
  BY <1>4, UpdateAssociationsInv
<1>5. CASE PublishDMEvents
  BY <1>5, PublishDMEventsInv
<1>6. CASE DiscardOldAlgoEvents
  BY <1>6, DiscardOldAlgoEventsInv
<1>7. CASE Tick
  BY <1>7, TickInv
<1>8. CASE UNCHANGED vars
  BY <1>8
  DEF vars, IndInv, TypeOK, Partition, Known, DeletedStaysAway,
      NoEmptyEventAtReceive, VersionsAgree, OneMessagePerSource
<1> QED
  BY <1>1, <1>2, <1>3, <1>4, <1>5, <1>6, <1>7, <1>8 DEF Next, Loop

(* The stored messages are partitioned by the current events, and what     *)
(* was last sent of an event carries its version, in every reachable state *)
(* of DecisionModule::run.                                                 *)
THEOREM Invariance == Spec => []IndInv
BY InitInv, NextInv, PTL DEF Spec

(* The state keeps its types: the versions published are natural numbers   *)
(* and the event ids those handed out by getNewEventID.                    *)
THEOREM TypeCorrect == Spec => []TypeOK
<1>1. IndInv => TypeOK
  BY DEF IndInv
<1> QED BY <1>1, Invariance, PTL

(* No event refers to a message that is not stored: the unchecked find()   *)
(* of individualAlgoMisfit, loadAlgExtra, publishAloneOk and               *)
(* passedTwoAlgMag always finds it, with any number of sources and events. *)
THEOREM MembersAreKnown == Spec => []MembersKnown
<1>1. IndInv => MembersKnown
  BY DEF IndInv, Partition, Known, MembersKnown
<1> QED BY <1>1, Invariance, PTL

(* setDMEventPublish's "there should only be one", and the free list that  *)
(* updateAssociations works through is always empty.                       *)
THEOREM EachMessageInOneEvent == Spec => []OneEventPerMessage
<1>1. IndInv => OneEventPerMessage
  BY DEF IndInv, Partition, FreeAlgos, OneEventPerMessage
<1> QED BY <1>1, Invariance, PTL

(* The branch of associateAlgorithmEvent that reuses an emptied event is   *)
(* never taken: none is left when a message is received.                   *)
THEOREM NoEventToReuse == Spec => []NoEmptyEventAtReceive
<1>1. IndInv => NoEmptyEventAtReceive
  BY DEF IndInv
<1> QED BY <1>1, Invariance, PTL

(* A message whose key has a tombstone is not stored, whether a source or  *)
(* DMReview deleted it.                                                    *)
THEOREM DeletedIsNotStored == Spec => []DeletedStaysAway
<1>1. IndInv => DeletedStaysAway
  BY DEF IndInv
<1> QED BY <1>1, Invariance, PTL

(* checkNewAlgoMisfit is asked on every way into an event, so no event has *)
(* two messages of a source, nor of another category.                      *)
THEOREM SourcesDistinct == Spec => []OneMessagePerSource
<1>1. IndInv => OneMessagePerSource
  BY DEF IndInv
<1> QED BY <1>1, Invariance, PTL

-----------------------------------------------------------------------------
(* What the subscribers are shown of the messages sent.                    *)
Seen == [e \in DOMAIN sent |-> [type |-> sent[e].type, ver |-> sent[e].ver]]

LEMMA InitRefines == Init => Subscribers!Init
BY DEF Init, Subscribers!Init

(* One round of publication announces the alerted events and cancels the   *)
(* emptied ones.                                                           *)
LEMMA AnnounceRefines == IndInv /\ PublishDMEvents => Subscribers!Announce
<1> SUFFICES ASSUME IndInv, PublishDMEvents PROVE Subscribers!Announce
  OBVIOUS
<1>1. \A e \in DOMAIN dm_events :
        /\ Subscribers!LastVersion(e) = dm_events[e].version
        /\ dm_events[e].version \in {-1} \cup Nat
  <2>1. SUFFICES ASSUME NEW e \in DOMAIN dm_events
                 PROVE  /\ Subscribers!LastVersion(e) = dm_events[e].version
                        /\ dm_events[e].version \in {-1} \cup Nat
    OBVIOUS
  <2>2. dm_events[e].version \in {-1} \cup Nat
    BY Facts DEF EventMap, DMEvents
  <2> QED BY <2>2 DEF IndInv, VersionsAgree, Subscribers!LastVersion
<1>2. /\ EmptyEvents \in SUBSET DOMAIN dm_events
      /\ AlertedEvents \in SUBSET DOMAIN dm_events
      /\ AlertedEvents \cap EmptyEvents = {}
  BY DEF EmptyEvents, AlertedEvents
<1>3. \A e \in EmptyEvents :
        Subscribers!Cancel(e) = [type |-> sent'[e].type, ver |-> sent'[e].ver]
  BY <1>1, <1>2, PublishFacts DEF Subscribers!Cancel
<1>4. \A e \in AlertedEvents :
        Subscribers!Alert(e) = [type |-> sent'[e].type, ver |-> sent'[e].ver]
  <2>1. SUFFICES ASSUME NEW e \in AlertedEvents
                 PROVE  Subscribers!Alert(e) =
                          [type |-> sent'[e].type, ver |-> sent'[e].ver]
    OBVIOUS
  <2>2. /\ sent'[e].type = IF dm_events[e].version >= 0 THEN "UPDATE" ELSE "NEW"
        /\ sent'[e].ver = dm_events[e].version + 1
    BY PublishFacts
  <2>3. Subscribers!LastVersion(e) = dm_events[e].version
        /\ dm_events[e].version \in {-1} \cup Nat
    BY <1>1, <1>2
  <2>4. (IF dm_events[e].version = -1 THEN "NEW" ELSE "UPDATE") = sent'[e].type
    BY <2>2, <2>3
  <2> QED BY <2>2, <2>3, <2>4 DEF Subscribers!Alert
<1>5. Seen' = [e \in DOMAIN Seen \cup AlertedEvents \cup EmptyEvents |->
                 IF e \in AlertedEvents THEN Subscribers!Alert(e)
                 ELSE IF e \in EmptyEvents THEN Subscribers!Cancel(e)
                 ELSE Seen[e]]
  <2>1. DOMAIN sent' = DOMAIN Seen \cup AlertedEvents \cup EmptyEvents
    BY PublishFacts DEF Seen
  <2>2. ASSUME NEW e \in DOMAIN sent'
        PROVE  [type |-> sent'[e].type, ver |-> sent'[e].ver] =
                 IF e \in AlertedEvents THEN Subscribers!Alert(e)
                 ELSE IF e \in EmptyEvents THEN Subscribers!Cancel(e)
                 ELSE Seen[e]
    <3>1. CASE e \in AlertedEvents
      BY <1>4, <3>1
    <3>2. CASE e \in EmptyEvents
      BY <1>2, <1>3, <3>2
    <3>3. CASE e \notin AlertedEvents /\ e \notin EmptyEvents
      <4>1. e \in DOMAIN sent /\ sent'[e] = sent[e]
        BY <3>3, PublishFacts
      <4>2. Seen[e] = [type |-> sent[e].type, ver |-> sent[e].ver]
        BY <4>1 DEF Seen
      <4> QED BY <3>3, <4>1, <4>2
    <3> QED BY <3>1, <3>2, <3>3
  <2>3. Seen' = [e \in DOMAIN sent' |->
                   [type |-> sent'[e].type, ver |-> sent'[e].ver]]
    BY DEF Seen
  <2> QED BY <2>1, <2>2, <2>3
<1>6. /\ DOMAIN dm_events' = DOMAIN dm_events \ EmptyEvents
      /\ next_event_id' = next_event_id
  BY PublishFacts
<1> QED BY <1>2, <1>5, <1>6 DEF Subscribers!Announce, Seen

LEMMA StepRefines ==
  IndInv /\ [Next]_vars => [Subscribers!Next]_(Subscribers!vars)
<1> SUFFICES ASSUME IndInv, [Next]_vars
             PROVE  [Subscribers!Next]_(Subscribers!vars)
  OBVIOUS
<1> DEFINE Stutter == /\ DOMAIN dm_events' = DOMAIN dm_events
                      /\ UNCHANGED <<next_event_id, sent>>
<1>1. Stutter => UNCHANGED Subscribers!vars
  BY DEF Subscribers!vars
<1>2. Alike(FlagsReset, dm_events) /\ Known(FlagsReset, algo_messages)
      /\ EventMap(FlagsReset) /\ MessageMap(algo_messages)
  BY Facts, ResetFacts
<1>3. CASE ReceiveNothing
  BY <1>1, <1>2, <1>3 DEF ReceiveNothing, Alike
<1>4. ASSUME NEW k \in Keys, NEW body \in Payloads, NEW ver \in Versions,
             ReceiveUpdate(k, ver, body)
      PROVE  Stutter
  BY <1>2, <1>4 DEF ReceiveUpdate, SetDMEventPublish, Alike
<1>5. ASSUME NEW k \in Keys, NEW body \in Payloads, NEW ver \in Versions,
             ReceiveNew(k, ver, body)
      PROVE  Stutter \/ Subscribers!Open
  <2>1. Associate(FlagsReset, k, algo_messages') /\ sent' = sent
        /\ k \notin DOMAIN algo_messages
        /\ algo_messages' = Put(algo_messages, k, [ver |-> ver, body |-> body])
    BY <1>5 DEF ReceiveNew
  <2>2. MessageMap(algo_messages') /\ k \in DOMAIN algo_messages'
        /\ Known(FlagsReset, algo_messages')
        /\ \A e \in DOMAIN FlagsReset : k \notin FlagsReset[e].algo_events
    BY <1>2, <2>1, DecisionModuleAssumption
    DEF Put, MessageMap, Messages, Known
  <2>3. PICK e : Joined(FlagsReset, k, e)
    BY <1>2, <2>1, <2>2, AssociateLemma
  <2>4. CASE e \in DOMAIN FlagsReset /\ next_event_id' = next_event_id
    BY <1>2, <2>1, <2>3, <2>4 DEF Alike, Joined
  <2>5. CASE /\ e = next_event_id /\ e \in EventIds
             /\ next_event_id' = next_event_id + 1
    BY <1>2, <2>1, <2>3, <2>5 DEF Alike, Joined, Subscribers!Open
  <2> QED BY <2>3, <2>4, <2>5 DEF Joined
<1>6. ASSUME NEW k \in Keys, NEW body \in Payloads, ReceiveDelete(k, body)
      PROVE  Stutter
  BY <1>2, <1>6 DEF ReceiveDelete, RemoveAlgo, Alike
<1>7. ASSUME NEW id \in DOMAIN sent, ReviewCurrent(id)
      PROVE  Stutter
  BY <1>2, <1>7 DEF ReviewCurrent, Put, Alike
<1>8. ASSUME NEW id \in DOMAIN sent, ReviewUnknown(id)
      PROVE  Subscribers!Repeal
  <2>1. id \notin DOMAIN dm_events /\ dm_events' = FlagsReset
        /\ next_event_id' = next_event_id
        /\ sent' = Put(sent, id, [type |-> "DELETE", ver |-> 0])
    BY <1>8 DEF ReviewUnknown
  <2>2. DOMAIN dm_events' = DOMAIN dm_events
    BY <1>2, <2>1 DEF Alike
  <2>3. Seen' = [Seen EXCEPT ![id] = [type |-> "DELETE", ver |-> 0]]
    <3>1. DOMAIN sent' = DOMAIN sent
      BY <2>1 DEF Put
    <3>2. \A e \in DOMAIN sent :
            sent'[e] = IF e = id THEN [type |-> "DELETE", ver |-> 0] ELSE sent[e]
      BY <2>1 DEF Put
    <3> QED BY <3>1, <3>2 DEF Seen
  <2> QED BY <2>1, <2>2, <2>3 DEF Subscribers!Repeal, Seen
<1>9. CASE DiscardOldDMEvents
  <2> DEFINE old == {e \in DOMAIN dm_events :
                       now - dm_events[e].current.ot > DMTimeout}
  <2>1. DOMAIN dm_events' = DOMAIN dm_events \ old
        /\ UNCHANGED <<next_event_id, sent>>
    BY <1>9 DEF DiscardOldDMEvents, Erase
  <2>2. old \in SUBSET DOMAIN dm_events
    OBVIOUS
  <2>3. Subscribers!Abandon
    BY <2>1, <2>2 DEF Subscribers!Abandon
  <2> QED BY <2>3 DEF Subscribers!Next
<1>10. CASE DiscardOldDeleteEvents
  BY <1>1, <1>10 DEF DiscardOldDeleteEvents
<1>11. CASE UpdateAssociations
  BY <1>1, <1>11 DEF UpdateAssociations, IndInv
<1>12. CASE PublishDMEvents
  BY <1>12, AnnounceRefines DEF Subscribers!Next
<1>13. CASE DiscardOldAlgoEvents
  BY <1>1, <1>13 DEF DiscardOldAlgoEvents
<1>14. CASE Tick
  BY <1>1, <1>14 DEF Tick
<1>15. CASE UNCHANGED vars
  BY <1>1, <1>15 DEF vars
<1> HIDE DEF Stutter
<1>16. CASE Receive
  BY <1>1, <1>3, <1>4, <1>5, <1>6, <1>7, <1>8, <1>16
  DEF Receive, Subscribers!Next
<1> QED
  BY <1>9, <1>10, <1>11, <1>12, <1>13, <1>14, <1>15, <1>16 DEF Next, Loop

(* For each event id the subscribers see a NEW, then UPDATEs with          *)
(* consecutive versions, then at most one DELETE, and no id a second time. *)
THEOREM Refinement == Spec => ImplementsAlertStream
<1>1. Init => Subscribers!Init
  BY InitRefines
<1>2. IndInv /\ [Next]_vars => [Subscribers!Next]_(Subscribers!vars)
  BY StepRefines
<1> QED
  BY <1>1, <1>2, Invariance, PTL
  DEF Spec, ImplementsAlertStream, Subscribers!Spec

-----------------------------------------------------------------------------
(* Third part: what publishDMEvents leaves behind.                         *)

(* Filtered, of messages that need not be the stored ones.                 *)
FilteredWith(ev, msgs) ==
  \/ ev.published = NotYet /\ (ev.current.loc \notin Region
                               \/ ev.current.mag < RegionMinMag)
  \/ ev.current.lh < DmMinLikelihood
  \/ ~PassedTwoAlgMag(ev, msgs)

(* The attributes are the mean of the messages that count.                 *)
Averaged(ev, msgs) ==
  LET used == Contributing(ev.algo_events)
  IN used # {} => ev.current = Combine([k \in used |-> msgs[k].body])

(* Published as it stands, or unchanged to messageChanged.                 *)
Settled(ev, msgs) ==
  ev.version >= 0 /\ ContainsCore(ev) /\ ~FilteredWith(ev, msgs)
    /\ PublishAloneOk(ev) => UpToDate(ev) \/ Shown(ev)

(* An event that is not settled is flagged, and none is after publication. *)
InHand(ev, msgs) ==
  Averaged(ev, msgs) /\ (~ev.publish_flag => Settled(ev, msgs))

AllInHand(dm, msgs) == \A e \in DOMAIN dm : InHand(dm[e], msgs)

(* The invariant of publication, inductive together with IndInv.           *)
PubInv ==
  /\ AllInHand(dm_events, algo_messages)
  /\ phase \in {"expire_algos", "receive"} =>
       \A e \in DOMAIN dm_events : Settled(dm_events[e], algo_messages)

(* Two events that differ in nothing that publication looks at.            *)
SameToPublish(ev2, ev1) ==
  /\ ev2.algo_events = ev1.algo_events
  /\ ev2.current = ev1.current
  /\ ev2.version = ev1.version
  /\ ev2.published = ev1.published
  /\ ev2.previous_message = ev1.previous_message

(* So the one is settled when the other is.                                *)
LEMMA SettledLemma ==
  ASSUME NEW ev1, NEW ev2, NEW msgs1, NEW msgs2, SameToPublish(ev2, ev1),
         \A k \in ev1.algo_events : msgs2[k] = msgs1[k]
  PROVE  /\ Averaged(ev1, msgs1) => Averaged(ev2, msgs2)
         /\ Settled(ev1, msgs1) => Settled(ev2, msgs2)
<1> USE DEF SameToPublish
<1>1. ASSUME Averaged(ev1, msgs1) PROVE Averaged(ev2, msgs2)
  <2> DEFINE used == Contributing(ev1.algo_events)
  <2>1. used = Contributing(ev2.algo_events) /\ used \subseteq ev1.algo_events
    BY DEF Contributing
  <2>2. [k \in used |-> msgs1[k].body] = [k \in used |-> msgs2[k].body]
    BY <2>1
  <2>3. used # {} => ev1.current = Combine([k \in used |-> msgs1[k].body])
    BY <1>1 DEF Averaged
  <2> HIDE DEF used
  <2>4. used # {} => ev2.current = Combine([k \in used |-> msgs2[k].body])
    BY <2>2, <2>3
  <2> QED BY <2>1, <2>4 DEF Averaged
<1>2. Content(ev2) = Content(ev1)
  BY DEF Content
<1>3. AboveThreshold(ev2) <=> AboveThreshold(ev1)
  BY DEF AboveThreshold
<1>4. /\ ContainsCore(ev2) <=> ContainsCore(ev1)
      /\ PublishAloneOk(ev2) <=> PublishAloneOk(ev1)
  BY DEF ContainsCore, PublishAloneOk
<1>5. PassedTwoAlgMag(ev2, msgs2) <=> PassedTwoAlgMag(ev1, msgs1)
  BY DEF PassedTwoAlgMag
<1>6. FilteredWith(ev2, msgs2) <=> FilteredWith(ev1, msgs1)
  BY <1>5 DEF FilteredWith
<1>7. (UpToDate(ev2) <=> UpToDate(ev1)) /\ (Shown(ev2) <=> Shown(ev1))
  BY <1>2, <1>3 DEF UpToDate, Shown
<1>8. Settled(ev1, msgs1) => Settled(ev2, msgs2)
  BY <1>4, <1>6, <1>7 DEF Settled
<1> QED BY <1>1, <1>8

(* Nobody's mean counts in an event without core contributors.             *)
LEMMA NoMean ==
  ASSUME NEW ev, Contributing(ev.algo_events) = {}
  PROVE  ~ContainsCore(ev)
BY DEF Contributing, ContainsCore

(* Forming the mean changes only members and attributes.                   *)
LEMMA MeanLemma ==
  ASSUME NEW ev \in DMEvents, NEW msgs, MessageMap(msgs)
  PROVE  LET new == Recalculate(ev, msgs)
         IN /\ Averaged(new, msgs)
            /\ new.publish_flag = ev.publish_flag
            /\ new.published = ev.published
            /\ new.previous_message = ev.previous_message
<1> DEFINE members == ev.algo_events \cap DOMAIN msgs
           used == Contributing(members)
           mean == Combine([k \in used |-> msgs[k].body])
           cur == IF used = {} THEN ev.current ELSE mean
<1>1. Recalculate(ev, msgs) = [ev EXCEPT !.algo_events = members, !.current = cur]
  BY DEF Recalculate, DMEvents
<1>2. used # {} => cur = mean
  OBVIOUS
<1> HIDE DEF cur, members
<1>3. /\ Recalculate(ev, msgs).algo_events = members
      /\ Recalculate(ev, msgs).current = cur
      /\ Recalculate(ev, msgs).publish_flag = ev.publish_flag
      /\ Recalculate(ev, msgs).published = ev.published
      /\ Recalculate(ev, msgs).previous_message = ev.previous_message
  BY <1>1 DEF DMEvents
<1>4. Averaged(Recalculate(ev, msgs), msgs)
  BY <1>2, <1>3 DEF Averaged
<1> QED BY <1>3, <1>4

(* setPublishFlag and update leave an event in hand.                       *)
LEMMA UpdateInHand ==
  ASSUME NEW ev \in DMEvents, NEW msgs, MessageMap(msgs)
  PROVE  InHand(UpdateEvent(ev, msgs), msgs) /\ UpdateEvent(ev, msgs).publish_flag
<1> DEFINE flagged == [ev EXCEPT !.publish_flag = TRUE]
<1>1. flagged \in DMEvents /\ flagged.publish_flag = TRUE
  BY DEF DMEvents
<1>2. UpdateEvent(ev, msgs) = Recalculate(flagged, msgs)
  BY DEF UpdateEvent
<1> HIDE DEF flagged
<1> QED BY <1>1, <1>2, MeanLemma DEF InHand

(* The event that takes a message is in hand.                              *)
LEMMA GainInHand ==
  ASSUME NEW ev \in DMEvents, NEW msgs, MessageMap(msgs),
         NEW k \in DOMAIN msgs, ev.algo_events \subseteq DOMAIN msgs
  PROVE  InHand(Flagged(AddAlgoEvent(ev, k, msgs)), msgs)
<1> DEFINE joined == [ev EXCEPT
                 !.algo_events = @ \cup {k},
                 !.previous_algo_events =
                    IF k \in ev.algo_events THEN @ ELSE ev.algo_events \cup {k}]
           new == AddAlgoEvent(ev, k, msgs)
<1>1. k \in Keys
  BY DEF MessageMap
<1>2. joined \in DMEvents
  BY <1>1 DEF DMEvents
<1>3. new = Recalculate(joined, msgs)
  BY DEF AddAlgoEvent
<1>4. new \in DMEvents
  BY AddLemma
<1> HIDE DEF joined, new
<1>5. Averaged(new, msgs)
  BY <1>2, <1>3, MeanLemma
<1>6. /\ Flagged(new).publish_flag = TRUE
      /\ Flagged(new).algo_events = new.algo_events
      /\ Flagged(new).current = new.current
  BY <1>4 DEF Flagged, DMEvents
<1> QED BY <1>5, <1>6 DEF InHand, Averaged, new

(* A trial leaves an event as it was, unless nobody's attributes count.    *)
LEMMA TrialInHand ==
  ASSUME NEW ev \in DMEvents, NEW msgs, MessageMap(msgs),
         NEW k \in DOMAIN msgs, ev.algo_events \subseteq DOMAIN msgs,
         k \notin ev.algo_events, InHand(ev, msgs)
  PROVE  InHand(AfterTrial(ev, k, msgs), msgs)
<1> DEFINE joined == [ev EXCEPT !.algo_events = @ \cup {k}]
           trial == TryAlgoEvent(ev, k, msgs)
           left == [trial EXCEPT !.algo_events = @ \ {k}]
           new == Recalculate(left, msgs)
<1>1. CASE AfterTrial(ev, k, msgs) = ev
  BY <1>1
<1>2. CASE AfterTrial(ev, k, msgs) # ev
  <2>1. k \in Keys
    BY DEF MessageMap
  <2>2. /\ joined \in DMEvents
        /\ joined.publish_flag = ev.publish_flag
        /\ joined.published = ev.published
        /\ joined.previous_message = ev.previous_message
    BY <2>1 DEF DMEvents
  <2>3. trial = Recalculate(joined, msgs)
    BY DEF TryAlgoEvent
  <2>4. /\ trial \in DMEvents
        /\ trial.algo_events = ev.algo_events \cup {k}
        /\ trial.version = ev.version
    BY TryLemma
  <2>5. AfterTrial(ev, k, msgs) = RemoveAlgoEvent(trial, k, msgs)
    BY <1>2 DEF AfterTrial
  <2> HIDE DEF joined, trial
  <2>6. /\ trial.publish_flag = ev.publish_flag
        /\ trial.published = ev.published
        /\ trial.previous_message = ev.previous_message
    BY <2>2, <2>3, MeanLemma
  <2>7. AfterTrial(ev, k, msgs) = new
    BY <2>4, <2>5 DEF RemoveAlgoEvent
  <2>8. /\ left \in DMEvents
        /\ left.algo_events = ev.algo_events
        /\ left.version = ev.version
        /\ left.publish_flag = ev.publish_flag
        /\ left.published = ev.published
        /\ left.previous_message = ev.previous_message
    BY <2>4, <2>6 DEF DMEvents
  <2> HIDE DEF left
  <2>9. /\ Averaged(new, msgs)
        /\ new.algo_events = ev.algo_events
        /\ new.version = ev.version
        /\ new.publish_flag = ev.publish_flag
        /\ new.published = ev.published
        /\ new.previous_message = ev.previous_message
    <3>1. /\ Averaged(new, msgs)
          /\ new.publish_flag = left.publish_flag
          /\ new.published = left.published
          /\ new.previous_message = left.previous_message
      BY <2>8, MeanLemma
    <3>2. /\ new.algo_events = left.algo_events \cap DOMAIN msgs
          /\ new.version = left.version
      BY <2>8, RecalculateLemma
    <3> QED BY <2>8, <3>1, <3>2
  <2> HIDE DEF new
  <2>10. CASE Contributing(ev.algo_events) = {}
    <3>1. ~ContainsCore(new)
      BY <2>9, <2>10, NoMean
    <3> QED BY <2>7, <2>9, <3>1 DEF InHand, Settled
  <2>11. CASE Contributing(ev.algo_events) # {}
    <3>1. new.current = ev.current
      BY <2>9, <2>11 DEF InHand, Averaged
    <3>2. SameToPublish(new, ev)
      BY <2>9, <3>1 DEF SameToPublish
    <3> QED BY <2>7, <2>9, <3>2, SettledLemma DEF InHand
  <2> QED BY <2>10, <2>11
<1> QED BY <1>1, <1>2

(* publishDMEvent settles an event, whatever it decides.                   *)
LEMMA PublishSettles ==
  ASSUME NEW ev \in DMEvents, InHand(ev, algo_messages)
  PROVE  /\ Averaged(AfterPublish(ev), algo_messages)
         /\ Settled(AfterPublish(ev), algo_messages)
<1> DEFINE kept == IF PublishChangesOnly /\ Considered(ev) /\ MessageChanged(ev)
                   THEN Content(ev) ELSE ev.previous_message
           pub == IF Publishes(ev) THEN ev.current ELSE ev.published
           ver == IF Publishes(ev) THEN ev.version + 1 ELSE ev.version
           new == AfterPublish(ev)
<1>1. new = [ev EXCEPT !.previous_message = kept, !.version = ver,
                       !.published = pub]
  BY DEF AfterPublish, DMEvents
<1>2. /\ Publishes(ev) => pub = ev.current
      /\ ~Publishes(ev) => pub = ev.published /\ ver = ev.version
      /\ ~(Considered(ev) /\ MessageChanged(ev)) => kept = ev.previous_message
  OBVIOUS
<1> HIDE DEF kept, pub, ver, new
<1>3. /\ new.algo_events = ev.algo_events /\ new.current = ev.current
      /\ new.version = ver /\ new.published = pub
      /\ new.previous_message = kept
  BY <1>1 DEF DMEvents
<1>4. Averaged(new, algo_messages)
  BY <1>3 DEF InHand, Averaged
<1>5. CASE Publishes(ev)
  <2>1. new.published = new.current /\ new.current \in Attributes
    BY <1>2, <1>3, <1>5 DEF DMEvents
  <2>2. new.published # NotYet
    BY <2>1, ThresholdAssumption
  <2>3. \A a \in {"ot", "loc", "mag", "lh"} :
          Distance(new.current[a], new.published[a]) <= ChangeThreshold[a]
    BY <2>1, ThresholdAssumption DEF Distance, Attributes
  <2>4. \A a \in {"ot", "loc", "mag", "lh"} :
          ~(Distance(new.current[a], new.published[a]) > ChangeThreshold[a])
    BY <2>1, ThresholdAssumption DEF Distance, Attributes
  <2>5. UpToDate(new)
    BY <2>1, <2>2, <2>4 DEF UpToDate, AboveThreshold
  <2> QED BY <1>4, <2>5 DEF Settled, new
<1>6. CASE ~Publishes(ev)
  <2>1. new.version = ev.version /\ new.published = ev.published
    BY <1>2, <1>3, <1>6
  <2>2. CASE ~Considered(ev) \/ ~MessageChanged(ev)
    <3>1. SameToPublish(new, ev)
      BY <1>2, <1>3, <2>1, <2>2 DEF SameToPublish
    <3>2. Settled(ev, algo_messages)
      <4>1. CASE ~ev.publish_flag
        BY <4>1 DEF InHand
      <4>2. CASE ev.publish_flag /\ Considered(ev)
        BY <2>2, <4>2 DEF MessageChanged, Settled, Shown
      <4>3. CASE ev.publish_flag /\ ~Considered(ev)
        BY <4>3 DEF Considered, Settled, UpToDate
      <4> QED BY <4>1, <4>2, <4>3 DEF DMEvents
    <3> QED BY <1>4, <3>1, <3>2, SettledLemma DEF new
  <2>3. CASE Considered(ev) /\ MessageChanged(ev)
    <3>1. Filtered(ev) \/ ~PublishAloneOk(ev)
      BY <1>6, <2>3 DEF Publishes
    <3>2. FilteredWith(ev, algo_messages) \/ ~PublishAloneOk(ev)
      BY <3>1 DEF Filtered, FilteredWith
    <3>3. FilteredWith(new, algo_messages) \/ ~PublishAloneOk(new)
      BY <1>3, <2>1, <3>2 DEF FilteredWith, PublishAloneOk, PassedTwoAlgMag
    <3> QED BY <1>4, <3>3 DEF Settled, new
  <2> QED BY <2>2, <2>3
<1> QED BY <1>5, <1>6

(* Other messages do not matter to an event.                               *)
LEMMA OthersMessages ==
  ASSUME NEW ev, NEW msgs1, NEW msgs2, InHand(ev, msgs1),
         \A k \in ev.algo_events : msgs2[k] = msgs1[k]
  PROVE  InHand(ev, msgs2)
<1>1. SameToPublish(ev, ev)
  BY DEF SameToPublish
<1> QED BY <1>1, SettledLemma DEF InHand

(* When a message comes every event is settled, so its flag may be cleared.*)
LEMMA ResetInHand ==
  ASSUME IndInv, PubInv, phase = "receive"
  PROVE  AllInHand(FlagsReset, algo_messages)
<1> SUFFICES ASSUME NEW e \in DOMAIN dm_events
             PROVE  InHand(FlagsReset[e], algo_messages)
  BY DEF AllInHand, FlagsReset
<1>1. dm_events[e] \in DMEvents
  BY Facts DEF EventMap
<1>2. FlagsReset[e] = [dm_events[e] EXCEPT !.publish_flag = FALSE]
  BY DEF FlagsReset
<1>3. SameToPublish(FlagsReset[e], dm_events[e])
  BY <1>1, <1>2 DEF SameToPublish, DMEvents
<1>4. Averaged(dm_events[e], algo_messages) /\ Settled(dm_events[e], algo_messages)
  BY DEF PubInv, AllInHand, InHand
<1> QED BY <1>3, <1>4, SettledLemma DEF InHand

LEMMA AssociateInHand ==
  ASSUME NEW dm, NEW msgs, NEW k \in DOMAIN msgs, EventMap(dm), MessageMap(msgs),
         Known(dm, msgs), \A e \in DOMAIN dm : k \notin dm[e].algo_events,
         AllInHand(dm, msgs), Associate(dm, k, msgs)
  PROVE  AllInHand(dm_events', msgs)
<1> DEFINE tried == AfterTrials(dm, k, msgs)
           Gains(ev) == Flagged(AddAlgoEvent(ev, k, msgs))
<1>1. Alike(tried, dm)
  BY AfterTrialsLemma
<1>2. AllInHand(tried, msgs)
  <2> SUFFICES ASSUME NEW e \in DOMAIN dm PROVE InHand(tried[e], msgs)
    BY DEF AllInHand, AfterTrials
  <2>1. /\ dm[e] \in DMEvents /\ dm[e].algo_events \subseteq DOMAIN msgs
        /\ k \notin dm[e].algo_events /\ InHand(dm[e], msgs)
    BY DEF EventMap, Known, AllInHand
  <2>2. InHand(AfterTrial(dm[e], k, msgs), msgs)
    BY <2>1, TrialInHand
  <2>3. tried[e] = AfterTrial(dm[e], k, msgs) \/ tried[e] = dm[e]
    BY DEF AfterTrials
  <2> QED BY <2>1, <2>2, <2>3
<1>3. ASSUME NEW ev \in DMEvents, ev.algo_events \subseteq DOMAIN msgs
      PROVE  InHand(Gains(ev), msgs)
  BY <1>3, GainInHand
<1>4. /\ NewEvent(k, msgs) \in DMEvents
      /\ NewEvent(k, msgs).algo_events \subseteq DOMAIN msgs
  BY PayloadAssumption DEF NewEvent, DMEvents, MessageMap, Messages, Keys
<1>5. \E e, ev : /\ ev \in DMEvents /\ ev.algo_events \subseteq DOMAIN msgs
                /\ dm_events' = Put(tried, e, Gains(ev))
  <2>1. CASE \E e \in DOMAIN dm : dm_events' = Put(tried, e, Gains(tried[e]))
    BY <1>1, <2>1 DEF Alike, Known
  <2>2. CASE dm_events' = Put(tried, next_event_id, Gains(NewEvent(k, msgs)))
    BY <1>4, <2>2
  <2> QED BY <2>1, <2>2 DEF Associate, BestFit, Fitting, Tried, Reusable
<1>6. PICK e, ev : /\ ev \in DMEvents /\ ev.algo_events \subseteq DOMAIN msgs
                   /\ dm_events' = Put(tried, e, Gains(ev))
  BY <1>5
<1>7. InHand(Gains(ev), msgs)
  BY <1>3, <1>6
<1> HIDE DEF tried, Gains
<1> QED BY <1>2, <1>6, <1>7 DEF AllInHand, Put

-----------------------------------------------------------------------------
(* Each step keeps the events in hand, and publication settles them.       *)
LEMMA ReceiveUpdatePub ==
  ASSUME NEW k \in Keys, NEW ver \in Versions, NEW body \in Payloads, IndInv,
         PubInv, ReceiveUpdate(k, ver, body)
  PROVE  PubInv'
<1>0. /\ phase = "receive" /\ phase' = "expire"
      /\ k \in DOMAIN algo_messages
      /\ algo_messages' = Put(algo_messages, k, [ver |-> ver, body |-> body])
      /\ dm_events' = SetDMEventPublish(FlagsReset, k, algo_messages')
  BY DEF ReceiveUpdate, Arrives
<1>1. /\ MessageMap(algo_messages')
      /\ \A j \in DOMAIN algo_messages \ {k} : algo_messages'[j] = algo_messages[j]
  BY <1>0, Facts, DecisionModuleAssumption DEF Put, MessageMap, Messages
<1>2. /\ AllInHand(FlagsReset, algo_messages)
      /\ EventMap(FlagsReset) /\ Known(FlagsReset, algo_messages)
  BY <1>0, ResetInHand, ResetFacts
<1>3. ASSUME NEW e \in DOMAIN FlagsReset
      PROVE  InHand(dm_events'[e], algo_messages')
  <2>1. CASE k \in FlagsReset[e].algo_events
    <3>1. dm_events'[e] = UpdateEvent(FlagsReset[e], algo_messages')
      BY <1>0, <2>1 DEF SetDMEventPublish
    <3>2. FlagsReset[e] \in DMEvents
      BY <1>2 DEF EventMap
    <3> QED BY <1>1, <3>1, <3>2, UpdateInHand
  <2>2. CASE k \notin FlagsReset[e].algo_events
    <3>1. dm_events'[e] = FlagsReset[e]
      BY <1>0, <2>2 DEF SetDMEventPublish
    <3>2. \A j \in FlagsReset[e].algo_events : algo_messages'[j] = algo_messages[j]
      BY <1>1, <1>2, <2>2 DEF Known
    <3>3. InHand(FlagsReset[e], algo_messages)
      BY <1>2 DEF AllInHand
    <3> QED BY <3>1, <3>2, <3>3, OthersMessages
  <2> QED BY <2>1, <2>2
<1>4. DOMAIN dm_events' = DOMAIN FlagsReset
  BY <1>0 DEF SetDMEventPublish
<1> QED BY <1>0, <1>3, <1>4 DEF PubInv, AllInHand

LEMMA ReceiveNewPub ==
  ASSUME NEW k \in Keys, NEW ver \in Versions, NEW body \in Payloads, IndInv,
         PubInv, ReceiveNew(k, ver, body)
  PROVE  PubInv'
<1>0. /\ phase = "receive" /\ phase' = "expire"
      /\ k \notin DOMAIN algo_messages
      /\ algo_messages' = Put(algo_messages, k, [ver |-> ver, body |-> body])
      /\ Associate(FlagsReset, k, algo_messages')
  BY DEF ReceiveNew, Arrives
<1>1. /\ MessageMap(algo_messages') /\ k \in DOMAIN algo_messages'
      /\ DOMAIN algo_messages \subseteq DOMAIN algo_messages'
      /\ \A j \in DOMAIN algo_messages : algo_messages'[j] = algo_messages[j]
  BY <1>0, Facts, DecisionModuleAssumption DEF Put, MessageMap, Messages
<1>2. /\ AllInHand(FlagsReset, algo_messages)
      /\ EventMap(FlagsReset) /\ Known(FlagsReset, algo_messages)
  BY <1>0, ResetInHand, ResetFacts
<1>3. /\ Known(FlagsReset, algo_messages')
      /\ \A e \in DOMAIN FlagsReset : k \notin FlagsReset[e].algo_events
  BY <1>0, <1>1, <1>2 DEF Known
<1>4. AllInHand(FlagsReset, algo_messages')
  <2> SUFFICES ASSUME NEW e \in DOMAIN FlagsReset
               PROVE  InHand(FlagsReset[e], algo_messages')
    BY DEF AllInHand
  <2>1. /\ InHand(FlagsReset[e], algo_messages)
        /\ \A j \in FlagsReset[e].algo_events : algo_messages'[j] = algo_messages[j]
    BY <1>1, <1>2 DEF AllInHand, Known
  <2> QED BY <2>1, OthersMessages
<1>5. AllInHand(dm_events', algo_messages')
  BY <1>0, <1>1, <1>2, <1>3, <1>4, AssociateInHand
<1> QED BY <1>0, <1>5 DEF PubInv

LEMMA ReceiveDeletePub ==
  ASSUME NEW k \in Keys, NEW body \in Payloads, IndInv, PubInv,
         ReceiveDelete(k, body)
  PROVE  PubInv'
<1>0. /\ phase = "receive" /\ phase' = "expire"
      /\ IF k \in DOMAIN algo_messages
         THEN dm_events' = RemoveAlgo(FlagsReset, k, algo_messages)
         ELSE dm_events' = FlagsReset
      /\ algo_messages' = Erase(algo_messages, {k})
  BY DEF ReceiveDelete, Arrives
<1>1. /\ AllInHand(FlagsReset, algo_messages) /\ MessageMap(algo_messages)
      /\ EventMap(FlagsReset) /\ Known(FlagsReset, algo_messages)
  BY <1>0, ResetInHand, ResetFacts, Facts
<1>2. ASSUME NEW e \in DOMAIN FlagsReset
      PROVE  /\ InHand(dm_events'[e], algo_messages)
             /\ dm_events'[e].algo_events \subseteq DOMAIN algo_messages \ {k}
  <2>1. /\ FlagsReset[e] \in DMEvents
        /\ FlagsReset[e].algo_events \subseteq DOMAIN algo_messages
        /\ InHand(FlagsReset[e], algo_messages)
    BY <1>1 DEF EventMap, Known, AllInHand
  <2>2. CASE k \in FlagsReset[e].algo_events
    <3> DEFINE left == RemoveAlgoEvent(FlagsReset[e], k, algo_messages)
    <3>1. dm_events'[e] = UpdateEvent(left, algo_messages)
      BY <1>0, <2>1, <2>2 DEF RemoveAlgo
    <3>2. /\ left \in DMEvents
          /\ left.algo_events = FlagsReset[e].algo_events \ {k}
      BY <1>1, <2>1, RemoveLemma
    <3> HIDE DEF left
    <3>3. left.algo_events \subseteq DOMAIN algo_messages
      BY <2>1, <3>2
    <3>4. UpdateEvent(left, algo_messages).algo_events = left.algo_events
      BY <1>1, <3>2, <3>3, UpdateLemma
    <3> QED BY <1>1, <2>1, <3>1, <3>2, <3>4, UpdateInHand
  <2>3. CASE k \notin FlagsReset[e].algo_events
    <3>1. dm_events'[e] = FlagsReset[e]
      BY <1>0, <2>3 DEF RemoveAlgo
    <3> QED BY <2>1, <2>3, <3>1
  <2> QED BY <2>2, <2>3
<1>3. DOMAIN dm_events' = DOMAIN FlagsReset
  BY <1>0 DEF RemoveAlgo
<1>4. \A j \in DOMAIN algo_messages \ {k} : algo_messages'[j] = algo_messages[j]
  BY <1>0 DEF Erase
<1>5. ASSUME NEW e \in DOMAIN dm_events'
      PROVE  InHand(dm_events'[e], algo_messages')
  <2>1. /\ InHand(dm_events'[e], algo_messages)
        /\ \A j \in dm_events'[e].algo_events : algo_messages'[j] = algo_messages[j]
    BY <1>2, <1>3, <1>4
  <2> QED BY <2>1, OthersMessages
<1> QED BY <1>0, <1>5 DEF PubInv, AllInHand

LEMMA ReviewCurrentPub ==
  ASSUME NEW id, IndInv, PubInv, ReviewCurrent(id)
  PROVE  PubInv'
<1> DEFINE gone == dm_events[id].algo_events \cap DOMAIN algo_messages
<1>0. /\ phase = "receive" /\ phase' = "expire" /\ id \in DOMAIN dm_events
      /\ algo_messages' = Erase(algo_messages, gone)
  BY DEF ReviewCurrent
<1>1. PICK last \in gone :
        dm_events' = Put(FlagsReset, id,
                         Emptied(FlagsReset[id], last, algo_messages))
  BY DEF ReviewCurrent
<1>2. /\ AllInHand(FlagsReset, algo_messages) /\ MessageMap(algo_messages)
      /\ Alike(FlagsReset, dm_events)
      /\ EventMap(FlagsReset) /\ Partition(FlagsReset, algo_messages)
  BY <1>0, ResetInHand, ResetFacts, Facts
<1> DEFINE reset == FlagsReset[id]
           sole == [reset EXCEPT !.algo_events = {last}]
           flagged == UpdateEvent(sole, algo_messages)
           left == [flagged EXCEPT !.algo_events = @ \ {last}]
           emptied == Emptied(reset, last, algo_messages)
<1>3. InHand(emptied, algo_messages) /\ emptied.algo_events = {}
  <2>1. reset \in DMEvents
    BY <1>0, <1>2 DEF Alike
  <2>2. last \in DOMAIN algo_messages /\ last \in Keys
    BY <1>1, <1>2 DEF MessageMap
  <2>3. /\ sole \in DMEvents /\ sole.algo_events = {last}
        /\ sole.algo_events \subseteq DOMAIN algo_messages
    <3> HIDE DEF reset
    <3> QED BY <2>1, <2>2 DEF DMEvents
  <2>4. emptied = RemoveAlgoEvent(flagged, last, algo_messages)
    BY DEF Emptied
  <2> HIDE DEF reset, sole, emptied
  <2>5. /\ flagged \in DMEvents /\ flagged.algo_events = {last}
        /\ flagged.publish_flag
    BY <1>2, <2>3, UpdateLemma, UpdateInHand
  <2> HIDE DEF flagged
  <2>6. emptied = Recalculate(left, algo_messages)
    BY <2>4, <2>5 DEF RemoveAlgoEvent
  <2>7. left \in DMEvents /\ left.algo_events = {} /\ left.publish_flag
    BY <2>5 DEF DMEvents
  <2> HIDE DEF left
  <2>8. Averaged(emptied, algo_messages) /\ emptied.publish_flag
    BY <1>2, <2>6, <2>7, MeanLemma
  <2>9. emptied.algo_events = {}
    BY <1>2, <2>6, <2>7, RecalculateLemma
  <2> QED BY <2>8, <2>9 DEF InHand
<1> HIDE DEF emptied, gone
<1>4. /\ DOMAIN dm_events' = DOMAIN dm_events
      /\ dm_events'[id] = emptied
      /\ \A e \in DOMAIN dm_events \ {id} : dm_events'[e] = FlagsReset[e]
  BY <1>0, <1>1, <1>2 DEF Put, Alike, emptied
<1>5. \A j \in DOMAIN algo_messages \ gone : algo_messages'[j] = algo_messages[j]
  BY <1>0 DEF Erase
<1>6. ASSUME NEW e \in DOMAIN dm_events'
      PROVE  InHand(dm_events'[e], algo_messages')
  <2>1. InHand(dm_events'[e], algo_messages)
    BY <1>2, <1>3, <1>4 DEF AllInHand, Alike
  <2>2. \A j \in dm_events'[e].algo_events : algo_messages'[j] = algo_messages[j]
    <3>1. CASE e = id
      BY <1>3, <1>4, <3>1
    <3>2. CASE e # id
      <4>1. /\ dm_events'[e].algo_events = dm_events[e].algo_events
            /\ dm_events[e].algo_events \subseteq DOMAIN algo_messages
            /\ dm_events[e].algo_events \cap dm_events[id].algo_events = {}
        BY <1>0, <1>2, <1>4, <3>2 DEF Alike, IndInv, Partition, Known
      <4> QED BY <1>5, <4>1 DEF gone
    <3> QED BY <3>1, <3>2
  <2> QED BY <2>1, <2>2, OthersMessages
<1> QED BY <1>0, <1>6 DEF PubInv, AllInHand

LEMMA DiscardOldDMEventsPub ==
  ASSUME IndInv, PubInv, DiscardOldDMEvents
  PROVE  PubInv'
<1> DEFINE old == {e \in DOMAIN dm_events :
                     now - dm_events[e].current.ot > DMTimeout}
           held == UNION {dm_events[e].algo_events : e \in old}
<1>1. /\ phase' = "expire_deletes"
      /\ algo_messages' = Erase(algo_messages, held)
      /\ dm_events' = Erase(dm_events, old)
  BY DEF DiscardOldDMEvents
<1>2. old \subseteq DOMAIN dm_events
      /\ \A k : k \in held => \E e \in old : k \in dm_events[e].algo_events
  OBVIOUS
<1> HIDE DEF old, held
<1>3. ASSUME NEW e \in DOMAIN dm_events'
      PROVE  InHand(dm_events'[e], algo_messages')
  <2>1. e \in DOMAIN dm_events \ old /\ dm_events'[e] = dm_events[e]
    BY <1>1 DEF Erase
  <2>2. dm_events[e].algo_events \subseteq DOMAIN algo_messages \ held
    BY <1>2, <2>1 DEF IndInv, Partition, Known
  <2>3. \A j \in dm_events[e].algo_events : algo_messages'[j] = algo_messages[j]
    BY <1>1, <2>2 DEF Erase
  <2>4. InHand(dm_events[e], algo_messages)
    BY <2>1 DEF PubInv, AllInHand
  <2> QED BY <2>1, <2>3, <2>4, OthersMessages
<1> QED BY <1>1, <1>3 DEF PubInv, AllInHand

LEMMA PublishDMEventsPub ==
  ASSUME IndInv, PubInv, PublishDMEvents
  PROVE  PubInv'
<1>1. /\ dm_events' = [e \in DOMAIN dm_events \ EmptyEvents |->
                         AfterPublish(dm_events[e])]
      /\ algo_messages' = algo_messages
  BY DEF PublishDMEvents
<1>2. ASSUME NEW e \in DOMAIN dm_events'
      PROVE  /\ Averaged(dm_events'[e], algo_messages')
             /\ Settled(dm_events'[e], algo_messages')
  <2>1. e \in DOMAIN dm_events /\ dm_events'[e] = AfterPublish(dm_events[e])
    BY <1>1
  <2>2. dm_events[e] \in DMEvents /\ InHand(dm_events[e], algo_messages)
    BY <2>1, Facts DEF EventMap, PubInv, AllInHand
  <2> QED BY <1>1, <2>1, <2>2, PublishSettles
<1> QED BY <1>2 DEF PubInv, AllInHand, InHand

(* The steps that change neither the events nor their messages.            *)
LEMMA NothingChanged ==
  ASSUME IndInv, PubInv, dm_events' = dm_events,
         \A k \in DOMAIN algo_messages : algo_messages'[k] = algo_messages[k],
         phase' \in {"expire_algos", "receive"} =>
           phase \in {"expire_algos", "receive"}
  PROVE  PubInv'
<1>1. ASSUME NEW e \in DOMAIN dm_events
      PROVE  /\ Averaged(dm_events[e], algo_messages')
             /\ ~dm_events[e].publish_flag => Settled(dm_events[e], algo_messages')
             /\ Settled(dm_events[e], algo_messages) =>
                  Settled(dm_events[e], algo_messages')
  <2>1. InHand(dm_events[e], algo_messages)
    BY DEF PubInv, AllInHand
  <2>2. \A j \in dm_events[e].algo_events : algo_messages'[j] = algo_messages[j]
    BY DEF IndInv, Partition, Known
  <2>3. SameToPublish(dm_events[e], dm_events[e])
    BY DEF SameToPublish
  <2> QED BY <2>1, <2>2, <2>3, SettledLemma DEF InHand
<1> QED BY <1>1 DEF PubInv, AllInHand, InHand

LEMMA NextPub == IndInv /\ PubInv /\ [Next]_vars => PubInv'
<1> SUFFICES ASSUME IndInv, PubInv, [Next]_vars PROVE PubInv'
  OBVIOUS
<1>1. ASSUME NEW k \in Keys, NEW body \in Payloads, NEW ver \in Versions,
             ReceiveUpdate(k, ver, body) \/ ReceiveNew(k, ver, body)
      PROVE  PubInv'
  BY <1>1, ReceiveUpdatePub, ReceiveNewPub
<1>2. ASSUME NEW k \in Keys, NEW body \in Payloads, ReceiveDelete(k, body)
      PROVE  PubInv'
  BY <1>2, ReceiveDeletePub
<1>3. ASSUME NEW id \in DOMAIN sent, ReviewCurrent(id)
      PROVE  PubInv'
  BY <1>3, ReviewCurrentPub
<1>4. ASSUME ReceiveNothing \/ \E id \in DOMAIN sent : ReviewUnknown(id)
      PROVE  PubInv'
  <2>1. /\ phase = "receive" /\ phase' = "expire" /\ dm_events' = FlagsReset
        /\ algo_messages' = algo_messages
    BY <1>4 DEF ReceiveNothing, ReviewUnknown
  <2> QED BY <2>1, ResetInHand DEF PubInv
<1>5. CASE Receive
  BY <1>1, <1>2, <1>3, <1>4, <1>5 DEF Receive
<1>6. CASE DiscardOldDMEvents
  BY <1>6, DiscardOldDMEventsPub
<1>7. CASE DiscardOldDeleteEvents
  BY <1>7, NothingChanged DEF DiscardOldDeleteEvents
<1>8. CASE UpdateAssociations
  <2>1. phase' = "publish" /\ UNCHANGED <<algo_messages, dm_events>>
    BY <1>8 DEF UpdateAssociations, IndInv
  <2> QED BY <2>1, NothingChanged
<1>9. CASE PublishDMEvents
  BY <1>9, PublishDMEventsPub
<1>10. CASE DiscardOldAlgoEvents
  <2>1. FreeAlgos(dm_events, algo_messages) = {}
    BY DEF IndInv, Partition, FreeAlgos
  <2>2. /\ phase = "expire_algos" /\ dm_events' = dm_events
        /\ \A k \in DOMAIN algo_messages : algo_messages'[k] = algo_messages[k]
    BY <1>10, <2>1 DEF DiscardOldAlgoEvents, Erase
  <2> QED BY <2>2, NothingChanged
<1>11. CASE Tick
  BY <1>11, NothingChanged DEF Tick
<1>12. CASE UNCHANGED vars
  BY <1>12, NothingChanged DEF vars
<1> QED
  BY <1>5, <1>6, <1>7, <1>8, <1>9, <1>10, <1>11, <1>12 DEF Next, Loop

LEMMA PubInvariance == Spec => []PubInv
<1>1. Init => PubInv
  BY DEF Init, PubInv, AllInHand
<1>2. IndInv /\ PubInv /\ [Next]_vars => PubInv'
  BY NextPub
<1> QED BY <1>1, <1>2, Invariance, PTL DEF Spec

(* What was published as it stands is within every threshold.              *)
LEMMA PublishedIsUpToDate ==
  ASSUME NEW ev \in DMEvents, ev.published = ev.current
  PROVE  UpToDate(ev)
<1>1. ev.current \in Attributes
  BY DEF DMEvents
<1>2. ev.published # NotYet
  BY <1>1, ThresholdAssumption
<1>3. \A a \in {"ot", "loc", "mag", "lh"} :
        ~(Distance(ev.current[a], ev.published[a]) > ChangeThreshold[a])
  BY <1>1, ThresholdAssumption DEF Distance, Attributes
<1> QED BY <1>2, <1>3 DEF UpToDate, AboveThreshold

(* Whatever arrives, is held, filtered or removed, in any number of events *)
(* and for every way to form a mean: an alerted event that may be          *)
(* published was published as it stands, or this very message was held     *)
(* before.                                                                 *)
THEOREM PublishedUnlessHeld == Spec => []UpToDateUnlessHeld
<1>1. IndInv /\ PubInv => UpToDateUnlessHeld
  <2> SUFFICES ASSUME IndInv, PubInv, phase \in {"expire_algos", "receive"},
                      NEW e \in DOMAIN dm_events, Publishable(dm_events[e])
               PROVE  UpToDate(dm_events[e]) \/ HeldBefore(dm_events[e])
    BY DEF UpToDateUnlessHeld
  <2> DEFINE ev == dm_events[e]
  <2>1. ev \in DMEvents
    BY DEF IndInv, TypeOK
  <2>2. Settled(ev, algo_messages)
    BY DEF PubInv
  <2>3. ~FilteredWith(ev, algo_messages)
    BY DEF Publishable, Filtered, FilteredWith
  <2>4. UpToDate(ev) \/ Shown(ev)
    BY <2>2, <2>3 DEF Publishable, Settled
  <2>5. CASE Shown(ev) /\ ~HeldBefore(ev)
    <3>1. ev.published = ev.current
      BY <2>5 DEF Shown, HeldBefore, Content
    <3> QED BY <2>1, <3>1, PublishedIsUpToDate
  <2> QED BY <2>4, <2>5
<1> QED BY <1>1, Invariance, PubInvariance, PTL

(* Without PublishChangesOnly no message is remembered, and what DMEvent.h *)
(* says is true: a change past the threshold is published.                 *)
THEOREM ChangesPublishedWithoutMemory ==
  ASSUME ~PublishChangesOnly
  PROVE  Spec => []ChangesPublished
<1>1. UpToDateUnlessHeld => ChangesPublished
  BY DEF UpToDateUnlessHeld, ChangesPublished, HeldBefore, Shown
<1> QED BY <1>1, PublishedUnlessHeld, PTL
=============================================================================
