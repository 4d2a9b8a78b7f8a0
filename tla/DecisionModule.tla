--------------------------- MODULE DecisionModule ---------------------------
(***************************************************************************)
(* The Decision Module (decimod/DecisionModule.cpp), run as "dm" or "sa".  *)
(*                                                                         *)
(* One thread runs the loop of DecisionModule::run.  The steps of one      *)
(* iteration are the actions below, in the order of the code, which phase  *)
(* keeps; the clock may advance between any two of them, because every     *)
(* step reads time() for itself.  The environment chooses the messages:    *)
(* topics lose, repeat and reorder them, and the sources are independent.  *)
(***************************************************************************)
EXTENDS DMEvent

CONSTANTS
  EventIds,              \* the ids getNewEventID may hand out, a bound
  AlgTimeout, DMTimeout, \* AlgEventTimeoutSecs, DMEventTimeoutSecs
  AlgRegion,             \* [system |-> where its messages may lie]
  Region, RegionMinMag,  \* the alert region and its minimum magnitude
  ValidMag,              \* the magnitudes AlgorithmEvent::valuesOK accepts
  DmMinLikelihood,
  UseRepublishThreshold, PublishChangesOnly,
  Versions,              \* versions the sources give to their messages
  MaxVersion,            \* bound: no message arrives once an event has it
  MaxTime                \* bound of the clock

VARIABLES
  phase,            \* the step of the loop that comes next
  now,              \* the wall clock
  algo_messages,    \* [key -> message], the std::map of the code
  free_algo_messages,
  delete_messages,  \* [key -> origin time of the DELETE that was kept]
  dm_events,        \* [id -> event]
  next_event_id,
  sent              \* [id -> last message published for it]

vars == <<phase, now, algo_messages, free_algo_messages, delete_messages,
          dm_events, next_event_id, sent>>

ASSUME DecisionModuleAssumption ==
  /\ EventIds \subseteq Nat \ {0}
  /\ Versions \subseteq Nat
  /\ MaxVersion \in Nat /\ MaxTime \in Nat

Phases == {"receive", "expire", "expire_deletes", "associate", "publish",
           "expire_algos"}

Published == [type : {"NEW", "UPDATE"}, ver : Nat, body : Attributes]
Cancelled == [type : {"DELETE"}, ver : Nat]

-----------------------------------------------------------------------------
(* std::map insertion and removal.                                         *)
Put(map, k, v) == [x \in DOMAIN map \cup {k} |-> IF x = k THEN v ELSE map[x]]
Erase(map, S) == [x \in DOMAIN map \ S |-> map[x]]

(* processMessage first clears the flag of every event.                    *)
FlagsReset ==
  [e \in DOMAIN dm_events |-> [dm_events[e] EXCEPT !.publish_flag = FALSE]]

InsideAlgRegions(loc, src) == loc \in AlgRegion[SystemOf[src]]

ValuesOK(body) == body.mag \in ValidMag

(* Mutant of Acceptable: the tombstones are not looked at.                 *)
AcceptableDespiteDelete(k, body) ==
  /\ InsideAlgRegions(body.loc, k.src)
  /\ ValuesOK(body)
  /\ k.cat = "LIVE" => now - body.ot <= AlgTimeout

(* The checks of processMessage on a NEW or UPDATE message.                *)
Acceptable(k, body) ==
  /\ InsideAlgRegions(body.loc, k.src)
  /\ ValuesOK(body)
  /\ k.cat = "LIVE" => now - body.ot <= AlgTimeout
  /\ k \notin DOMAIN delete_messages

(* Mutant of RemoveAlgo: the message stays a member of its event.          *)
MessageStaysMember(dm, k, msgs) == dm

(* removeAlgoFromDMEvent.                                                  *)
RemoveAlgo(dm, k, msgs) ==
  [e \in DOMAIN dm |->
     IF k \in dm[e].algo_events
     THEN UpdateEvent(RemoveAlgoEvent(dm[e], k, msgs), msgs)
     ELSE dm[e]]

(* setDMEventPublish.                                                      *)
SetDMEventPublish(dm, k, msgs) ==
  [e \in DOMAIN dm |->
     IF k \in dm[e].algo_events THEN UpdateEvent(dm[e], msgs) ELSE dm[e]]

(* updateFreeAlgoList.                                                     *)
FreeAlgos(dm, msgs) ==
  {k \in DOMAIN msgs : \A e \in DOMAIN dm : k \notin dm[e].algo_events}

-----------------------------------------------------------------------------
(* associateAlgorithmEvent.                                                *)
InsideRegions(ev, k, msgs) ==
  \A j \in ev.algo_events :
    /\ InsideAlgRegions(msgs[j].body.loc, k.src)
    /\ InsideAlgRegions(msgs[k].body.loc, j.src)

Tried(dm, k, msgs) ==
  {e \in DOMAIN dm : /\ dm[e].category = k.cat
                     /\ dm[e].algo_events # {}
                     /\ InsideRegions(dm[e], k, msgs)}

Fitting(dm, k, msgs) ==
  {e \in Tried(dm, k, msgs) :
     ~Conflicts(dm[e], k) /\ TrialFits(dm[e], k, msgs)}

BestFit(dm, k, msgs) ==
  {e \in Fitting(dm, k, msgs) :
     \A f \in Fitting(dm, k, msgs) :
       TrialMisfit(dm[e], k, msgs) <= TrialMisfit(dm[f], k, msgs)}

Reusable(dm, k) ==
  {e \in DOMAIN dm : /\ dm[e].category = k.cat
                     /\ dm[e].algo_events = {}
                     /\ k \in dm[e].previous_algo_events}

(* Mutant of NewEvent: the version starts one too low.                     *)
NewEventBelowStart(k, msgs) ==
  [algo_events |-> {}, previous_algo_events |-> {}, category |-> k.cat,
   current |-> msgs[k].body, publish_flag |-> FALSE, version |-> -2,
   published |-> NotYet, previous_message |-> NotYet]

NewEvent(k, msgs) ==
  [algo_events |-> {}, previous_algo_events |-> {}, category |-> k.cat,
   current |-> msgs[k].body, publish_flag |-> FALSE, version |-> -1,
   published |-> NotYet, previous_message |-> NotYet]

Flagged(ev) == [ev EXCEPT !.publish_flag = TRUE]

AfterTrials(dm, k, msgs) ==
  [e \in DOMAIN dm |->
     IF e \in Tried(dm, k, msgs) THEN AfterTrial(dm[e], k, msgs) ELSE dm[e]]

(* The event that takes message k: the best fit, else an emptied event     *)
(* that held it before, else a new one with the next id.                   *)
Associate(dm, k, msgs) ==
  LET tried    == AfterTrials(dm, k, msgs)
      existing == IF Fitting(dm, k, msgs) # {} THEN BestFit(dm, k, msgs)
                  ELSE Reusable(dm, k)
  IN IF existing # {}
     THEN /\ \E e \in existing :
               dm_events' = Put(tried, e,
                                Flagged(AddAlgoEvent(tried[e], k, msgs)))
          /\ UNCHANGED next_event_id
     ELSE /\ next_event_id \in EventIds
          /\ dm_events' = Put(tried, next_event_id,
                              Flagged(AddAlgoEvent(NewEvent(k, msgs), k, msgs)))
          /\ next_event_id' = next_event_id + 1

-----------------------------------------------------------------------------
Init ==
  /\ phase = "receive"
  /\ now = 0
  /\ algo_messages = [k \in {} |-> {}]
  /\ free_algo_messages = {}
  /\ delete_messages = [k \in {} |-> 0]
  /\ dm_events = [e \in {} |-> {}]
  /\ next_event_id = 1
  /\ sent = [e \in {} |-> {}]

(* The messages the sources may send now: no origin in the future.         *)
Arrives(body) ==
  /\ phase = "receive"
  /\ body.ot <= now
  /\ \A e \in DOMAIN dm_events : dm_events[e].version < MaxVersion

(* receive() times out, or processMessage refuses the message.             *)
ReceiveNothing ==
  /\ phase = "receive"
  /\ phase' = "expire"
  /\ dm_events' = FlagsReset
  /\ UNCHANGED <<now, algo_messages, free_algo_messages, delete_messages,
                 next_event_id, sent>>

(* handleAlgoMsg with a key that is already known: only a higher version   *)
(* replaces the message.                                                   *)
ReceiveUpdate(k, ver, body) ==
  /\ Arrives(body) /\ Acceptable(k, body)
  /\ k \in DOMAIN algo_messages
  /\ ver > algo_messages[k].ver
  /\ phase' = "expire"
  /\ algo_messages' = Put(algo_messages, k, [ver |-> ver, body |-> body])
  /\ dm_events' = SetDMEventPublish(FlagsReset, k, algo_messages')
  /\ free_algo_messages' = FreeAlgos(dm_events', algo_messages')
  /\ UNCHANGED <<now, delete_messages, next_event_id, sent>>

(* handleAlgoMsg with a new key.                                           *)
ReceiveNew(k, ver, body) ==
  /\ Arrives(body) /\ Acceptable(k, body)
  /\ k \notin DOMAIN algo_messages
  /\ phase' = "expire"
  /\ algo_messages' = Put(algo_messages, k, [ver |-> ver, body |-> body])
  /\ Associate(FlagsReset, k, algo_messages')
  /\ free_algo_messages' = FreeAlgos(dm_events', algo_messages')
  /\ UNCHANGED <<now, delete_messages, sent>>

(* handleDeleteMsg, from an algorithm: the tombstone keeps the origin time *)
(* of the DELETE message.  The region is checked, age and values are not.  *)
ReceiveDelete(k, body) ==
  /\ Arrives(body) /\ InsideAlgRegions(body.loc, k.src)
  /\ phase' = "expire"
  /\ IF k \in DOMAIN algo_messages
     THEN dm_events' = RemoveAlgo(FlagsReset, k, algo_messages)
     ELSE dm_events' = FlagsReset
  /\ algo_messages' = Erase(algo_messages, {k})
  /\ delete_messages' = IF k \in DOMAIN delete_messages THEN delete_messages
                        ELSE Put(delete_messages, k, body.ot)
  /\ UNCHANGED <<now, free_algo_messages, next_event_id, sent>>

(* The members of an event leave it one after the other: with each the     *)
(* attributes are formed anew, so those of the last member stay.           *)
Emptied(ev, last, msgs) ==
  RemoveAlgoEvent(UpdateEvent([ev EXCEPT !.algo_events = {last}], msgs),
                  last, msgs)

(* handleDeleteMsg, from DMReview, for an event that is still current: its *)
(* messages become tombstones, and publishDMEvents will cancel it.         *)
ReviewCurrent(id) ==
  /\ phase = "receive"
  /\ id \in DOMAIN dm_events
  /\ phase' = "expire"
  /\ LET gone == dm_events[id].algo_events \cap DOMAIN algo_messages
     IN /\ \E last \in gone :
             dm_events' = Put(FlagsReset, id,
                              Emptied(FlagsReset[id], last, algo_messages))
        /\ delete_messages' =
             [k \in DOMAIN delete_messages \cup gone |->
                IF k \in DOMAIN delete_messages THEN delete_messages[k]
                ELSE algo_messages[k].body.ot]
        /\ algo_messages' = Erase(algo_messages, gone)
  /\ UNCHANGED <<now, free_algo_messages, next_event_id, sent>>

(* The same for an id that is not current: a cancel message at once, with  *)
(* version 0 whatever was published before.                                *)
ReviewUnknown(id) ==
  /\ phase = "receive"
  /\ id \notin DOMAIN dm_events
  /\ phase' = "expire"
  /\ dm_events' = FlagsReset
  /\ sent' = Put(sent, id, [type |-> "DELETE", ver |-> 0])
  /\ UNCHANGED <<now, algo_messages, free_algo_messages, delete_messages,
                 next_event_id>>

(* discardOldDMEvents.                                                     *)
DiscardOldDMEvents ==
  LET old == {e \in DOMAIN dm_events :
                now - dm_events[e].current.ot > DMTimeout}
  IN /\ phase = "expire"
     /\ phase' = "expire_deletes"
     /\ algo_messages' =
          Erase(algo_messages, UNION {dm_events[e].algo_events : e \in old})
     /\ dm_events' = Erase(dm_events, old)
     /\ UNCHANGED <<now, free_algo_messages, delete_messages, next_event_id,
                    sent>>

(* discardOldDeleteEvents.                                                 *)
DiscardOldDeleteEvents ==
  /\ phase = "expire_deletes"
  /\ phase' = "associate"
  /\ delete_messages' =
       Erase(delete_messages, {k \in DOMAIN delete_messages :
                                 now - delete_messages[k] > AlgTimeout})
  /\ UNCHANGED <<now, algo_messages, free_algo_messages, dm_events,
                 next_event_id, sent>>

(* while(updateAssociations()) updateFreeAlgoList(): one free message at a *)
(* time, until there is none.                                              *)
UpdateAssociations ==
  /\ phase = "associate"
  /\ IF free_algo_messages = {}
     THEN phase' = "publish"
          /\ UNCHANGED <<algo_messages, free_algo_messages, dm_events,
                         next_event_id>>
     ELSE /\ UNCHANGED <<phase, algo_messages>>
          /\ \E k \in free_algo_messages : Associate(dm_events, k, algo_messages')
          /\ free_algo_messages' = FreeAlgos(dm_events', algo_messages')
  /\ UNCHANGED <<now, delete_messages, sent>>

-----------------------------------------------------------------------------
(* DecisionModule::filter, without the ground-motion contour.              *)
Filtered(ev) ==
  \/ ev.published = NotYet /\ (ev.current.loc \notin Region
                               \/ ev.current.mag < RegionMinMag)
  \/ ev.current.lh < DmMinLikelihood
  \/ ~PassedTwoAlgMag(ev, algo_messages)

MessageChanged(ev) ==
  ~PublishChangesOnly \/ ev.version < 0 \/ Content(ev) # ev.previous_message

(* publishDMEvent asks messageChanged only past the threshold and the core *)
(* contributor checks.                                                     *)
Considered(ev) ==
  /\ ev.publish_flag
  /\ ~UseRepublishThreshold \/ AboveThreshold(ev)
  /\ ContainsCore(ev)

Publishes(ev) ==
  Considered(ev) /\ ~Filtered(ev) /\ PublishAloneOk(ev) /\ MessageChanged(ev)

(* Mutant of AfterPublish: a version is counted although the alert is held.*)
HeldAlertCounted(ev) ==
  [ev EXCEPT
     !.previous_message =
        IF PublishChangesOnly /\ Considered(ev) /\ MessageChanged(ev)
        THEN Content(ev) ELSE @,
     !.version = IF Considered(ev) /\ MessageChanged(ev) THEN @ + 1 ELSE @,
     !.published = IF Publishes(ev) THEN ev.current ELSE @]

(* messageChanged remembers the message it was shown even when the alert   *)
(* is then held.                                                           *)
AfterPublish(ev) ==
  [ev EXCEPT
     !.previous_message =
        IF PublishChangesOnly /\ Considered(ev) /\ MessageChanged(ev)
        THEN Content(ev) ELSE @,
     !.version = IF Publishes(ev) THEN @ + 1 ELSE @,
     !.published = IF Publishes(ev) THEN ev.current ELSE @]

(* Mutant of EmptyEvents: only an event that was alerted is cancelled.     *)
EmptyAlertedEvents ==
  {e \in DOMAIN dm_events : /\ dm_events[e].algo_events = {}
                            /\ dm_events[e].version >= 0}

(* publishDMEvents: cancel and drop the events without members, publish    *)
(* the flagged ones.                                                       *)
EmptyEvents == {e \in DOMAIN dm_events : dm_events[e].algo_events = {}}

AlertedEvents ==
  {e \in DOMAIN dm_events \ EmptyEvents : Publishes(dm_events[e])}

PublishDMEvents ==
  LET message(e) ==
        IF e \in EmptyEvents
        THEN [type |-> "DELETE", ver |-> dm_events[e].version + 1]
        ELSE [type |-> Content(dm_events[e]).type,
              ver |-> dm_events[e].version + 1, body |-> dm_events[e].current]
  IN /\ phase = "publish"
     /\ phase' = "expire_algos"
     /\ dm_events' = [e \in DOMAIN dm_events \ EmptyEvents |->
                        AfterPublish(dm_events[e])]
     /\ sent' = [e \in DOMAIN sent \cup EmptyEvents \cup AlertedEvents |->
                   IF e \in EmptyEvents \cup AlertedEvents
                   THEN message(e) ELSE sent[e]]
     /\ UNCHANGED <<now, algo_messages, free_algo_messages, delete_messages,
                    next_event_id>>

(* discardOldAlgoEvents.                                                   *)
DiscardOldAlgoEvents ==
  /\ phase = "expire_algos"
  /\ phase' = "receive"
  /\ algo_messages' =
       Erase(algo_messages,
             {k \in FreeAlgos(dm_events, algo_messages) :
                now - algo_messages[k].body.ot > AlgTimeout})
  /\ UNCHANGED <<now, free_algo_messages, delete_messages, dm_events,
                 next_event_id, sent>>

Tick ==
  /\ now < MaxTime
  /\ now' = now + 1
  /\ UNCHANGED <<phase, algo_messages, free_algo_messages, delete_messages,
                 dm_events, next_event_id, sent>>

(* A reviewer cancels an alert it has seen.                                *)
Receive ==
  \/ ReceiveNothing
  \/ \E k \in Keys, body \in Payloads :
       \/ \E ver \in Versions : ReceiveUpdate(k, ver, body)
                                \/ ReceiveNew(k, ver, body)
       \/ ReceiveDelete(k, body)
  \/ \E id \in DOMAIN sent : ReviewCurrent(id) \/ ReviewUnknown(id)

Loop ==
  \/ Receive
  \/ DiscardOldDMEvents \/ DiscardOldDeleteEvents \/ UpdateAssociations
  \/ PublishDMEvents \/ DiscardOldAlgoEvents

Next == Loop \/ Tick

Spec == Init /\ [][Next]_vars

-----------------------------------------------------------------------------
(* The types of the state.                                                 *)
TypeOK ==
  /\ phase \in Phases
  /\ now \in 0 .. MaxTime
  /\ DOMAIN algo_messages \subseteq Keys
  /\ \A k \in DOMAIN algo_messages : algo_messages[k] \in Messages
  /\ free_algo_messages \subseteq Keys
  /\ DOMAIN delete_messages \subseteq Keys
  /\ \A k \in DOMAIN delete_messages : delete_messages[k] \in Int
  /\ DOMAIN dm_events \subseteq EventIds
  /\ \A e \in DOMAIN dm_events : dm_events[e] \in DMEvents
  /\ next_event_id \in Nat \ {0}
  /\ DOMAIN sent \subseteq EventIds
  /\ \A e \in DOMAIN sent : sent[e] \in Published \cup Cancelled

(* Every key an event holds is in algo_messages: individualAlgoMisfit,     *)
(* loadAlgExtra, publishAloneOk and passedTwoAlgMag dereference the find() *)
(* of a member without testing it.                                         *)
MembersKnown ==
  \A e \in DOMAIN dm_events :
    dm_events[e].algo_events \subseteq DOMAIN algo_messages

(* A stored message belongs to exactly one event ("there should only be    *)
(* one", setDMEventPublish), so none is ever free for updateAssociations   *)
(* and none expires in discardOldAlgoEvents.                               *)
OneEventPerMessage ==
  /\ FreeAlgos(dm_events, algo_messages) = {}
  /\ free_algo_messages = {}
  /\ \A e, f \in DOMAIN dm_events :
       e # f => dm_events[e].algo_events \cap dm_events[f].algo_events = {}

(* An event never holds two messages of one source, nor of two categories: *)
(* checkNewAlgoMisfit and the tests of associateAlgorithmEvent see to it,  *)
(* whatever updates and deletes come in between.                           *)
OneMessagePerSource ==
  \A e \in DOMAIN dm_events : \A j, k \in dm_events[e].algo_events :
    /\ j.cat = dm_events[e].category
    /\ j.src = k.src => j = k

(* An emptied event lasts no longer than the iteration that emptied it,    *)
(* so no message finds one to reuse in associateAlgorithmEvent.            *)
NoEmptyEventAtReceive ==
  phase \in {"receive", "expire_algos"} =>
    \A e \in DOMAIN dm_events : dm_events[e].algo_events # {}

(* A source's event that was deleted, by the source or by DMReview, is not *)
(* among the stored messages while its tombstone lasts.                    *)
DeletedStaysAway == DOMAIN delete_messages \cap DOMAIN algo_messages = {}

(* To its subscribers the module is an AlertStream: versions 0, 1, 2, ...  *)
(* per id whatever was held or refused in between, nothing after a DELETE  *)
(* but DMReview's repeal, and no id twice, although version, publish_flag  *)
(* and the membership are changed by five different functions.             *)
Subscribers ==
  INSTANCE AlertStream WITH
    Ids <- EventIds, Reopens <- FALSE,
    open <- DOMAIN dm_events, next_id <- next_event_id,
    sent <- [e \in DOMAIN sent |-> [type |-> sent[e].type, ver |-> sent[e].ver]]

ImplementsAlertStream == Subscribers!Spec

Publishable(ev) ==
  ev.version >= 0 /\ ContainsCore(ev) /\ ~Filtered(ev) /\ PublishAloneOk(ev)

(* The last message published says what the event says.                    *)
UpToDate(ev) ==
  IF UseRepublishThreshold THEN ~AboveThreshold(ev)
  ELSE ev.published = ev.current

(* messageChanged has seen this very message, published or held, ...       *)
Shown(ev) == PublishChangesOnly /\ ev.previous_message = Content(ev)

(* ... and it was held, for it is not the one last published.              *)
HeldBefore(ev) == Shown(ev) /\ ev.previous_message.body # ev.published

(* From publishDMEvents to the next message, an alerted event that may be  *)
(* published was published as it is (within the threshold, if that is      *)
(* used), unless this very message was held when it was first formed.      *)
(* The decision hangs on a flag that five functions set and every message  *)
(* clears, and on two memories, published and previous_message, the second *)
(* of which is also written when the alert is held.                        *)
UpToDateUnlessHeld ==
  phase \in {"expire_algos", "receive"} =>
    \A e \in DOMAIN dm_events :
      LET ev == dm_events[e]
      IN Publishable(ev) => UpToDate(ev) \/ HeldBefore(ev)

-----------------------------------------------------------------------------
(* What comments and documents say of the module, and the code does not    *)
(* do: each is refuted by a run of its own.                                *)

(* ChangeLog of 2.0.22: when the contributors of a current event are       *)
(* removed, publishDMEvents sends out a cancellation.  But discardOld-     *)
(* DMEvents runs in between.                                               *)
EmptiedEventIsCancelled ==
  [][\A e \in DOMAIN dm_events \ DOMAIN dm_events' :
       dm_events[e].algo_events = {} =>
         e \in DOMAIN sent' /\ sent'[e].type = "DELETE"]_vars

(* passedTwoAlgMag "only applies to the first DM alert, version = 0": an   *)
(* update of an event that was alerted is not held for its magnitude.  But *)
(* the version tested is the one already sent.                             *)
UpdateNotHeldForMagnitude ==
  [][phase = "publish" /\ phase' # phase =>
       \A e \in DOMAIN dm_events \cap DOMAIN dm_events' :
         LET ev == dm_events[e]
         IN ev.version >= 0 /\ Considered(ev) /\ PublishAloneOk(ev)
              /\ ev.current.lh >= DmMinLikelihood /\ MessageChanged(ev)
            => dm_events'[e].version = ev.version + 1]_vars

(* publish_flag (DMEvent.h): an event that is considered is not published  *)
(* only if there were no changes past the threshold "since the last        *)
(* publishment".  But messageChanged compares with the last message it was *)
(* shown, which may have been held.                                        *)
ChangesPublished ==
  phase \in {"expire_algos", "receive"} =>
    \A e \in DOMAIN dm_events :
      Publishable(dm_events[e]) => UpToDate(dm_events[e])
=============================================================================
