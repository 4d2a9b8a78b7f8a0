------------------------------ MODULE E2Alert ------------------------------
(***************************************************************************)
(* The alerts of EPIC (E2): E2Alert.cc, the loop of E2ModuleManager.cc and *)
(* the part of E2EventManager.cc and E2Event.cc that keeps the events.     *)
(*                                                                         *)
(* One thread.  Each iteration associates new triggers, which may make an  *)
(* event or change some, then looks at the events whose triggers were      *)
(* updated, then at those that were never alerted, and last drops the old  *)
(* ones.  What triggers, locations and magnitudes become is the            *)
(* environment's choice; who is alerted, when, with which version, is not. *)
(***************************************************************************)
EXTENDS Integers, Sequences, FiniteSets

CONSTANTS
  EventIds,          \* the ids getNewEventid may hand out, a bound
  Magnitudes,        \* the magnitudes calcMag may find, in tenths
  MinMag, MaxMag,    \* AlertMinMag, AlertMaxMag
  MinMagChange,      \* MinMagChangeAlert
  AlertDuration,
  EventTimeout,
  SendCancelMessage,
  UseTF, TFEventReverse, \* the filter-band test for teleseisms
  MaxUpdates,        \* updateEvents takes this many events: 10 in the code
  MaxTime,           \* bound of the clock
  None               \* no event

VARIABLES
  phase,         \* the step of the loop that comes next
  now,           \* the wall clock, in seconds
  events,        \* [id -> event], eventlist
  evid,          \* the event that associateTriggers returned
  updated,       \* the events of updated_trigs
  next_eventid,
  sent           \* [id -> last message published for it]

vars == <<phase, now, events, evid, updated, next_eventid, sent>>

ASSUME E2AlertAssumption ==
  /\ EventIds \subseteq Nat \ {0}
  /\ Magnitudes \subseteq Nat \ {0}
  /\ AlertDuration \in Nat /\ EventTimeout \in Nat
  /\ MaxUpdates \in Nat \ {0} /\ MaxTime \in Nat
  /\ {SendCancelMessage, UseTF, TFEventReverse} \subseteq BOOLEAN
  /\ None \notin EventIds

Phases == {"read", "associate", "alert", "update", "delayed", "expire"}

(* tele_fbands: 0 not teleseismic, 1 teleseismic, 2 too few stations yet.  *)
Verdicts == 0 .. 2

(* The versions of an event that were sent: EventCore's cancel_sent and    *)
(* alert_time of the entries of history with alert_sent.  The others are   *)
(* only printed.                                                           *)
Entries == [cancel_sent : BOOLEAN, alert_time : Nat]

(* sound stands for the criteria other than magnitude and filter bands     *)
(* (triggers, stations, location, azimuth, split events, taup), vote for   *)
(* what checkTeleFBands makes of the triggers.                             *)
Events ==
  [ time : Nat, evmag : Nat, sound : BOOLEAN, vote : Verdicts,
    tele_fbands : Verdicts, mag_checked : Nat, alert_sent : BOOLEAN,
    history : Seq(Entries) ]

-----------------------------------------------------------------------------
Alerted(ev) == ev.history # <<>>
CancelledBefore(ev) ==
  \E i \in DOMAIN ev.history : ev.history[i].cancel_sent

(* Mutant of TeleFBands: the branch for stations too far away is alive.    *)
UndecidedFBands(ev) ==
  IF ~UseTF \/ ev.tele_fbands = 0 \/ (ev.tele_fbands = 1 /\ ~TFEventReverse)
  THEN ev.tele_fbands ELSE IF ev.vote = 2 THEN 3 ELSE ev.vote

(* Mutant of TeleFBands: TFEventReverse is not looked at.                  *)
ReversibleFBands(ev) ==
  IF ~UseTF \/ ev.tele_fbands = 0 THEN ev.tele_fbands ELSE ev.vote

(* tele_fbands after checkAlertCriteria: a verdict of 0 stands, one of 1   *)
(* stands unless it may be reversed.                                       *)
TeleFBands(ev) ==
  IF ~UseTF \/ ev.tele_fbands = 0 \/ (ev.tele_fbands = 1 /\ ~TFEventReverse)
  THEN ev.tele_fbands ELSE ev.vote

CheckAlertCriteria(ev) ==
  [ev EXCEPT !.mag_checked = ev.evmag, !.tele_fbands = TeleFBands(ev)]

(* alert_ok.                                                               *)
AlertOk(ev) ==
  /\ ev.sound
  /\ MinMag <= ev.evmag /\ ev.evmag <= MaxMag
  /\ ~UseTF \/ TeleFBands(ev) = 0

(* Mutant of MaySendAlert: AlertDuration is counted from the origin time.  *)
MaySendFromOrigin(ev) ==
  /\ ~ev.alert_sent
  /\ now - ev.time <= AlertDuration
  /\ Alerted(ev) => now - ev.history[Len(ev.history)].alert_time >= 1

(* Mutant of MaySendAlert: the second is counted from the first alert.     *)
MaySendAfterFirst(ev) ==
  /\ ~ev.alert_sent
  /\ Alerted(ev) =>
       /\ now - ev.history[1].alert_time <= AlertDuration
       /\ now - ev.history[1].alert_time >= 1

(* sendAlert: for AlertDuration seconds after the first, and not more than *)
(* once a second.                                                          *)
MaySendAlert(ev) ==
  /\ ~ev.alert_sent
  /\ Alerted(ev) =>
       /\ now - ev.history[1].alert_time <= AlertDuration
       /\ now - ev.history[Len(ev.history)].alert_time >= 1

(* checkSendCancel and sendCancelMsg: an event is cancelled once only,     *)
(* although it may be alerted again afterwards.                            *)
MaySendCancel(ev) ==
  SendCancelMessage /\ Alerted(ev) /\ ~CancelledBefore(ev)

SendsAlert(ev) == AlertOk(ev) /\ MaySendAlert(ev)
SendsCancel(ev) == ~AlertOk(ev) /\ MaySendCancel(ev)

Message(ev) ==
  [type |-> IF SendsCancel(ev) THEN "DELETE"
            ELSE IF Alerted(ev) THEN "UPDATE" ELSE "NEW",
   ver |-> Len(ev.history)]

(* Mutant of IncrementVersion: versions that were not sent count as well.  *)
EveryVersionCounted(ev, cancelled) ==
  [ev EXCEPT
     !.history = Append(@, [cancel_sent |-> cancelled, alert_time |-> now]),
     !.alert_sent = FALSE, !.mag_checked = 0]

(* incrementVersion: history keeps the version, with alert_sent when       *)
(* something was sent, and the current one starts afresh.                  *)
IncrementVersion(ev, cancelled) ==
  [ev EXCEPT
     !.history = IF ev.alert_sent
                 THEN Append(@, [cancel_sent |-> cancelled, alert_time |-> now])
                 ELSE @,
     !.alert_sent = FALSE, !.mag_checked = 0]

(* E2Alert::alert.                                                         *)
AlertStep(ev) ==
  IncrementVersion([CheckAlertCriteria(ev) EXCEPT
                      !.alert_sent = SendsAlert(ev) \/ SendsCancel(ev)],
                   SendsCancel(ev))

(* alert(e) for the events of S, as they are in evs.                       *)
AlertAll(evs, S) ==
  LET sending == {e \in S : SendsAlert(evs[e]) \/ SendsCancel(evs[e])}
  IN /\ events' = [e \in DOMAIN evs |->
                     IF e \in S THEN AlertStep(evs[e]) ELSE evs[e]]
     /\ sent' = [e \in DOMAIN sent \cup sending |->
                   IF e \in sending THEN Message(evs[e]) ELSE sent[e]]

-----------------------------------------------------------------------------
Init ==
  /\ phase = "read"
  /\ now = 0
  /\ events = [e \in {} |-> {}]
  /\ evid = None
  /\ updated = {}
  /\ next_eventid = 1
  /\ sent = [e \in {} |-> {}]

(* tm->read and checkTeleseisms: new packets change the triggers and the   *)
(* clusters, and so what the criteria will find, of any events; those in   *)
(* updated_trigs are noted.                                                *)
Read ==
  /\ phase = "read"
  /\ phase' = "associate"
  /\ \E sound \in [DOMAIN events -> BOOLEAN],
        vote \in [DOMAIN events -> Verdicts] :
       events' = [e \in DOMAIN events |->
                    [events[e] EXCEPT !.sound = sound[e], !.vote = vote[e]]]
  /\ updated' \in SUBSET DOMAIN events
  /\ UNCHANGED <<now, evid, next_eventid, sent>>

(* associateTriggers: finds nothing to do, adds triggers to an event, ...  *)
AssociateTrigger(e) ==
  /\ phase = "associate"
  /\ phase' = "alert"
  /\ e \in DOMAIN events \cup {None}
  /\ evid' = e
  /\ UNCHANGED <<now, events, updated, next_eventid, sent>>

(* ... or creates one, insertEvent.                                        *)
InsertEvent(isSound, verdict) ==
  /\ phase = "associate"
  /\ phase' = "alert"
  /\ next_eventid \in EventIds
  /\ evid' = next_eventid
  /\ next_eventid' = next_eventid + 1
  /\ events' = [e \in DOMAIN events \cup {next_eventid} |->
                  IF e = next_eventid
                  THEN [time |-> now, evmag |-> 0, sound |-> isSound,
                        vote |-> verdict, tele_fbands |-> 2, mag_checked |-> 0,
                        alert_sent |-> FALSE, history |-> <<>>]
                  ELSE events[e]]
  /\ UNCHANGED <<now, updated, sent>>

(* The event of associateTriggers gets its magnitude and is alerted.       *)
AlertAssociated ==
  /\ phase = "alert"
  /\ phase' = "update"
  /\ IF evid = None THEN UNCHANGED <<events, sent>>
     ELSE \E mag \in Magnitudes :
            AlertAll([events EXCEPT ![evid].evmag = mag], {evid})
  /\ UNCHANGED <<now, evid, updated, next_eventid>>

Differs(x, y) == x - y > MinMagChange \/ y - x > MinMagChange

(* updateEvents: the magnitude of at most MaxUpdates of the events with an *)
(* updated trigger, but not of the one just alerted, is formed anew.       *)
UpdateEvents ==
  /\ phase = "update"
  /\ phase' = "delayed"
  /\ \E ids \in SUBSET (updated \ {evid}) :
       /\ ids = updated \ {evid} \/ Cardinality(ids) = MaxUpdates
       /\ Cardinality(ids) <= MaxUpdates
       /\ \E mag \in [ids -> Magnitudes] :
            AlertAll([e \in DOMAIN events |->
                        IF e \in ids THEN [events[e] EXCEPT !.evmag = mag[e]]
                        ELSE events[e]],
                     {e \in ids : Differs(mag[e], events[e].mag_checked)})
  /\ updated' = {}
  /\ UNCHANGED <<now, evid, next_eventid>>

(* sendDelayedAlerts: every event without an alert is checked again.       *)
SendDelayedAlerts ==
  /\ phase = "delayed"
  /\ phase' = "expire"
  /\ LET waiting == {e \in DOMAIN events : ~Alerted(events[e])}
     IN AlertAll([e \in DOMAIN events |->
                    IF e \in waiting THEN CheckAlertCriteria(events[e])
                    ELSE events[e]],
                 {e \in waiting : AlertOk(events[e])})
  /\ UNCHANGED <<now, evid, updated, next_eventid>>

RemoveOldEvents ==
  /\ phase = "expire"
  /\ phase' = "read"
  /\ events' = [e \in {x \in DOMAIN events :
                         events[x].time >= now - EventTimeout} |-> events[e]]
  /\ UNCHANGED <<now, evid, updated, next_eventid, sent>>

Tick ==
  /\ now < MaxTime
  /\ now' = now + 1
  /\ UNCHANGED <<phase, events, evid, updated, next_eventid, sent>>

Associate ==
  \/ \E e \in EventIds \cup {None} : AssociateTrigger(e)
  \/ \E isSound \in BOOLEAN, verdict \in Verdicts : InsertEvent(isSound, verdict)

Next ==
  \/ Read \/ Associate \/ AlertAssociated
  \/ UpdateEvents \/ SendDelayedAlerts \/ RemoveOldEvents
  \/ Tick

Spec == Init /\ [][Next]_vars

-----------------------------------------------------------------------------
(* The types of the state.                                                 *)
TypeOK ==
  /\ phase \in Phases
  /\ now \in 0 .. MaxTime
  /\ DOMAIN events \subseteq EventIds
  /\ \A e \in DOMAIN events : events[e] \in Events
  /\ evid \in EventIds \cup {None}
  /\ updated \subseteq EventIds
  /\ next_eventid \in Nat \ {0}
  /\ DOMAIN sent \subseteq EventIds
  /\ \A e \in DOMAIN sent :
       sent[e] \in [type : {"NEW", "UPDATE", "DELETE"}, ver : Nat]

(* The alerts of an event are a second apart and within AlertDuration of   *)
(* the first, although three steps of the loop may alert it, also after a  *)
(* cancel.  A cancel itself may come at any time.                          *)
AlertsSpaced ==
  \A e \in DOMAIN events :
    LET h == events[e].history
    IN \A i \in 2 .. Len(h) : ~h[i].cancel_sent =>
         /\ h[i].alert_time - h[i - 1].alert_time >= 1
         /\ h[i].alert_time - h[1].alert_time <= AlertDuration

(* Whatever held it back, an event that passes the criteria has its first  *)
(* alert by the end of the iteration: sendDelayedAlerts comes after all    *)
(* that can change the event.                                              *)
NoFirstAlertOutstanding ==
  phase = "expire" =>
    \A e \in DOMAIN events : AlertOk(events[e]) => Alerted(events[e])

(* Once declared teleseismic an event is never alerted (nor updated)       *)
(* unless the verdict may be reversed; once declared local, it remains so. *)
VerdictStands ==
  [][\A e \in DOMAIN events \cap DOMAIN events' :
       LET was == events[e].tele_fbands
       IN /\ UseTF /\ was = 0 => events'[e].tele_fbands = 0
          /\ UseTF /\ was = 1 /\ ~TFEventReverse =>
               /\ events'[e].tele_fbands = 1
               /\ e \in DOMAIN sent' /\ (e \in DOMAIN sent => sent'[e] # sent[e])
                    => sent'[e].type = "DELETE"]_vars

(* EPIC makes the promise of an AlertStream; with cancel messages, one     *)
(* whose DELETE does not close the id.                                     *)
Subscribers ==
  INSTANCE AlertStream WITH
    Ids <- EventIds, Reopens <- SendCancelMessage,
    open <- DOMAIN events, next_id <- next_eventid

ImplementsAlertStream == Subscribers!Spec

-----------------------------------------------------------------------------
(* What comments and epic.conf say of EPIC, and the code does not do.      *)

(* epic.conf, MinMagChangeAlert: updates are only sent for magnitude       *)
(* changes.  But incrementVersion forgets the magnitude that was checked.  *)
UpdatesNeedMagChange ==
  [][phase = "update" =>
       \A e \in DOMAIN sent :
         sent'[e] # sent[e] => Differs(events'[e].evmag, events[e].evmag)]_vars
=============================================================================
