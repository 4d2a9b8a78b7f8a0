--------------------------- MODULE E2Alert_proofs ---------------------------
(***************************************************************************)
(* Proofs that the alerts of EPIC are spaced and never withheld, that the  *)
(* filter-band verdict stands and that the messages are an AlertStream,    *)
(* for any events, magnitudes, limits and settings.                        *)
(***************************************************************************)
EXTENDS E2Alert, TLAPS

(* AlertsSpaced, of one history.                                           *)
HistoryOk(h) ==
  \A i \in 2 .. Len(h) : ~h[i].cancel_sent =>
    /\ h[i].alert_time - h[i - 1].alert_time >= 1
    /\ h[i].alert_time - h[1].alert_time <= AlertDuration

(* The flag of the current version is down between two steps.              *)
EventOk(ev) == ev \in Events /\ ev.alert_sent = FALSE /\ HistoryOk(ev.history)

(* What subscribers saw of an event is what its history says.              *)
SentOk(e, ev) ==
  /\ e \in DOMAIN sent <=> Alerted(ev)
  /\ Alerted(ev) => sent[e].ver = Len(ev.history) - 1

(* evid and updated name events while they are used; ids below next_eventid *)
(* are the only ones anything is known of.                                 *)
IdsOk ==
  /\ \A e \in DOMAIN events \cup DOMAIN sent : e < next_eventid
  /\ phase = "alert" => evid \in DOMAIN events \cup {None}
  /\ phase \in {"associate", "alert", "update"} => updated \subseteq DOMAIN events

IndInv ==
  /\ TypeOK
  /\ IdsOk
  /\ \A e \in DOMAIN events : EventOk(events[e]) /\ SentOk(e, events[e])
  /\ NoFirstAlertOutstanding

-----------------------------------------------------------------------------
(* The operators on one event.                                             *)

LEMMA TeleFBandsType ==
  ASSUME NEW ev \in Events PROVE TeleFBands(ev) \in Verdicts
BY DEF TeleFBands, Events, Verdicts

LEMMA CheckedType ==
  ASSUME NEW ev \in Events
  PROVE  /\ CheckAlertCriteria(ev) \in Events
         /\ CheckAlertCriteria(ev).history = ev.history
         /\ CheckAlertCriteria(ev).alert_sent = ev.alert_sent
         /\ CheckAlertCriteria(ev).tele_fbands = TeleFBands(ev)
BY TeleFBandsType DEF CheckAlertCriteria, Events

(* The test of an event that was tested comes out the same.                *)
LEMMA CheckedTwice ==
  ASSUME NEW ev \in Events
  PROVE  /\ AlertOk(CheckAlertCriteria(ev)) <=> AlertOk(ev)
         /\ TeleFBands(CheckAlertCriteria(ev)) = TeleFBands(ev)
<1>1. TeleFBands(CheckAlertCriteria(ev)) = TeleFBands(ev)
  BY DEF CheckAlertCriteria, TeleFBands, Events, Verdicts
<1>2. /\ CheckAlertCriteria(ev).sound = ev.sound
      /\ CheckAlertCriteria(ev).evmag = ev.evmag
  BY DEF CheckAlertCriteria, Events
<1> QED  BY <1>1, <1>2 DEF AlertOk

(* An alert or a cancel adds one entry to the history.                     *)
LEMMA AlertStepHistory ==
  ASSUME NEW ev \in Events, ev.alert_sent = FALSE, now \in Nat
  PROVE  /\ AlertStep(ev) \in Events
         /\ AlertStep(ev).alert_sent = FALSE
         /\ AlertStep(ev).tele_fbands = TeleFBands(ev)
         /\ AlertStep(ev).history =
              IF SendsAlert(ev) \/ SendsCancel(ev)
              THEN Append(ev.history,
                          [cancel_sent |-> SendsCancel(ev), alert_time |-> now])
              ELSE ev.history
<1> DEFINE ch == CheckAlertCriteria(ev)
           sends == SendsAlert(ev) \/ SendsCancel(ev)
           marked == [ch EXCEPT !.alert_sent = sends]
           entry == [cancel_sent |-> SendsCancel(ev), alert_time |-> now]
<1>1. /\ ch \in Events /\ ch.history = ev.history
      /\ ch.tele_fbands = TeleFBands(ev)
  BY CheckedType
<1>2. sends \in BOOLEAN /\ SendsCancel(ev) \in BOOLEAN
  BY DEF SendsAlert, SendsCancel, AlertOk, MaySendAlert, MaySendCancel
<1> HIDE DEF ch, sends
<1>3. /\ marked \in Events /\ marked.history = ev.history
      /\ marked.alert_sent = sends /\ marked.tele_fbands = TeleFBands(ev)
  BY <1>1, <1>2 DEF Events
<1> HIDE DEF marked
<1>4. entry \in Entries
  BY <1>2 DEF Entries
<1> HIDE DEF entry
<1> DEFINE hist == IF marked.alert_sent
                   THEN Append(marked.history, entry) ELSE marked.history
<1>5. AlertStep(ev) = [marked EXCEPT !.history = hist,
                                     !.alert_sent = FALSE, !.mag_checked = 0]
  BY DEF AlertStep, IncrementVersion, marked, ch, sends, entry
<1>6. hist \in Seq(Entries)
  BY <1>3, <1>4 DEF Events
<1> HIDE DEF hist
<1>7. AlertStep(ev) \in Events /\ AlertStep(ev).alert_sent = FALSE
      /\ AlertStep(ev).tele_fbands = marked.tele_fbands
      /\ AlertStep(ev).history = hist
  <2> DEFINE h1 == [marked EXCEPT !.history = hist]
             h2 == [h1 EXCEPT !.alert_sent = FALSE]
  <2>1. h1 \in Events /\ h1.history = hist /\ h1.tele_fbands = marked.tele_fbands
    BY <1>3, <1>6 DEF Events
  <2> HIDE DEF h1
  <2>2. h2 \in Events /\ h2.history = hist /\ h2.alert_sent = FALSE
        /\ h2.tele_fbands = marked.tele_fbands
    BY <2>1 DEF Events
  <2>3. AlertStep(ev) = [h2 EXCEPT !.mag_checked = 0]
    BY <1>5 DEF h1
  <2> HIDE DEF h2
  <2> DEFINE h3 == [h2 EXCEPT !.mag_checked = 0]
  <2>4. h3 \in Events
    BY <2>2 DEF Events
  <2>5. h3.alert_sent = h2.alert_sent /\ h3.tele_fbands = h2.tele_fbands
        /\ h3.history = h2.history
    BY <2>2 DEF Events
  <2> HIDE DEF h3
  <2> QED  BY <2>2, <2>3, <2>4, <2>5 DEF h3
<1> QED  BY <1>3, <1>7 DEF hist, entry, sends

(* What MaySendAlert tests keeps the history spaced.                       *)
LEMMA AlertStepSpaced ==
  ASSUME NEW ev \in Events, EventOk(ev), now \in Nat
  PROVE  EventOk(AlertStep(ev))
<1> DEFINE h == ev.history
           entry == [cancel_sent |-> SendsCancel(ev), alert_time |-> now]
           g == AlertStep(ev).history
<1>1. AlertStep(ev) \in Events /\ AlertStep(ev).alert_sent = FALSE
  BY AlertStepHistory DEF EventOk
<1>2. h \in Seq(Entries) /\ HistoryOk(h)
  BY DEF EventOk, Events
<1>3. CASE ~(SendsAlert(ev) \/ SendsCancel(ev))
  BY <1>1, <1>2, <1>3, AlertStepHistory DEF EventOk
<1>4. CASE SendsAlert(ev) \/ SendsCancel(ev)
  <2>1. g = Append(h, entry)
    BY <1>4, AlertStepHistory DEF EventOk
  <2>2. /\ Len(g) = Len(h) + 1 /\ DOMAIN g = 1 .. Len(h) + 1
        /\ g[Len(h) + 1] = entry
        /\ \A i \in 1 .. Len(h) : g[i] = h[i] /\ h[i] \in Entries
        /\ DOMAIN h = 1 .. Len(h) /\ Len(h) \in Nat
    BY <1>2, <2>1
  <2> HIDE DEF g, h
  <2>3. entry.cancel_sent = SendsCancel(ev) /\ entry.alert_time = now
    OBVIOUS
  <2>4. ASSUME ~SendsCancel(ev), Len(h) >= 1
        PROVE  /\ now - h[1].alert_time <= AlertDuration
               /\ now - h[Len(h)].alert_time >= 1
    BY <1>4, <2>4, <2>2 DEF SendsAlert, MaySendAlert, Alerted, h
  <2>5. ASSUME NEW i \in 2 .. Len(g), ~g[i].cancel_sent
        PROVE  /\ g[i].alert_time - g[i - 1].alert_time >= 1
               /\ g[i].alert_time - g[1].alert_time <= AlertDuration
    <3>1. CASE i \in 2 .. Len(h)
      <4>1. g[i] = h[i] /\ g[i - 1] = h[i - 1] /\ g[1] = h[1]
        BY <2>2, <3>1
      <4> QED  BY <1>2, <2>5, <3>1, <4>1 DEF HistoryOk
    <3>2. CASE i = Len(h) + 1
      <4>1. g[i] = entry /\ g[i - 1] = h[Len(h)] /\ g[1] = h[1] /\ Len(h) >= 1
        BY <2>2, <3>2
      <4> QED  BY <2>3, <2>4, <2>5, <4>1
    <3> QED  BY <2>2, <3>1, <3>2
  <2>6. HistoryOk(g)
    BY <2>5 DEF HistoryOk
  <2> QED  BY <1>1, <2>6 DEF EventOk, g
<1> QED  BY <1>3, <1>4
-----------------------------------------------------------------------------
(* The steps.                                                              *)

LEMMA InitInv == Init => IndInv
<1> SUFFICES ASSUME Init PROVE IndInv
  OBVIOUS
<1>1. DOMAIN events = {} /\ DOMAIN sent = {}
  BY DEF Init
<1> QED  BY <1>1, E2AlertAssumption
         DEF Init, IndInv, TypeOK, IdsOk, NoFirstAlertOutstanding, Phases

(* alert() for any of the events, their magnitudes and flags changed: the  *)
(* events stay sound and subscribers know what the history says.           *)
LEMMA AlertAllInv ==
  ASSUME IndInv,
         NEW evs, NEW S, S \subseteq DOMAIN events,
         DOMAIN evs = DOMAIN events,
         \A e \in DOMAIN events :
           EventOk(evs[e]) /\ evs[e].history = events[e].history,
         AlertAll(evs, S)
  PROVE  /\ DOMAIN events' = DOMAIN events
         /\ DOMAIN sent \subseteq DOMAIN sent'
         /\ DOMAIN sent' \subseteq DOMAIN sent \cup DOMAIN events
         /\ \A e \in DOMAIN events : events'[e] =
              IF e \in S THEN AlertStep(evs[e]) ELSE evs[e]
         /\ \A e \in DOMAIN events : EventOk(events'[e]) /\ SentOk(e, events[e])'
         /\ \A e \in DOMAIN sent' :
              sent'[e] \in [type : {"NEW", "UPDATE", "DELETE"}, ver : Nat]
<1> DEFINE sending == {e \in S : SendsAlert(evs[e]) \/ SendsCancel(evs[e])}
<1>1. now \in Nat
  BY DEF IndInv, TypeOK
<1>2. /\ events' = [e \in DOMAIN events |->
                     IF e \in S THEN AlertStep(evs[e]) ELSE evs[e]]
      /\ sent' = [e \in DOMAIN sent \cup sending |->
                   IF e \in sending THEN Message(evs[e]) ELSE sent[e]]
  BY DEF AlertAll
<1>3. sending \subseteq DOMAIN events
  OBVIOUS
<1> HIDE DEF sending
<1>4. ASSUME NEW e \in DOMAIN events
      PROVE  EventOk(events'[e]) /\ SentOk(e, events[e])'
  <2>1. EventOk(evs[e]) /\ evs[e] \in Events /\ evs[e].alert_sent = FALSE
        /\ evs[e].history = events[e].history
    BY DEF EventOk
  <2>2. events'[e] = IF e \in S THEN AlertStep(evs[e]) ELSE evs[e]
    BY <1>2
  <2>3. EventOk(events'[e])
    BY <1>1, <2>1, <2>2, AlertStepSpaced
  <2>4. events[e].history \in Seq(Entries) /\ SentOk(e, events[e])
    BY <2>1 DEF IndInv, EventOk, Events
  <2>5. CASE e \in sending
    <3>1. /\ sent'[e] = Message(evs[e]) /\ e \in DOMAIN sent'
          /\ events'[e] = AlertStep(evs[e])
          /\ SendsAlert(evs[e]) \/ SendsCancel(evs[e])
      BY <1>2, <2>2, <2>5 DEF sending
    <3>2. events'[e].history = Append(events[e].history,
            [cancel_sent |-> SendsCancel(evs[e]), alert_time |-> now])
      BY <1>1, <2>1, <3>1, AlertStepHistory
    <3>3. Len(events'[e].history) = Len(events[e].history) + 1
          /\ events'[e].history # <<>>
          /\ Len(events[e].history) \in Nat
      BY <2>4, <3>2
    <3>4. sent'[e].ver = Len(events[e].history)
      BY <2>1, <3>1 DEF Message
    <3> QED  BY <2>3, <3>1, <3>3, <3>4 DEF SentOk, Alerted
  <2>6. CASE e \notin sending
    <3>1. events'[e].history = events[e].history
      BY <1>1, <2>1, <2>2, <2>6, AlertStepHistory DEF sending
    <3>2. e \in DOMAIN sent' <=> e \in DOMAIN sent
      BY <1>2, <2>6
    <3>3. e \in DOMAIN sent => sent'[e] = sent[e]
      BY <1>2, <2>6
    <3> QED  BY <2>3, <2>4, <3>1, <3>2, <3>3 DEF SentOk, Alerted
  <2> QED  BY <2>3, <2>5, <2>6
<1>5. ASSUME NEW e \in DOMAIN sent'
      PROVE  sent'[e] \in [type : {"NEW", "UPDATE", "DELETE"}, ver : Nat]
  <2>1. CASE e \in sending
    <3>1. sent'[e] = Message(evs[e]) /\ evs[e].history \in Seq(Entries)
      BY <1>2, <1>3, <2>1 DEF EventOk, Events
    <3> QED  BY <3>1 DEF Message
  <2>2. CASE e \notin sending
    BY <1>2, <2>2 DEF IndInv, TypeOK
  <2> QED  BY <2>1, <2>2
<1> QED  BY <1>2, <1>3, <1>4, <1>5

(* A change of the magnitude, or a test, leaves an event sound.            *)
LEMMA ChangedOk ==
  ASSUME NEW ev, EventOk(ev)
  PROVE  /\ \A mag \in Nat : /\ EventOk([ev EXCEPT !.evmag = mag])
                            /\ [ev EXCEPT !.evmag = mag].history = ev.history
         /\ EventOk(CheckAlertCriteria(ev))
         /\ CheckAlertCriteria(ev).history = ev.history
<1>1. ev \in Events
  BY DEF EventOk
<1>2. ASSUME NEW mag \in Nat
      PROVE  /\ [ev EXCEPT !.evmag = mag] \in Events
             /\ [ev EXCEPT !.evmag = mag].history = ev.history
             /\ [ev EXCEPT !.evmag = mag].alert_sent = ev.alert_sent
  BY <1>1 DEF Events
<1> QED  BY <1>1, <1>2, CheckedType DEF EventOk

LEMMA NextInv == IndInv /\ [Next]_vars => IndInv'
<1> SUFFICES ASSUME IndInv, [Next]_vars PROVE IndInv'
  OBVIOUS
<1> USE E2AlertAssumption
<1>0. TypeOK /\ IdsOk /\ NoFirstAlertOutstanding /\ now \in Nat
      /\ \A e \in DOMAIN events :
           /\ EventOk(events[e]) /\ SentOk(e, events[e])
           /\ events[e] \in Events
  BY DEF IndInv, TypeOK
<1>1. CASE Read
  <2>1. PICK sound \in [DOMAIN events -> BOOLEAN],
             vote \in [DOMAIN events -> Verdicts] :
          events' = [e \in DOMAIN events |->
                       [events[e] EXCEPT !.sound = sound[e], !.vote = vote[e]]]
    BY <1>1 DEF Read
  <2>2. /\ phase' = "associate" /\ updated' \subseteq DOMAIN events
        /\ UNCHANGED <<now, evid, next_eventid, sent>>
        /\ DOMAIN events' = DOMAIN events
    BY <1>1, <2>1 DEF Read
  <2>3. \A e \in DOMAIN events :
          /\ events'[e] \in Events
          /\ events'[e].alert_sent = events[e].alert_sent
          /\ events'[e].history = events[e].history
    BY <1>0, <2>1 DEF Events
  <2>4. \A e \in DOMAIN events : EventOk(events'[e]) /\ SentOk(e, events[e])'
    BY <1>0, <2>2, <2>3 DEF EventOk, SentOk, Alerted
  <2>5. TypeOK'
    BY <1>0, <2>2, <2>3 DEF TypeOK, Phases
  <2>6. IdsOk'
    BY <1>0, <2>2 DEF IdsOk
  <2> QED  BY <2>2, <2>4, <2>5, <2>6 DEF IndInv, NoFirstAlertOutstanding
<1>2. ASSUME NEW e \in EventIds \cup {None}, AssociateTrigger(e) PROVE IndInv'
  <2>1. /\ phase' = "alert" /\ evid' = e /\ e \in DOMAIN events \cup {None}
        /\ phase = "associate"
        /\ UNCHANGED <<now, events, updated, next_eventid, sent>>
    BY <1>2 DEF AssociateTrigger
  <2>2. TypeOK'
    BY <1>0, <2>1 DEF TypeOK, Phases
  <2>3. IdsOk'
    BY <1>0, <2>1 DEF IdsOk
  <2>4. \A x \in DOMAIN events' : EventOk(events'[x]) /\ SentOk(x, events[x])'
    BY <1>0, <2>1 DEF SentOk, Alerted
  <2> QED  BY <2>1, <2>2, <2>3, <2>4 DEF IndInv, NoFirstAlertOutstanding
<1>3. ASSUME NEW isSound \in BOOLEAN, NEW verdict \in Verdicts,
             InsertEvent(isSound, verdict)
      PROVE  IndInv'
  <2> DEFINE new == [time |-> now, evmag |-> 0, sound |-> isSound,
                     vote |-> verdict, tele_fbands |-> 2, mag_checked |-> 0,
                     alert_sent |-> FALSE, history |-> <<>>]
  <2>1. /\ phase = "associate" /\ phase' = "alert"
        /\ next_eventid \in EventIds
        /\ evid' = next_eventid /\ next_eventid' = next_eventid + 1
        /\ events' = [e \in DOMAIN events \cup {next_eventid} |->
                        IF e = next_eventid THEN new ELSE events[e]]
        /\ UNCHANGED <<now, updated, sent>>
    BY <1>3 DEF InsertEvent
  <2>2. new \in Events /\ new.alert_sent = FALSE /\ new.history = <<>>
    BY <1>0 DEF Events, Verdicts
  <2> HIDE DEF new
  <2>3. HistoryOk(<<>>)
    BY DEF HistoryOk
  <2>4. next_eventid \in Nat /\ next_eventid \notin DOMAIN sent
        /\ next_eventid \notin DOMAIN events
        /\ DOMAIN events \subseteq Nat /\ DOMAIN sent \subseteq Nat
    <3>1. next_eventid \in Nat
          /\ DOMAIN events \subseteq Nat /\ DOMAIN sent \subseteq Nat
      BY <1>0 DEF TypeOK
    <3>2. ~(next_eventid < next_eventid)
      BY <3>1
    <3> QED  BY <1>0, <3>1, <3>2 DEF IdsOk
  <2>5. DOMAIN events' = DOMAIN events \cup {next_eventid}
        /\ events'[next_eventid] = new
        /\ \A e \in DOMAIN events : events'[e] = events[e]
    BY <2>1, <2>4
  <2>6. TypeOK'
    BY <1>0, <2>1, <2>2, <2>4, <2>5 DEF TypeOK, Phases
  <2>7. IdsOk'
    BY <1>0, <2>1, <2>4, <2>5 DEF IdsOk
  <2>8. \A e \in DOMAIN events' : EventOk(events'[e]) /\ SentOk(e, events[e])'
    BY <1>0, <2>1, <2>2, <2>3, <2>4, <2>5 DEF EventOk, SentOk, Alerted
  <2> QED  BY <2>1, <2>6, <2>7, <2>8 DEF IndInv, NoFirstAlertOutstanding
<1>4. CASE AlertAssociated
  <2>1. /\ phase = "alert" /\ phase' = "update"
        /\ UNCHANGED <<now, evid, updated, next_eventid>>
    BY <1>4 DEF AlertAssociated
  <2>2. CASE evid = None
    <3>1. UNCHANGED <<events, sent>>
      BY <1>4, <2>2 DEF AlertAssociated
    <3>2. TypeOK' /\ IdsOk'
      BY <1>0, <2>1, <3>1 DEF TypeOK, Phases, IdsOk
    <3>3. \A e \in DOMAIN events' : EventOk(events'[e]) /\ SentOk(e, events[e])'
      BY <1>0, <2>1, <3>1 DEF SentOk, Alerted
    <3> QED  BY <2>1, <3>2, <3>3 DEF IndInv, NoFirstAlertOutstanding
  <2>3. CASE evid # None
    <3>1. evid \in DOMAIN events
      BY <1>0, <2>1, <2>3 DEF IdsOk
    <3>2. PICK mag \in Magnitudes :
             AlertAll([events EXCEPT ![evid].evmag = mag], {evid})
      BY <1>4, <2>3 DEF AlertAssociated
    <3> DEFINE evs == [events EXCEPT ![evid].evmag = mag]
    <3>3. /\ DOMAIN evs = DOMAIN events
          /\ \A e \in DOMAIN events : evs[e] =
               IF e = evid THEN [events[e] EXCEPT !.evmag = mag] ELSE events[e]
          /\ mag \in Nat
      BY <3>1
    <3>4. AlertAll(evs, {evid})
      BY <3>2
    <3> HIDE DEF evs
    <3>5. \A e \in DOMAIN events :
            EventOk(evs[e]) /\ evs[e].history = events[e].history
      <4> SUFFICES ASSUME NEW e \in DOMAIN events
                   PROVE  EventOk(evs[e]) /\ evs[e].history = events[e].history
        OBVIOUS
      <4>1. EventOk(events[e])
        BY <1>0
      <4>2. EventOk([events[e] EXCEPT !.evmag = mag])
            /\ [events[e] EXCEPT !.evmag = mag].history = events[e].history
        BY <3>3, <4>1, ChangedOk
      <4>3. CASE e = evid
        BY <3>3, <4>2, <4>3
      <4>4. CASE e # evid
        BY <3>3, <4>1, <4>4
      <4> QED  BY <4>3, <4>4
    <3>6. /\ DOMAIN events' = DOMAIN events
          /\ DOMAIN sent' \subseteq DOMAIN sent \cup DOMAIN events
          /\ \A e \in DOMAIN events : EventOk(events'[e]) /\ SentOk(e, events[e])'
          /\ \A e \in DOMAIN sent' :
               sent'[e] \in [type : {"NEW", "UPDATE", "DELETE"}, ver : Nat]
      BY <3>1, <3>3, <3>4, <3>5, AlertAllInv
    <3>7. TypeOK'
      BY <1>0, <2>1, <3>6 DEF TypeOK, Phases, EventOk
    <3>8. IdsOk'
      BY <1>0, <2>1, <3>6 DEF IdsOk
    <3> QED  BY <2>1, <3>6, <3>7, <3>8 DEF IndInv, NoFirstAlertOutstanding
  <2> QED  BY <2>2, <2>3
<1>5. CASE UpdateEvents
  <2>1. /\ phase = "update" /\ phase' = "delayed" /\ updated' = {}
        /\ UNCHANGED <<now, evid, next_eventid>>
    BY <1>5 DEF UpdateEvents
  <2>a. PICK ids \in SUBSET (updated \ {evid}) :
          \E mag \in [ids -> Magnitudes] :
            AlertAll([e \in DOMAIN events |->
                        IF e \in ids THEN [events[e] EXCEPT !.evmag = mag[e]]
                        ELSE events[e]],
                     {e \in ids : Differs(mag[e], events[e].mag_checked)})
    BY <1>5 DEF UpdateEvents
  <2>2. PICK mag \in [ids -> Magnitudes] :
          AlertAll([e \in DOMAIN events |->
                      IF e \in ids THEN [events[e] EXCEPT !.evmag = mag[e]]
                      ELSE events[e]],
                   {e \in ids : Differs(mag[e], events[e].mag_checked)})
    BY <2>a
  <2> DEFINE evs == [e \in DOMAIN events |->
                       IF e \in ids THEN [events[e] EXCEPT !.evmag = mag[e]]
                       ELSE events[e]]
             S == {e \in ids : Differs(mag[e], events[e].mag_checked)}
  <2>3. S \subseteq DOMAIN events /\ \A e \in ids : mag[e] \in Nat
    BY <1>0, <2>1 DEF IdsOk
  <2>4. /\ DOMAIN evs = DOMAIN events
        /\ \A e \in DOMAIN events : evs[e] =
             IF e \in ids THEN [events[e] EXCEPT !.evmag = mag[e]] ELSE events[e]
    OBVIOUS
  <2>5. AlertAll(evs, S)
    BY <2>2
  <2> HIDE DEF evs, S
  <2>6. \A e \in DOMAIN events :
          EventOk(evs[e]) /\ evs[e].history = events[e].history
    <3> SUFFICES ASSUME NEW e \in DOMAIN events
                 PROVE  EventOk(evs[e]) /\ evs[e].history = events[e].history
      OBVIOUS
    <3>1. CASE e \in ids
      <4>1. mag[e] \in Nat /\ evs[e] = [events[e] EXCEPT !.evmag = mag[e]]
        BY <2>3, <2>4, <3>1
      <4> QED  BY <1>0, <4>1, ChangedOk
    <3>2. CASE e \notin ids
      BY <1>0, <2>4, <3>2
    <3> QED  BY <3>1, <3>2
  <2>7. /\ DOMAIN events' = DOMAIN events
        /\ DOMAIN sent' \subseteq DOMAIN sent \cup DOMAIN events
        /\ \A e \in DOMAIN events : EventOk(events'[e]) /\ SentOk(e, events[e])'
        /\ \A e \in DOMAIN sent' :
             sent'[e] \in [type : {"NEW", "UPDATE", "DELETE"}, ver : Nat]
    BY <2>3, <2>4, <2>5, <2>6, AlertAllInv
  <2>8. TypeOK'
    BY <1>0, <2>1, <2>7 DEF TypeOK, Phases, EventOk
  <2>9. IdsOk'
    BY <1>0, <2>1, <2>7 DEF IdsOk
  <2> QED  BY <2>1, <2>7, <2>8, <2>9 DEF IndInv, NoFirstAlertOutstanding
<1>6. CASE SendDelayedAlerts
  <2> DEFINE waiting == {e \in DOMAIN events : ~Alerted(events[e])}
             evs == [e \in DOMAIN events |->
                       IF e \in waiting THEN CheckAlertCriteria(events[e])
                       ELSE events[e]]
             S == {e \in waiting : AlertOk(events[e])}
  <2>1. /\ phase = "delayed" /\ phase' = "expire"
        /\ UNCHANGED <<now, evid, updated, next_eventid>>
        /\ AlertAll(evs, S)
    BY <1>6 DEF SendDelayedAlerts
  <2>2. S \subseteq DOMAIN events /\ waiting \subseteq DOMAIN events
    OBVIOUS
  <2>3. /\ DOMAIN evs = DOMAIN events
        /\ \A e \in DOMAIN events : evs[e] =
             IF e \in waiting THEN CheckAlertCriteria(events[e]) ELSE events[e]
    OBVIOUS
  <2> HIDE DEF evs
  <2>4. \A e \in DOMAIN events :
          EventOk(evs[e]) /\ evs[e].history = events[e].history
    BY <1>0, <2>3, ChangedOk
  <2>5. /\ DOMAIN events' = DOMAIN events
        /\ DOMAIN sent' \subseteq DOMAIN sent \cup DOMAIN events
        /\ \A e \in DOMAIN events : events'[e] =
             IF e \in S THEN AlertStep(evs[e]) ELSE evs[e]
        /\ \A e \in DOMAIN events : EventOk(events'[e]) /\ SentOk(e, events[e])'
        /\ \A e \in DOMAIN sent' :
             sent'[e] \in [type : {"NEW", "UPDATE", "DELETE"}, ver : Nat]
    BY <2>1, <2>2, <2>3, <2>4, AlertAllInv
  <2>6. TypeOK'
    BY <1>0, <2>1, <2>5 DEF TypeOK, Phases, EventOk
  <2>7. IdsOk'
    BY <1>0, <2>1, <2>5 DEF IdsOk
  <2>8. ASSUME NEW e \in DOMAIN events, AlertOk(events'[e])
        PROVE  Alerted(events'[e])
    <3>1. /\ events[e] \in Events /\ evs[e] \in Events
          /\ evs[e].alert_sent = FALSE
          /\ evs[e].history = events[e].history
      BY <1>0, <2>4 DEF EventOk
    <3>2. CASE e \notin waiting
      <4>1. events'[e] = events[e]
        BY <2>3, <2>5, <3>2
      <4> QED  BY <3>2, <4>1
    <3>3. CASE e \in S
      <4>1. evs[e] = CheckAlertCriteria(events[e]) /\ AlertOk(events[e])
            /\ ~Alerted(events[e]) /\ events'[e] = AlertStep(evs[e])
        BY <2>3, <2>5, <3>3
      <4>2. AlertOk(evs[e]) /\ ~Alerted(evs[e])
        BY <3>1, <4>1, CheckedTwice DEF Alerted
      <4>3. SendsAlert(evs[e])
        BY <3>1, <4>2 DEF SendsAlert, MaySendAlert
      <4>4. events'[e].history = Append(evs[e].history,
              [cancel_sent |-> SendsCancel(evs[e]), alert_time |-> now])
        BY <1>0, <3>1, <4>1, <4>3, AlertStepHistory
      <4>5. evs[e].history \in Seq(Entries)
        BY <3>1 DEF Events
      <4>6. events'[e].history # <<>>
        BY <4>4, <4>5
      <4> QED  BY <4>6 DEF Alerted
    <3>4. CASE e \in waiting /\ ~AlertOk(events[e])
      <4>1. events'[e] = CheckAlertCriteria(events[e])
        BY <2>3, <2>5, <3>4
      <4> QED  BY <2>8, <3>1, <3>4, <4>1, CheckedTwice
    <3> QED  BY <3>2, <3>3, <3>4
  <2>9. NoFirstAlertOutstanding'
    <3>1. \A e \in DOMAIN events' : AlertOk(events'[e]) => Alerted(events'[e])
      BY <2>5, <2>8
    <3> QED  BY <3>1 DEF NoFirstAlertOutstanding, AlertOk, Alerted, TeleFBands
  <2> QED  BY <2>5, <2>6, <2>7, <2>9 DEF IndInv
<1>7. CASE RemoveOldEvents
  <2>1. /\ phase = "expire" /\ phase' = "read"
        /\ UNCHANGED <<now, evid, updated, next_eventid, sent>>
        /\ DOMAIN events' \subseteq DOMAIN events
        /\ \A e \in DOMAIN events' : events'[e] = events[e]
    BY <1>7 DEF RemoveOldEvents
  <2>2. TypeOK'
    BY <1>0, <2>1 DEF TypeOK, Phases
  <2>3. IdsOk'
    BY <1>0, <2>1 DEF IdsOk
  <2>4. \A e \in DOMAIN events' : EventOk(events'[e]) /\ SentOk(e, events[e])'
    BY <1>0, <2>1 DEF SentOk, Alerted
  <2> QED  BY <2>1, <2>2, <2>3, <2>4 DEF IndInv, NoFirstAlertOutstanding
<1>8. CASE Tick
  <2>1. /\ now < MaxTime /\ now' = now + 1
        /\ UNCHANGED <<phase, events, evid, updated, next_eventid, sent>>
    BY <1>8 DEF Tick
  <2>2. TypeOK'
    BY <1>0, <2>1 DEF TypeOK
  <2>3. IdsOk'
    BY <1>0, <2>1 DEF IdsOk
  <2>4. \A e \in DOMAIN events' : EventOk(events'[e]) /\ SentOk(e, events[e])'
    BY <1>0, <2>1 DEF SentOk, Alerted
  <2>5. NoFirstAlertOutstanding'
    BY <1>0, <2>1 DEF NoFirstAlertOutstanding, AlertOk, Alerted, TeleFBands
  <2> QED  BY <2>2, <2>3, <2>4, <2>5 DEF IndInv
<1>9. CASE UNCHANGED vars
  <2>1. UNCHANGED <<phase, now, events, evid, updated, next_eventid, sent>>
    BY <1>9 DEF vars
  <2>2. TypeOK' /\ IdsOk'
    BY <1>0, <2>1 DEF TypeOK, IdsOk
  <2>3. \A e \in DOMAIN events' : EventOk(events'[e]) /\ SentOk(e, events[e])'
    BY <1>0, <2>1 DEF SentOk, Alerted
  <2>4. NoFirstAlertOutstanding'
    BY <1>0, <2>1 DEF NoFirstAlertOutstanding, AlertOk, Alerted, TeleFBands
  <2> QED  BY <2>2, <2>3, <2>4 DEF IndInv
<1> QED  BY <1>1, <1>2, <1>3, <1>4, <1>5, <1>6, <1>7, <1>8, <1>9
         DEF Next, Associate

(* Every state of EPIC satisfies the inductive invariant.                  *)
THEOREM Invariance == Spec => []IndInv
BY InitInv, NextInv, PTL DEF Spec

(* The type invariant, for any events, magnitudes, limits and settings.    *)
THEOREM TypeCorrect == Spec => []TypeOK
<1>1. IndInv => TypeOK
  BY DEF IndInv
<1> QED  BY <1>1, Invariance, PTL

(* AlertsSpaced: throttling holds across the three places that alert an    *)
(* event, and over a cancel in between.                                    *)
THEOREM Spaced == Spec => []AlertsSpaced
<1>1. IndInv => AlertsSpaced
  BY DEF IndInv, EventOk, HistoryOk, AlertsSpaced
<1> QED  BY <1>1, Invariance, PTL

(* An event that passes the criteria is alerted before the iteration ends. *)
THEOREM FirstAlertNotWithheld == Spec => []NoFirstAlertOutstanding
<1>1. IndInv => NoFirstAlertOutstanding
  BY DEF IndInv
<1> QED  BY <1>1, Invariance, PTL

-----------------------------------------------------------------------------
(* What alert() does to verdicts and messages, whoever calls it.           *)

(* A call of alert() for the events of S, some changed before.             *)
Calls(evs, S) ==
  /\ S \subseteq DOMAIN events /\ DOMAIN evs = DOMAIN events
  /\ \A e \in DOMAIN events :
       /\ EventOk(evs[e]) /\ evs[e].history = events[e].history
       /\ evs[e].tele_fbands = events[e].tele_fbands
            \/ evs[e].tele_fbands = TeleFBands(events[e])
  /\ AlertAll(evs, S)
  /\ UNCHANGED next_eventid

LEMMA AlertingSteps ==
  ASSUME IndInv, Next
  PROVE  \/ Read
         \/ \E e \in EventIds \cup {None} : AssociateTrigger(e)
         \/ \E isSound \in BOOLEAN, verdict \in Verdicts :
              InsertEvent(isSound, verdict)
         \/ \E evs, S : Calls(evs, S)
         \/ RemoveOldEvents
         \/ UNCHANGED <<events, sent, next_eventid>>
<1>0. /\ TypeOK /\ IdsOk
      /\ \A e \in DOMAIN events : EventOk(events[e]) /\ events[e] \in Events
  BY DEF IndInv, TypeOK
<1>1. CASE AlertAssociated
  <2>1. phase = "alert" /\ UNCHANGED next_eventid
    BY <1>1 DEF AlertAssociated
  <2>2. CASE evid # None
    <3>1. evid \in DOMAIN events
      BY <1>0, <2>1, <2>2 DEF IdsOk
    <3>2. PICK mag \in Magnitudes :
             AlertAll([events EXCEPT ![evid].evmag = mag], {evid})
      BY <1>1, <2>2 DEF AlertAssociated
    <3> DEFINE evs == [events EXCEPT ![evid].evmag = mag]
    <3>3. /\ DOMAIN evs = DOMAIN events
          /\ \A e \in DOMAIN events : evs[e] =
               IF e = evid THEN [events[e] EXCEPT !.evmag = mag] ELSE events[e]
          /\ mag \in Nat
      BY <3>1, E2AlertAssumption
    <3>4. AlertAll(evs, {evid})
      BY <3>2
    <3> HIDE DEF evs
    <3>5. \A e \in DOMAIN events :
            /\ EventOk(evs[e]) /\ evs[e].history = events[e].history
            /\ evs[e].tele_fbands = events[e].tele_fbands
      BY <1>0, <3>3, ChangedOk DEF Events
    <3>6. Calls(evs, {evid})
      BY <2>1, <3>1, <3>3, <3>4, <3>5 DEF Calls
    <3> QED  BY <3>6
  <2> QED  BY <1>1, <2>1, <2>2 DEF AlertAssociated
<1>2. CASE UpdateEvents
  <2>1. phase = "update" /\ UNCHANGED next_eventid
    BY <1>2 DEF UpdateEvents
  <2>2. PICK ids \in SUBSET (updated \ {evid}) :
          \E mag \in [ids -> Magnitudes] :
            AlertAll([e \in DOMAIN events |->
                        IF e \in ids THEN [events[e] EXCEPT !.evmag = mag[e]]
                        ELSE events[e]],
                     {e \in ids : Differs(mag[e], events[e].mag_checked)})
    BY <1>2 DEF UpdateEvents
  <2>3. PICK mag \in [ids -> Magnitudes] :
          AlertAll([e \in DOMAIN events |->
                      IF e \in ids THEN [events[e] EXCEPT !.evmag = mag[e]]
                      ELSE events[e]],
                   {e \in ids : Differs(mag[e], events[e].mag_checked)})
    BY <2>2
  <2> DEFINE evs == [e \in DOMAIN events |->
                       IF e \in ids THEN [events[e] EXCEPT !.evmag = mag[e]]
                       ELSE events[e]]
             S == {e \in ids : Differs(mag[e], events[e].mag_checked)}
  <2>4. S \subseteq DOMAIN events /\ \A e \in ids : mag[e] \in Nat
    BY <1>0, <2>1, E2AlertAssumption DEF IdsOk
  <2>5. /\ DOMAIN evs = DOMAIN events
        /\ \A e \in DOMAIN events : evs[e] =
             IF e \in ids THEN [events[e] EXCEPT !.evmag = mag[e]] ELSE events[e]
    OBVIOUS
  <2>6. AlertAll(evs, S)
    BY <2>3
  <2> HIDE DEF evs, S
  <2>7. ASSUME NEW e \in DOMAIN events
        PROVE  /\ EventOk(evs[e]) /\ evs[e].history = events[e].history
               /\ evs[e].tele_fbands = events[e].tele_fbands
    <3>1. CASE e \in ids
      <4>1. mag[e] \in Nat /\ evs[e] = [events[e] EXCEPT !.evmag = mag[e]]
        BY <2>4, <2>5, <3>1
      <4> QED  BY <1>0, <4>1, ChangedOk DEF Events
    <3>2. CASE e \notin ids
      BY <1>0, <2>5, <3>2
    <3> QED  BY <3>1, <3>2
  <2>8. Calls(evs, S)
    BY <2>1, <2>4, <2>5, <2>6, <2>7 DEF Calls
  <2> QED  BY <2>8
<1>3. CASE SendDelayedAlerts
  <2> DEFINE waiting == {e \in DOMAIN events : ~Alerted(events[e])}
             evs == [e \in DOMAIN events |->
                       IF e \in waiting THEN CheckAlertCriteria(events[e])
                       ELSE events[e]]
             S == {e \in waiting : AlertOk(events[e])}
  <2>1. AlertAll(evs, S) /\ UNCHANGED next_eventid
    BY <1>3 DEF SendDelayedAlerts
  <2>2. /\ S \subseteq DOMAIN events /\ DOMAIN evs = DOMAIN events
        /\ \A e \in DOMAIN events : evs[e] =
             IF e \in waiting THEN CheckAlertCriteria(events[e]) ELSE events[e]
    OBVIOUS
  <2> HIDE DEF evs, S, waiting
  <2>3. \A e \in DOMAIN events :
          /\ EventOk(evs[e]) /\ evs[e].history = events[e].history
          /\ evs[e].tele_fbands = events[e].tele_fbands
               \/ evs[e].tele_fbands = TeleFBands(events[e])
    BY <1>0, <2>2, ChangedOk, CheckedType
  <2>4. Calls(evs, S)
    BY <2>1, <2>2, <2>3 DEF Calls
  <2> QED  BY <2>4
<1>4. CASE Tick
  BY <1>4 DEF Tick
<1> QED  BY <1>1, <1>2, <1>3, <1>4 DEF Next, Associate

(* The verdicts that stand, for one event.                                 *)
Stands(e) ==
  LET was == events[e].tele_fbands
  IN /\ UseTF /\ was = 0 => events'[e].tele_fbands = 0
     /\ UseTF /\ was = 1 /\ ~TFEventReverse =>
          /\ events'[e].tele_fbands = 1
          /\ e \in DOMAIN sent' /\ (e \in DOMAIN sent => sent'[e] # sent[e])
               => sent'[e].type = "DELETE"

LEMMA CallsStand ==
  ASSUME IndInv, NEW evs, NEW S, Calls(evs, S), NEW e \in DOMAIN events
  PROVE  Stands(e)
<1>1. /\ events[e] \in Events /\ evs[e] \in Events /\ evs[e].alert_sent = FALSE
      /\ now \in Nat
      /\ evs[e].tele_fbands = events[e].tele_fbands
           \/ evs[e].tele_fbands = TeleFBands(events[e])
  BY DEF IndInv, Calls, EventOk, TypeOK
<1>2. /\ events'[e] = IF e \in S THEN AlertStep(evs[e]) ELSE evs[e]
      /\ e \in DOMAIN sent' =>
           sent'[e] = IF e \in S /\ (SendsAlert(evs[e]) \/ SendsCancel(evs[e]))
                      THEN Message(evs[e]) ELSE sent[e]
      /\ e \in DOMAIN sent' /\ e \notin DOMAIN sent =>
           e \in S /\ (SendsAlert(evs[e]) \/ SendsCancel(evs[e]))
  BY DEF Calls, AlertAll
<1>3. AlertStep(evs[e]).tele_fbands = TeleFBands(evs[e])
  BY <1>1, AlertStepHistory
<1>4. ASSUME UseTF, events[e].tele_fbands = 0
      PROVE  events'[e].tele_fbands = 0
  BY <1>1, <1>2, <1>3, <1>4 DEF TeleFBands
<1>5. ASSUME UseTF, events[e].tele_fbands = 1, ~TFEventReverse
      PROVE  /\ events'[e].tele_fbands = 1
             /\ e \in DOMAIN sent' /\ (e \in DOMAIN sent => sent'[e] # sent[e])
                  => sent'[e].type = "DELETE"
  <2>1. evs[e].tele_fbands = 1 /\ TeleFBands(evs[e]) = 1
    BY <1>1, <1>5 DEF TeleFBands
  <2>2. ~SendsAlert(evs[e])
    BY <1>5, <2>1 DEF SendsAlert, AlertOk
  <2>3. SendsCancel(evs[e]) => Message(evs[e]).type = "DELETE"
    BY DEF Message
  <2> QED  BY <1>2, <1>3, <2>1, <2>2, <2>3
<1> QED  BY <1>4, <1>5 DEF Stands

LEMMA StepStands ==
  ASSUME IndInv, [Next]_vars, NEW e \in DOMAIN events \cap DOMAIN events'
  PROVE  Stands(e)
<1>1. ASSUME UNCHANGED sent, events'[e].tele_fbands = events[e].tele_fbands
      PROVE  Stands(e)
  BY <1>1 DEF Stands
<1>2. CASE Read
  <2>1. PICK sound \in [DOMAIN events -> BOOLEAN],
             vote \in [DOMAIN events -> Verdicts] :
          events' = [x \in DOMAIN events |->
                       [events[x] EXCEPT !.sound = sound[x], !.vote = vote[x]]]
    BY <1>2 DEF Read
  <2>2. events[e] \in Events
    BY DEF IndInv, EventOk
  <2>3. events'[e].tele_fbands = events[e].tele_fbands
    BY <2>1, <2>2 DEF Events
  <2> QED  BY <1>1, <1>2, <2>3 DEF Read
<1>3. CASE \E x \in EventIds \cup {None} : AssociateTrigger(x)
  BY <1>1, <1>3 DEF AssociateTrigger
<1>4. CASE \E isSound \in BOOLEAN, verdict \in Verdicts :
             InsertEvent(isSound, verdict)
  <2>1. next_eventid \in Nat /\ e < next_eventid
    BY DEF IndInv, TypeOK, IdsOk
  <2>2. e # next_eventid
    BY <2>1
  <2> QED  BY <1>1, <1>4, <2>2 DEF InsertEvent
<1>5. CASE \E evs, S : Calls(evs, S)
  BY <1>5, CallsStand
<1>6. CASE RemoveOldEvents
  BY <1>1, <1>6 DEF RemoveOldEvents
<1>7. CASE UNCHANGED <<events, sent, next_eventid>>
  BY <1>1, <1>7
<1>8. UNCHANGED vars => UNCHANGED <<events, sent, next_eventid>>
  BY DEF vars
<1> QED  BY <1>2, <1>3, <1>4, <1>5, <1>6, <1>7, <1>8, AlertingSteps

(* VerdictStands: no sequence of triggers makes EPIC take back a verdict   *)
(* that is final.                                                          *)
THEOREM VerdictsStand == Spec => VerdictStands
<1>1. IndInv /\ [Next]_vars =>
        [\A e \in DOMAIN events \cap DOMAIN events' : Stands(e)]_vars
  BY StepStands
<1> QED  BY <1>1, Invariance, PTL DEF Spec, VerdictStands, Stands

-----------------------------------------------------------------------------
(* The refinement.                                                         *)

(* A call of alert() is one round of publication.                          *)
LEMMA CallsAnnounce ==
  ASSUME IndInv, NEW evs, NEW S, Calls(evs, S)
  PROVE  Subscribers!Announce
<1> DEFINE alerted == {e \in S : SendsAlert(evs[e])}
           cancelled == {e \in S : SendsCancel(evs[e])}
<1>1. /\ S \subseteq DOMAIN events
      /\ events' = [e \in DOMAIN events |->
                     IF e \in S THEN AlertStep(evs[e]) ELSE evs[e]]
      /\ sent' = [e \in DOMAIN sent \cup
                         {x \in S : SendsAlert(evs[x]) \/ SendsCancel(evs[x])} |->
                   IF e \in {x \in S : SendsAlert(evs[x]) \/ SendsCancel(evs[x])}
                   THEN Message(evs[e]) ELSE sent[e]]
      /\ UNCHANGED next_eventid
  BY DEF Calls, AlertAll
<1>2. /\ alerted \in SUBSET DOMAIN events /\ cancelled \in SUBSET DOMAIN events
      /\ alerted \cap cancelled = {}
      /\ ~SendCancelMessage => cancelled = {}
  BY <1>1 DEF SendsAlert, SendsCancel, MaySendCancel
<1>3. {x \in S : SendsAlert(evs[x]) \/ SendsCancel(evs[x])} = alerted \cup cancelled
  OBVIOUS
<1>4. ASSUME NEW e \in DOMAIN events
      PROVE  /\ e \in alerted => Message(evs[e]) = Subscribers!Alert(e)
             /\ e \in cancelled => Message(evs[e]) = Subscribers!Cancel(e)
  <2>1. /\ evs[e].history = events[e].history
        /\ events[e].history \in Seq(Entries)
        /\ SentOk(e, events[e])
    BY DEF IndInv, Calls, EventOk, Events
  <2>2. CASE Alerted(events[e])
    <3>1. /\ Subscribers!LastVersion(e) = Len(events[e].history) - 1
          /\ Len(events[e].history) \in Nat \ {0}
      BY <2>1, <2>2 DEF SentOk, Alerted, Subscribers!LastVersion
    <3> QED  BY <2>1, <2>2, <3>1
             DEF Message, Alerted, SendsAlert, SendsCancel,
                 Subscribers!Alert, Subscribers!Cancel
  <2>3. CASE ~Alerted(events[e])
    <3>1. /\ Subscribers!LastVersion(e) = -1 /\ Len(events[e].history) = 0
          /\ ~Alerted(evs[e])
      BY <2>1, <2>3 DEF SentOk, Alerted, Subscribers!LastVersion
    <3> QED  BY <2>1, <3>1
             DEF Message, SendsAlert, SendsCancel, MaySendCancel, Subscribers!Alert
  <2> QED  BY <2>2, <2>3
<1> HIDE DEF alerted, cancelled
<1>5. DOMAIN events' =
        IF SendCancelMessage THEN DOMAIN events ELSE DOMAIN events \ cancelled
  BY <1>1, <1>2
<1>6. sent' = [e \in DOMAIN sent \cup alerted \cup cancelled |->
                 IF e \in alerted THEN Subscribers!Alert(e)
                 ELSE IF e \in cancelled THEN Subscribers!Cancel(e) ELSE sent[e]]
  <2>1. sent' = [e \in DOMAIN sent \cup (alerted \cup cancelled) |->
                   IF e \in alerted \cup cancelled THEN Message(evs[e]) ELSE sent[e]]
    BY <1>1, <1>3
  <2>2. DOMAIN sent \cup (alerted \cup cancelled) = DOMAIN sent \cup alerted \cup cancelled
    OBVIOUS
  <2>3. ASSUME NEW e
        PROVE  (IF e \in alerted \cup cancelled THEN Message(evs[e]) ELSE sent[e])
             = (IF e \in alerted THEN Subscribers!Alert(e)
                ELSE IF e \in cancelled THEN Subscribers!Cancel(e) ELSE sent[e])
    BY <1>2, <1>4
  <2> QED  BY <2>1, <2>2, <2>3
<1> QED  BY <1>1, <1>2, <1>5, <1>6 DEF Subscribers!Announce

LEMMA StepRefines ==
  ASSUME IndInv, [Next]_vars
  PROVE  [Subscribers!Next]_(Subscribers!vars)
<1>1. ASSUME DOMAIN events' = DOMAIN events, UNCHANGED <<next_eventid, sent>>
      PROVE  UNCHANGED Subscribers!vars
  BY <1>1 DEF Subscribers!vars
<1>2. CASE Read
  BY <1>1, <1>2 DEF Read
<1>3. CASE \E x \in EventIds \cup {None} : AssociateTrigger(x)
  BY <1>1, <1>3 DEF AssociateTrigger
<1>4. CASE \E isSound \in BOOLEAN, verdict \in Verdicts :
             InsertEvent(isSound, verdict)
  <2>1. /\ next_eventid \in EventIds /\ next_eventid' = next_eventid + 1
        /\ DOMAIN events' = DOMAIN events \cup {next_eventid}
        /\ UNCHANGED sent
    BY <1>4 DEF InsertEvent
  <2>2. Subscribers!Open
    BY <2>1 DEF Subscribers!Open
  <2> QED  BY <2>2 DEF Subscribers!Next
<1>5. CASE \E evs, S : Calls(evs, S)
  BY <1>5, CallsAnnounce DEF Subscribers!Next
<1>6. CASE RemoveOldEvents
  <2> DEFINE old == DOMAIN events \ DOMAIN events'
  <2>1. /\ DOMAIN events' \subseteq DOMAIN events
        /\ UNCHANGED <<next_eventid, sent>>
    BY <1>6 DEF RemoveOldEvents
  <2>2. old \in SUBSET DOMAIN events /\ DOMAIN events' = DOMAIN events \ old
    BY <2>1
  <2> HIDE DEF old
  <2>3. Subscribers!Abandon
    BY <2>1, <2>2 DEF Subscribers!Abandon
  <2> QED  BY <2>3 DEF Subscribers!Next
<1>7. CASE UNCHANGED <<events, sent, next_eventid>>
  BY <1>1, <1>7
<1>8. UNCHANGED vars => UNCHANGED <<events, sent, next_eventid>>
  BY DEF vars
<1> QED  BY <1>2, <1>3, <1>4, <1>5, <1>6, <1>7, <1>8, AlertingSteps

(* EPIC makes the promise of AlertStream: a NEW first, versions without a  *)
(* gap, and, unless cancel messages are on, nothing after an event is gone.*)
THEOREM Refinement == Spec => ImplementsAlertStream
<1>1. Init => Subscribers!Init
  BY DEF Init, Subscribers!Init
<1>2. IndInv /\ [Next]_vars => [Subscribers!Next]_(Subscribers!vars)
  BY StepRefines
<1> QED
  BY <1>1, <1>2, Invariance, PTL
  DEF Spec, ImplementsAlertStream, Subscribers!Spec
=============================================================================
