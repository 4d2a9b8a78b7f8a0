------------------------------ MODULE DMEvent ------------------------------
(***************************************************************************)
(* One event of the Decision Module (decimod/DMEvent.cpp) and the data it  *)
(* is computed from, as operators on records.                              *)
(*                                                                         *)
(* A DM event groups the messages ("algorithm events") that the source     *)
(* algorithms send about what is believed to be one earthquake.  It does   *)
(* not hold the messages: it holds their keys, and every computation goes  *)
(* through the map msgs (DecisionModule's algo_messages), passed here as   *)
(* an argument where the code keeps the pointer algo_map.                  *)
(*                                                                         *)
(* Latitude, longitude and depth are one integer coordinate, loc; every    *)
(* attribute is an integer.                                                *)
(***************************************************************************)
EXTENDS Integers, FiniteSets, FiniteSetsExt

CONSTANTS
  Sources,       \* (system_name, program_instance) pairs that send messages
  AlgIds,        \* the event ids a source gives to its own events
  Categories,    \* subset of {"LIVE", "TEST"}
  SystemOf,      \* the system name of each source
  CoreSystems,   \* AlgCoreContributors
  AloneSystems,  \* systems with <name>_alert_alone true
  Payloads,      \* the attribute values the messages may carry
  Combine(_),    \* the mean DMEvent::calculateComboValues forms
  MaxTimeToEvent, MaxDistToEvent, MaxMisfit, \* association limits
  TwoAlgMag,     \* TwoAlgMagnitude
  ChangeThreshold, \* CHANGE_THRESHOLD_*, one value per attribute
  NotYet         \* "nothing published yet"

(* What a message says of its event: origin time, location, magnitude and  *)
(* likelihood.                                                             *)
Attributes == [ot : Int, loc : Int, mag : Int, lh : Int]

(* The key of a message: what AlgorithmEvent::operator== compares.         *)
Keys == [src : Sources, id : AlgIds, cat : Categories]

(* A stored message: CoreEventInfo's version and attributes.               *)
Messages == [ver : Nat, body : Payloads]

(* What the decision to republish compares: the encoded message with its   *)
(* version set to 0, and the number of contributors.                       *)
Contents == [type : {"NEW", "UPDATE"}, body : Attributes, contrib : Nat]

DMEvents ==
  [ algo_events : SUBSET Keys, previous_algo_events : SUBSET Keys,
    category : Categories, current : Attributes,
    publish_flag : BOOLEAN, version : {-1} \cup Nat,
    published : Attributes \cup {NotYet},
    previous_message : Contents \cup {NotYet} ]

ASSUME SystemAssumption == SystemOf \in [Sources -> STRING]

(* The maps are finite.                                                    *)
ASSUME KeysAssumption == IsFiniteSet(Keys)

ASSUME PayloadAssumption == Payloads \subseteq Attributes

(* The limits of CHANGE_THRESHOLD_* are not negative.                      *)
ASSUME ThresholdAssumption ==
  /\ NotYet \notin Attributes
  /\ \A a \in {"ot", "loc", "mag", "lh"} : ChangeThreshold[a] \in Nat

(* The mean of the contributors is again a value of each attribute.        *)
ASSUME CombineAssumption ==
  \A S \in (SUBSET Keys) \ {{}} : \A f \in [S -> Payloads] :
    Combine(f) \in Attributes

-----------------------------------------------------------------------------
UseCore(k) == SystemOf[k.src] \in CoreSystems

(* The members whose attributes count: the core contributors, or a sole    *)
(* member of any kind.                                                     *)
Contributing(members) ==
  IF Cardinality(members) = 1 THEN members ELSE {k \in members : UseCore(k)}

(* calculateComboValues: drop members that have left the map, then form    *)
(* the mean.  With nothing to average the old attributes stay.             *)
Recalculate(ev, msgs) ==
  LET members == ev.algo_events \cap DOMAIN msgs
      used    == Contributing(members)
  IN [ev EXCEPT
        !.algo_events = members,
        !.current = IF used = {} THEN @
                    ELSE Combine([k \in used |-> msgs[k].body])]

AddAlgoEvent(ev, k, msgs) ==
  Recalculate([ev EXCEPT
                 !.algo_events = @ \cup {k},
                 !.previous_algo_events =
                    IF k \in ev.algo_events THEN @ ELSE ev.algo_events \cup {k}],
              msgs)

(* addAlgoEvent(algo, temporary = true).                                   *)
TryAlgoEvent(ev, k, msgs) ==
  Recalculate([ev EXCEPT !.algo_events = @ \cup {k}], msgs)

RemoveAlgoEvent(ev, k, msgs) ==
  IF k \in ev.algo_events
  THEN Recalculate([ev EXCEPT !.algo_events = @ \ {k}], msgs)
  ELSE ev

(* Mutant of UpdateEvent: the event is not flagged.                        *)
UpdateUnflagged(ev, msgs) == Recalculate(ev, msgs)

(* setPublishFlag(true) and update().                                      *)
UpdateEvent(ev, msgs) == Recalculate([ev EXCEPT !.publish_flag = TRUE], msgs)

-----------------------------------------------------------------------------
Distance(x, y) == IF x < y THEN y - x ELSE x - y

DeltaTime(a, b) == Distance(a.ot, b.ot)
DeltaDist(a, b) == Distance(a.loc, b.loc)

(* Misfit of one message, times MaxTimeToEvent * MaxDistToEvent.           *)
AlgoMisfit(a, b) ==
  DeltaTime(a, b) * MaxDistToEvent + DeltaDist(a, b) * MaxTimeToEvent

(* totalDMEventMisfit: the mean over the contributing members.             *)
TotalMisfit(ev, msgs) ==
  LET used == Contributing(ev.algo_events)
  IN IF used = {} THEN 0
     ELSE MapThenSumSet(LAMBDA k : AlgoMisfit(msgs[k].body, ev.current), used)
            \div Cardinality(used)

WithinLimits(a, b) ==
  /\ DeltaTime(a, b) <= MaxTimeToEvent
  /\ DeltaDist(a, b) <= MaxDistToEvent

(* Mutant of Conflicts: only the very same message conflicts.              *)
ConflictsByMessage(ev, k) == \E j \in ev.algo_events : j = k

(* checkNewAlgoMisfit refuses an event that holds a message of the same    *)
(* system and program instance.                                            *)
Conflicts(ev, k) == \E j \in ev.algo_events : j.src = k.src

(* The misfit checkNewAlgoMisfit reports: a core message joins for the     *)
(* trial, any other is measured against the attributes as they stand.      *)
TrialMisfit(ev, k, msgs) ==
  IF UseCore(k) THEN TotalMisfit(TryAlgoEvent(ev, k, msgs), msgs)
  ELSE AlgoMisfit(msgs[k].body, ev.current)

TrialFits(ev, k, msgs) ==
  /\ IF UseCore(k)
     THEN LET trial == TryAlgoEvent(ev, k, msgs)
          IN \A j \in Contributing(trial.algo_events) :
               WithinLimits(msgs[j].body, trial.current)
     ELSE WithinLimits(msgs[k].body, ev.current)
  /\ TrialMisfit(ev, k, msgs) <= MaxMisfit * MaxTimeToEvent * MaxDistToEvent

(* Mutant of AfterTrial: the candidate is not taken out again.             *)
CandidateLeftIn(ev, k, msgs) ==
  IF UseCore(k) /\ ~Conflicts(ev, k) THEN TryAlgoEvent(ev, k, msgs) ELSE ev

(* What is left of the event once the trial is over.                       *)
AfterTrial(ev, k, msgs) ==
  IF UseCore(k) /\ ~Conflicts(ev, k)
  THEN RemoveAlgoEvent(TryAlgoEvent(ev, k, msgs), k, msgs)
  ELSE ev

-----------------------------------------------------------------------------
ContainsCore(ev) == \E k \in ev.algo_events : UseCore(k)

(* DecisionModule::publishAloneOk.                                         *)
PublishAloneOk(ev) ==
  LET core == {SystemOf[k.src] : k \in {j \in ev.algo_events : UseCore(j)}}
  IN Cardinality(core) > 1 \/ core \cap AloneSystems # {}

(* A large magnitude waits for a second algorithm of about that size; the  *)
(* magnitude unit is a tenth, so 1.0 is 10.                                *)
PassedTwoAlgMag(ev, msgs) ==
  \/ ev.version > 0
  \/ LET core == {k \in ev.algo_events : UseCore(k)}
         mag(k) == msgs[k].body.mag
     IN \A k \in core :
          (\A j \in core : mag(j) <= mag(k)) /\ mag(k) >= TwoAlgMag
            => \E j \in core \ {k} : mag(j) >= mag(k) - 10

(* Whether the attributes moved away from the last published ones.         *)
AboveThreshold(ev) ==
  \/ ev.published = NotYet
  \/ \E a \in {"ot", "loc", "mag", "lh"} :
       Distance(ev.current[a], ev.published[a]) > ChangeThreshold[a]

Content(ev) ==
  [type |-> IF ev.version >= 0 THEN "UPDATE" ELSE "NEW",
   body |-> ev.current, contrib |-> Cardinality(ev.algo_events)]
=============================================================================
