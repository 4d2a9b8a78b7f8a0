------------------------- MODULE EventIdFile_proofs -------------------------
(***************************************************************************)
(* Proofs about the ids of EventIdFile, for every bound MaxId, any content *)
(* an uninitialised buffer may have, and any order of failures and stops.  *)
(***************************************************************************)
EXTENDS EventIdFile, TLAPS

(* The ids that must not come again, and those the file must know of.      *)
Safe == issued \ exposed
Stored == issued \ (exposed \cup unsaved)

(* A program that starts now continues above every id in S.                *)
Covers(S) == \A i \in S : file \in Nat /\ i < file

(* What the file and the counter say, step by step.                        *)
FileInv ==
  /\ step \in {"down", "start_open"} => unsaved = {} /\ Covers(Safe)
  /\ step \in {"up", "open"} => Covers(Stored)
  /\ step \in {"start_open", "start_write", "up"} =>
       \A i \in Safe : i < next_event_id
  /\ step \in {"open", "write"} =>
       /\ next_event_id = event_id + 1
       /\ \A i \in Safe : i < event_id

IndInv ==
  /\ TypeOK
  /\ step \in {"open", "write"} => event_id \in 1 .. MaxId
  /\ repeated \subseteq exposed
  /\ FileInv

-----------------------------------------------------------------------------
LEMMA InitIndInv == Init => IndInv
BY EventIdAssumption
DEF Init, IndInv, TypeOK, Steps, FileInv, Covers, Safe, Stored

(* The program may start again whenever it is stopped.                     *)
LEMMA StartInv == IndInv /\ Start => IndInv'
<1> SUFFICES ASSUME IndInv, Start PROVE IndInv'
  OBVIOUS
<1>1. TypeOK'
  BY EventIdAssumption, SMTT(30) DEF Start, Scanned, Positive, IndInv, TypeOK, Steps, FileInv
<1>2. /\ step' \in {"open", "write"} => event_id' \in 1 .. MaxId
      /\ repeated' \subseteq exposed'
  BY EventIdAssumption, SMTT(30)
  DEF Start, Scanned, Positive, IndInv, TypeOK, Steps, FileInv, Safe
<1>3. FileInv'
  BY EventIdAssumption, SMTT(60)
  DEF Start, Scanned, Positive, IndInv, TypeOK, Steps, FileInv, Covers, Safe, Stored
<1> QED  BY <1>1, <1>2, <1>3 DEF IndInv

LEMMA OpenAtStartInv == IndInv /\ OpenAtStart => IndInv'
<1> SUFFICES ASSUME IndInv, OpenAtStart PROVE IndInv'
  OBVIOUS
<1>1. TypeOK'
  BY EventIdAssumption, SMTT(30) DEF OpenAtStart, IndInv, TypeOK, Steps, FileInv
<1>2. /\ step' \in {"open", "write"} => event_id' \in 1 .. MaxId
      /\ repeated' \subseteq exposed'
  BY EventIdAssumption, SMTT(30)
  DEF OpenAtStart, IndInv, TypeOK, Steps, FileInv, Safe
<1>3. FileInv'
  BY EventIdAssumption, SMTT(60)
  DEF OpenAtStart, IndInv, TypeOK, Steps, FileInv, Covers, Safe, Stored
<1> QED  BY <1>1, <1>2, <1>3 DEF IndInv

LEMMA WriteAtStartInv == IndInv /\ WriteAtStart => IndInv'
<1> SUFFICES ASSUME IndInv, WriteAtStart PROVE IndInv'
  OBVIOUS
<1>1. TypeOK'
  BY EventIdAssumption, SMTT(30) DEF WriteAtStart, Written, IndInv, TypeOK, Steps, FileInv
<1>2. /\ step' \in {"open", "write"} => event_id' \in 1 .. MaxId
      /\ repeated' \subseteq exposed'
  BY EventIdAssumption, SMTT(30)
  DEF WriteAtStart, Written, IndInv, TypeOK, Steps, FileInv, Safe
<1>3. FileInv'
  BY EventIdAssumption, SMTT(60)
  DEF WriteAtStart, Written, IndInv, TypeOK, Steps, FileInv, Covers, Safe, Stored
<1> QED  BY <1>1, <1>2, <1>3 DEF IndInv

LEMMA GetNewEventIDInv == IndInv /\ GetNewEventID => IndInv'
<1> SUFFICES ASSUME IndInv, GetNewEventID PROVE IndInv'
  OBVIOUS
<1>1. TypeOK'
  BY EventIdAssumption, SMTT(30) DEF GetNewEventID, IndInv, TypeOK, Steps, FileInv
<1>2. /\ step' \in {"open", "write"} => event_id' \in 1 .. MaxId
      /\ repeated' \subseteq exposed'
  BY EventIdAssumption, SMTT(30)
  DEF GetNewEventID, IndInv, TypeOK, Steps, FileInv, Safe
<1>3. FileInv'
  BY EventIdAssumption, SMTT(60)
  DEF GetNewEventID, IndInv, TypeOK, Steps, FileInv, Covers, Safe, Stored
<1> QED  BY <1>1, <1>2, <1>3 DEF IndInv

LEMMA OpenInv == IndInv /\ Open => IndInv'
<1> SUFFICES ASSUME IndInv, Open PROVE IndInv'
  OBVIOUS
<1>1. CASE /\ file' = Empty /\ step' = "write"
           /\ UNCHANGED <<issued, repeated, unsaved>>
  <2>1. TypeOK'
    BY <1>1 DEF Open, IndInv, TypeOK, Steps
  <2>2. FileInv'
    BY <1>1 DEF Open, IndInv, FileInv, Safe
  <2> QED  BY <1>1, <2>1, <2>2 DEF Open, IndInv
<1>2. CASE file' = file /\ Return /\ unsaved' = unsaved \cup {event_id}
  <2>1. /\ step = "open" /\ step' = "up"
        /\ UNCHANGED <<program, next_event_id, event_id, exposed>>
    BY <1>2 DEF Open, Return
  <2>2. TypeOK'
    BY <1>2, <2>1 DEF Return, IndInv, TypeOK, Steps
  <2>3. repeated' \subseteq exposed'
    BY <1>2, <2>1 DEF Return, IndInv, TypeOK, FileInv, Safe
  <2>4. Covers(Stored)'
    BY <1>2, <2>1 DEF Return, IndInv, FileInv, Covers, Stored
  <2>5. (\A i \in Safe : i < next_event_id)'
    BY <1>2, <2>1 DEF Return, IndInv, TypeOK, FileInv, Safe
  <2> QED  BY <2>1, <2>2, <2>3, <2>4, <2>5 DEF IndInv, FileInv
<1> QED  BY <1>1, <1>2 DEF Open

LEMMA WriteInv == IndInv /\ Write => IndInv'
<1> SUFFICES ASSUME IndInv, Write PROVE IndInv'
  OBVIOUS
<1>1. TypeOK'
  BY EventIdAssumption, SMTT(30) DEF Write, Written, Return, IndInv, TypeOK, Steps, FileInv
<1>2. /\ step' \in {"open", "write"} => event_id' \in 1 .. MaxId
      /\ repeated' \subseteq exposed'
  BY EventIdAssumption, SMTT(30)
  DEF Write, Written, Return, IndInv, TypeOK, Steps, FileInv, Safe
<1>3. FileInv'
  BY EventIdAssumption, SMTT(60)
  DEF Write, Written, Return, IndInv, TypeOK, Steps, FileInv, Covers, Safe, Stored
<1> QED  BY <1>1, <1>2, <1>3 DEF IndInv

LEMMA StopInv == IndInv /\ Stop => IndInv'
<1> SUFFICES ASSUME IndInv, Stop PROVE IndInv'
  OBVIOUS
<1>1. TypeOK'
  BY EventIdAssumption, SMTT(30) DEF Stop, Writing, IndInv, TypeOK, Steps, FileInv
<1>2. /\ step' \in {"open", "write"} => event_id' \in 1 .. MaxId
      /\ repeated' \subseteq exposed'
  BY EventIdAssumption, SMTT(30)
  DEF Stop, Writing, IndInv, TypeOK, Steps, FileInv, Safe
<1>3. FileInv'
  BY EventIdAssumption, SMTT(60)
  DEF Stop, Writing, IndInv, TypeOK, Steps, FileInv, Covers, Safe, Stored
<1> QED  BY <1>1, <1>2, <1>3 DEF IndInv

LEMMA StutterInv == IndInv /\ UNCHANGED vars => IndInv'
BY DEF vars, IndInv, TypeOK, FileInv, Covers, Safe, Stored

(* The invariant from which the theorems below follow.                     *)
THEOREM Invariance == Spec => []IndInv
<1>1. IndInv /\ [Next]_vars => IndInv'
  BY StartInv, OpenAtStartInv, WriteAtStartInv, GetNewEventIDInv, OpenInv,
     WriteInv, StopInv, StutterInv
  DEF Next
<1> QED  BY InitIndInv, <1>1, PTL DEF Spec

(* The types of the state of EventIdFile.                                  *)
THEOREM TypeCorrect == Spec => []TypeOK
<1>1. IndInv => TypeOK
  BY DEF IndInv
<1> QED  BY Invariance, <1>1, PTL

(* getNewEventID gives an id a second time only if a stop found it unsaved *)
(* or the file empty, or the file could not be read: over any number of    *)
(* restarts, and of failures that were over before the program stopped.    *)
THEOREM NoIdTwice == Spec => []IdsUnique
<1>1. IndInv => IdsUnique
  BY DEF IndInv, IdsUnique
<1> QED  BY Invariance, <1>1, PTL

(* Outside the write the file is above every id that is not at risk.       *)
THEOREM FileCurrent == Spec => []FileIsCurrent
<1>1. IndInv => FileIsCurrent
  BY DEF IndInv, FileInv, Covers, Stored, FileIsCurrent
<1> QED  BY Invariance, <1>1, PTL
=============================================================================
