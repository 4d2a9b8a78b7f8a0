---------------------------- MODULE EventIdFile ----------------------------
(***************************************************************************)
(* The event ids of the Decision Module and of EPIC, and the file that     *)
(* keeps the next one over a restart (DecisionModule::getEventId and       *)
(* getNewEventID, the constructor of E2EventManager and getNewEventid).    *)
(*                                                                         *)
(* Both programs open the file for writing, which empties it, then write   *)
(* the number and close it: two steps for anyone who may stop the program  *)
(* in between.  Either step may fail at any time, and the programs go on.  *)
(* They are single-threaded and have a file each.  EPIC's ResetEventID,    *)
(* for replays, keeps no file and is left out.                             *)
(***************************************************************************)
EXTENDS Integers

CONSTANTS
  Programs,      \* subset of {"dm", "e2"}
  Garbage,       \* what an uninitialised buffer may be scanned as
  MaxId,         \* bound: the program stops asking for ids past it
  Absent, Empty  \* no file, a file without a number

VARIABLES
  program,       \* whose file it is
  file,          \* Absent, Empty or the number it holds
  step,          \* what the program does next
  next_event_id,
  event_id,      \* the id getNewEventID is about to return
  issued,        \* the ids given to events
  repeated,      \* those that were given to more than one
  unsaved,       \* history: the ids given since the disk began to fail, or
                 \* all if the failure left the file empty
  exposed        \* history: those that were unsaved when the program was
                 \* stopped, all if it was stopped in the middle of a
                 \* write or could not read the file

vars == <<program, file, step, next_event_id, event_id, issued, repeated,
          unsaved, exposed>>

ASSUME EventIdAssumption ==
  /\ Programs \subseteq {"dm", "e2"}
  /\ Garbage \subseteq 0 .. MaxId + 1
  /\ MaxId \in Nat \ {0}
  /\ Absent \notin Int /\ Empty \notin Int

Steps == {"down", "start_open", "start_write", "up", "open", "write"}
Writing == {"start_write", "write"}

Init ==
  /\ program \in Programs
  /\ file = Absent
  /\ step = "down"
  /\ next_event_id = 1
  /\ event_id = 0
  /\ issued = {}
  /\ repeated = {}
  /\ unsaved = {}
  /\ exposed = {}

(* What the program reads at start.  EPIC scans its buffer even if fgets   *)
(* put nothing there; otherwise the counter keeps its initial value.       *)
Scanned ==
  (IF file \in Nat THEN {file} ELSE {1})
  \cup (IF file = Empty /\ program = "e2" THEN Garbage ELSE {})

Positive(n) == IF n <= 0 THEN 1 ELSE n

(* getEventId.  If the file is there but does not open, it begins at 1.    *)
Start ==
  /\ step = "down"
  /\ step' = "start_open"
  /\ \/ \E n \in Scanned : next_event_id' = Positive(n) /\ UNCHANGED exposed
     \/ next_event_id' = 1 /\ exposed' = issued
  /\ UNCHANGED <<program, file, event_id, issued, repeated, unsaved>>

(* fopen(..., "w"), at start: EPIC throws if it fails.                     *)
OpenAtStart ==
  /\ step = "start_open"
  /\ \/ file' = Empty /\ step' = "start_write"
     \/ file' = file /\ step' = IF program = "e2" THEN "down" ELSE "up"
  /\ UNCHANGED <<program, next_event_id, event_id, issued, repeated, unsaved,
                 exposed>>

(* Mutant of Written: the id just taken is kept, not the next one.         *)
LastIdWritten ==
  \/ file' = event_id /\ unsaved' = {}
  \/ file' = file /\ unsaved' = issued'

(* Mutant of Written: the file is one ahead.                               *)
IdAfterNextWritten ==
  \/ file' = next_event_id + 1 /\ unsaved' = {}
  \/ file' = file /\ unsaved' = issued'

(* fprintf and fclose, whose results are not looked at: the next id is in  *)
(* the file, or the file stays empty.                                      *)
Written ==
  \/ file' = next_event_id /\ unsaved' = {}
  \/ file' = file /\ unsaved' = issued'

WriteAtStart ==
  /\ step = "start_write"
  /\ step' = "up"
  /\ UNCHANGED <<program, next_event_id, event_id, issued, repeated, exposed>>
  /\ Written

(* getNewEventID.                                                          *)
GetNewEventID ==
  /\ step = "up"
  /\ next_event_id <= MaxId
  /\ event_id' = next_event_id
  /\ next_event_id' = next_event_id + 1
  /\ step' = "open"
  /\ UNCHANGED <<program, file, issued, repeated, unsaved, exposed>>

(* The id is returned, and an event carries it.                            *)
Return ==
  /\ step' = "up"
  /\ issued' = issued \cup {event_id}
  /\ repeated' = repeated \cup (issued \cap {event_id})

Open ==
  /\ step = "open"
  /\ \/ /\ file' = Empty /\ step' = "write"
        /\ UNCHANGED <<issued, repeated, unsaved>>
     \/ file' = file /\ Return /\ unsaved' = unsaved \cup {event_id}
  /\ UNCHANGED <<program, next_event_id, event_id, exposed>>

Write ==
  /\ step = "write"
  /\ Return
  /\ Written
  /\ UNCHANGED <<program, next_event_id, event_id, exposed>>

(* The program ends: by a signal, an exception, a reboot.                  *)
Stop ==
  /\ step # "down"
  /\ step' = "down"
  /\ unsaved' = {}
  /\ exposed' = IF step \in Writing THEN issued ELSE exposed \cup unsaved
  /\ UNCHANGED <<program, file, next_event_id, event_id, issued, repeated>>

Next ==
  \/ Start \/ OpenAtStart \/ WriteAtStart
  \/ GetNewEventID \/ Open \/ Write
  \/ Stop

Spec == Init /\ [][Next]_vars

-----------------------------------------------------------------------------
(* The types of the state.                                                 *)
TypeOK ==
  /\ program \in Programs
  /\ file \in 0 .. MaxId + 1 \cup {Absent, Empty}
  /\ step \in Steps
  /\ next_event_id \in 1 .. MaxId + 1
  /\ event_id \in 0 .. MaxId
  /\ issued \subseteq 1 .. MaxId
  /\ repeated \cup unsaved \cup exposed \subseteq issued

(* Whatever fails, and however often the program is stopped and started    *)
(* again: two events get the same id only if it was given while the disk   *)
(* failed, and the program was stopped before a later id was stored; or    *)
(* if, since it was given, the program was stopped with its file emptied   *)
(* or could not read it.  A failure that is over before the stop repeats   *)
(* no id.  It takes a run, a stop and another run to break it.             *)
IdsUnique == repeated \subseteq exposed

(* Except while it is written, the file holds a number above every id that *)
(* a failing disk or a stop have not put at risk, so a restart repeats     *)
(* none of these.                                                          *)
FileIsCurrent ==
  step \in {"up", "open"} =>
    \A i \in issued \ (unsaved \cup exposed) : file \in Nat /\ i < file
=============================================================================
