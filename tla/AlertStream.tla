---------------------------- MODULE AlertStream ----------------------------
(***************************************************************************)
(* What the Decision Module and EPIC promise those who subscribe to their  *)
(* alerts: for each event id a NEW, then messages with consecutive         *)
(* versions, UPDATEs or a DELETE; ids are handed out in order and never    *)
(* twice.  The DELETE closes the id for good, unless the publisher may     *)
(* think again (Reopens: EPIC with cancel messages).  An event may also    *)
(* end without a word (it expires), and a reviewer may repeal an alert     *)
(* whose event is gone.                                                    *)
(*                                                                         *)
(* Nothing is said of when an event opens or of what an alert holds; that  *)
(* is DecisionModule's and E2Alert's.                                      *)
(***************************************************************************)
EXTENDS Integers

CONSTANTS Ids, Reopens

VARIABLES open,     \* ids with an event that may still be alerted
          next_id,
          sent      \* [id -> last message of the id]

vars == <<open, next_id, sent>>

LastVersion(e) == IF e \in DOMAIN sent THEN sent[e].ver ELSE -1

Alert(e) == [type |-> IF LastVersion(e) = -1 THEN "NEW" ELSE "UPDATE",
             ver |-> LastVersion(e) + 1]
Cancel(e) == [type |-> "DELETE", ver |-> LastVersion(e) + 1]

Init ==
  /\ open = {}
  /\ next_id = 1
  /\ DOMAIN sent = {}

Open ==
  /\ next_id \in Ids
  /\ open' = open \cup {next_id}
  /\ next_id' = next_id + 1
  /\ UNCHANGED sent

(* One round of publication.                                               *)
Announce ==
  \E alerted, cancelled \in SUBSET open :
    /\ alerted \cap cancelled = {}
    /\ open' = IF Reopens THEN open ELSE open \ cancelled
    /\ sent' = [e \in DOMAIN sent \cup alerted \cup cancelled |->
                  IF e \in alerted THEN Alert(e)
                  ELSE IF e \in cancelled THEN Cancel(e) ELSE sent[e]]
    /\ UNCHANGED next_id

Abandon ==
  /\ \E old \in SUBSET open : open' = open \ old
  /\ UNCHANGED <<next_id, sent>>

Repeal ==
  /\ \E e \in DOMAIN sent \ open :
       sent' = [sent EXCEPT ![e] = [type |-> "DELETE", ver |-> 0]]
  /\ UNCHANGED <<open, next_id>>

Next == Open \/ Announce \/ Abandon \/ Repeal

Spec == Init /\ [][Next]_vars
=============================================================================
