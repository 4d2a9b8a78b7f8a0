-------------------------- MODULE MCDeleteRetained --------------------------
(***************************************************************************)
(* The Decision Module with a history of when each DELETE was received.    *)
(***************************************************************************)
EXTENDS MCDecisionModule

VARIABLE heard   \* [key -> when the DELETE that is kept was received]

HInit == Init /\ heard = [k \in {} |-> 0]

HNext ==
  /\ Next
  /\ heard' = [k \in DOMAIN delete_messages' |->
                 IF k \in DOMAIN delete_messages THEN heard[k] ELSE now]

HSpec == HInit /\ [][HNext]_<<vars, heard>>

(* DecisionModule.h: every field of a DELETE but the system and id is      *)
(* ignored; it is time stamped and retained for ALGOEVENT_TIMEOUT seconds. *)
(* discardOldDeleteEvents counts from the origin time it carries instead.  *)
DeleteRetained ==
  [][\A k \in DOMAIN delete_messages \ DOMAIN delete_messages' :
       now - heard[k] > AlgTimeout]_<<vars, heard>>
=============================================================================
