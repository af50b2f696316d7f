---------------------------- MODULE SubscriberLife ----------------------------
(***************************************************************************)
(* What LoopAware promises about a subscriber, one step per decision: who  *)
(* submits the form is pending until the link or the owner confirms; who   *)
(* unsubscribed is confirmed again only by the owner or after submitting   *)
(* the form anew; the owner is told once per consent; a deleted subscriber *)
(* does not come back.                                                     *)
(***************************************************************************)
EXTENDS Naturals

CONSTANT Ids   \* identifiers a subscriber may get

VARIABLES
    status,    \* where each subscriber is in its life
    told,      \* notices the owner got since the subscriber last consented
    deciding   \* subscribers whose status the owner is about to set

vars == <<status, told, deciding>>

Listed == {id \in Ids : status[id] \in {"pending", "confirmed", "unsubscribed"}}

Becomes(id, new) == status' = [status EXCEPT ![id] = new]

Init ==
    /\ status = [id \in Ids |-> "new"]
    /\ told = [id \in Ids |-> 0]
    /\ deciding = {}

(* The form is submitted, for the first time or after an unsubscription.   *)
Submit(id) ==
    /\ status[id] \in {"new", "unsubscribed"}
    /\ Becomes(id, "pending")
    /\ told' = [told EXCEPT ![id] = 0]
    /\ UNCHANGED deciding

Confirm(id) ==
    /\ status[id] = "pending"
    /\ Becomes(id, "confirmed")
    /\ UNCHANGED <<told, deciding>>

Tell(id) ==
    /\ status[id] = "confirmed"
    /\ told[id] = 0
    /\ told' = [told EXCEPT ![id] = 1]
    /\ UNCHANGED <<status, deciding>>

Unsubscribe(id) ==
    /\ status[id] \in {"pending", "confirmed"}
    /\ Becomes(id, "unsubscribed")
    /\ UNCHANGED <<told, deciding>>

Delete(id) ==
    /\ id \in Listed
    /\ Becomes(id, "deleted")
    /\ UNCHANGED <<told, deciding>>

(* The owner opens a listed subscriber to confirm it, and does or does not *)
(* go through with it.                                                     *)
Open(id) ==
    /\ id \in Listed
    /\ deciding' = deciding \cup {id}
    /\ UNCHANGED <<status, told>>

Decide(id) ==
    /\ id \in deciding \cap Listed
    /\ Becomes(id, "confirmed")
    /\ deciding' = deciding \ {id}
    /\ UNCHANGED told

Leave ==
    /\ deciding' = {}
    /\ UNCHANGED <<status, told>>

Next ==
    \/ \E id \in Ids :
          \/ Submit(id) \/ Confirm(id) \/ Tell(id) \/ Unsubscribe(id)
          \/ Delete(id) \/ Open(id) \/ Decide(id)
    \/ Leave

Spec == Init /\ [][Next]_vars

=============================================================================
