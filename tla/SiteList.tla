------------------------------- MODULE SiteList -------------------------------
(***************************************************************************)
(* What the dashboard promises about the list of sites: each request is    *)
(* one step.  A new site gets an identifier of its own; only who manages a *)
(* site edits or deletes it; no two sites share an origin; a deleted site  *)
(* does not come back.                                                     *)
(***************************************************************************)
CONSTANTS Sites, Users, Admins, Lists, OriginsOf, None

VARIABLES
    rows,    \* the sites
    taken,   \* the identifiers used so far
    editor   \* the user who changed the list last

vars == <<rows, taken, editor>>

Existing == {s \in Sites : rows[s] # None}

Unclaimed(list, s) ==
    \A t \in Existing \ {s} : OriginsOf[rows[t].list] \cap OriginsOf[list] = {}

Manages(u, row) == u \in Admins \cup {row.owner, row.creator}

Init ==
    /\ rows = [s \in Sites |-> None]
    /\ taken = {}
    /\ editor = None

Create(u, s, owner, list) ==
    /\ s \notin taken
    /\ Unclaimed(list, s)
    /\ rows' = [rows EXCEPT ![s] = [owner |-> owner, creator |-> u, list |-> list]]
    /\ taken' = taken \cup {s}
    /\ editor' = u

Edit(u, s, owner, list) ==
    /\ s \in Existing
    /\ Manages(u, rows[s])
    /\ Unclaimed(list, s)
    /\ rows' = [rows EXCEPT ![s].owner = owner, ![s].list = list]
    /\ editor' = u
    /\ UNCHANGED taken

Delete(u, s) ==
    /\ s \in Existing
    /\ Manages(u, rows[s])
    /\ rows' = [rows EXCEPT ![s] = None]
    /\ editor' = u
    /\ UNCHANGED taken

Next ==
    \E u \in Users, s \in Sites :
        \/ \E owner \in Users, list \in Lists : Create(u, s, owner, list) \/ Edit(u, s, owner, list)
        \/ Delete(u, s)

Spec == Init /\ [][Next]_vars

=============================================================================
