----------------------------- MODULE MCUserAccounts -----------------------------
(* An instance of UserAccounts for TLC: the second picture may be empty.    *)
EXTENDS UserAccounts, TLC

CONSTANTS u1, h1, h2, n1, n2, p1, p2

MCResults == (p1 :> {"image", "error"}) @@ (p2 :> {"image", "empty"})

=================================================================================
