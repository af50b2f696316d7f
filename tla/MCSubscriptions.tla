--------------------------- MODULE MCSubscriptions ---------------------------
(* Instances of Subscriptions for TLC.  Addresses are model values with    *)
(* two spellings of one mailbox: A is written `a` in lower case.           *)
EXTENDS Subscriptions, TLC

CONSTANTS h1, h2, s1, s2, i1, i2, a, A, b

MCLower == (a :> a) @@ (A :> a) @@ (b :> b)
MCOneMailbox == (a :> a) @@ (A :> a)

HandlersAndIds == Permutations({h1, h2}) \cup Permutations({i1, i2})

=============================================================================
