---------------------------- MODULE MCSiteRegistry ----------------------------
EXTENDS SiteRegistry, TLC

CONSTANTS a, b, la, upperA, lb, lab

(* The texts "a", "A", "b" and "a b".                                      *)
MCOriginsOf == [l \in Lists |-> CASE l \in {la, upperA} -> {a} [] l = lb -> {b} [] l = lab -> {a, b}]
MCFolded    == [l \in Lists |-> IF l = upperA THEN la ELSE l]

(* No name of an ordinary user, a site or a handler is told apart; the      *)
(* properties are invariants and step properties.                          *)
Symmetry ==
    Permutations(Users \ Admins) \cup Permutations(Sites) \cup Permutations(Handlers)

(* Once requests have overlapped, only the owners and the creators are     *)
(* still of interest: one list serves for all, and nothing is posted.      *)
ListsInUse ==
    {rows[s].list : s \in {t \in Sites : rows[t] # None}}
        \cup {job[h].list : h \in Handlers}
Posts == messages # {} \/ \E h \in Handlers : job[h].op = "post"
Explored == overlapped => ListsInUse \subseteq {la, None} /\ ~Posts
=============================================================================
