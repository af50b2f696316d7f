-------------------------- MODULE SiteRegistryProofs --------------------------
(***************************************************************************)
(* Proofs about the site registry.  For any number of requests: types and  *)
(* the permanence of the creator.  For any number of requests again, as    *)
(* long as no two overlap: disjoint origins, no orphaned feedback, and the *)
(* implementation of the abstract list of sites.                           *)
(***************************************************************************)
EXTENDS SiteRegistry, TLAPS

(* What a request knows at each statement.                                 *)
Knows(h) ==
    LET j == job[h]
    IN  /\ pc[h] = "find" =>
              /\ j.site \in Sites /\ j.user \in Users
              /\ j.op \in {"update", "delete", "post"}
        /\ pc[h] = "check" => j.list \in Lists /\ j.op \in {"create", "update"}
        /\ pc[h] = "insert" => j.list \in Lists /\ j.op = "create"
        /\ pc[h] \in {"check", "insert"} /\ j.op = "create" =>
              j.user \in Users /\ j.owner \in Users
        /\ pc[h] = "save" => j.op = "update"
        /\ pc[h] \in {"check", "save"} /\ j.op = "update" =>
              /\ j.site \in Sites /\ j.row \in Row
              /\ maker[j.site] # None /\ j.row.creator = maker[j.site]
        /\ pc[h] \in {"delete", "add"} => j.site \in Sites
        /\ pc[h] \in Busy => j.user \in Users

IInv == TypeOK /\ CreatorPermanent /\ \A h \in Handlers : Knows(h)

-----------------------------------------------------------------------------
LEMMA NoneFacts ==
    None \notin Row /\ None \notin Sites /\ None \notin Users /\ None \notin Lists
BY NoneAssumption

LEMMA EditedRow ==
    ASSUME NEW row \in Row, NEW owner \in Users \cup {None}, NEW list \in Lists \cup {None}
    PROVE  /\ Edited(row, owner, list) \in Row
           /\ Edited(row, owner, list).creator = row.creator
           /\ Edited(row, owner, list).owner = IF owner = None THEN row.owner ELSE owner
           /\ Edited(row, owner, list).list = IF list = None THEN row.list ELSE list
BY DEF Edited, Row

(* A request that is answered knows nothing any more and disturbs nobody.  *)
LEMMA ReplyFacts ==
    ASSUME TypeOK, NEW h \in Handlers, NEW p \in Replies, Reply(h, p),
           UNCHANGED maker, \A g \in Handlers : Knows(g)
    PROVE  /\ pc' \in [Handlers -> Busy \cup Replies]
           /\ job' \in [Handlers -> Job]
           /\ \A g \in Handlers : Knows(g)'
<1>1. NoJob \in Job
  BY DEF NoJob, Job
<1>2. /\ pc' \in [Handlers -> Busy \cup Replies] /\ job' \in [Handlers -> Job]
      /\ pc'[h] = p
      /\ \A g \in Handlers \ {h} : pc'[g] = pc[g] /\ job'[g] = job[g]
  BY <1>1 DEF Reply, Goto, TypeOK
<1>3. pc'[h] \notin Busy
  BY <1>2 DEF Replies, Busy
<1>4. ASSUME NEW g \in Handlers PROVE Knows(g)'
  <2>1. CASE g = h
    BY <1>3, <2>1 DEF Knows, Busy
  <2>2. CASE g # h
    BY <1>2, <2>2 DEF Knows
  <2> QED BY <2>1, <2>2
<1> QED BY <1>2, <1>4

(* A request moves on to its next statement; the others are not disturbed. *)
LEMMA MoveFacts ==
    ASSUME TypeOK, NEW h \in Handlers, NEW p \in Busy, NEW j \in Job,
           Goto(h, p), job' = [job EXCEPT ![h] = j], UNCHANGED maker,
           \A g \in Handlers : Knows(g)
    PROVE  /\ pc' \in [Handlers -> Busy \cup Replies]
           /\ job' \in [Handlers -> Job]
           /\ pc'[h] = p /\ job'[h] = j
           /\ \A g \in Handlers \ {h} : Knows(g)'
<1>1. /\ pc' \in [Handlers -> Busy \cup Replies] /\ job' \in [Handlers -> Job]
      /\ pc'[h] = p /\ job'[h] = j
      /\ \A g \in Handlers \ {h} : pc'[g] = pc[g] /\ job'[g] = job[g]
  BY DEF Goto, TypeOK
<1> QED BY <1>1 DEF Knows

-----------------------------------------------------------------------------
LEMMA InitInv == Init => IInv
<1> SUFFICES ASSUME Init PROVE IInv
  OBVIOUS
<1>1. NoJob \in Job
  BY DEF NoJob, Job
<1>2. TypeOK
  BY <1>1 DEF Init, TypeOK, Replies
<1>3. CreatorPermanent
  BY DEF Init, CreatorPermanent
<1>4. \A h \in Handlers : Knows(h)
  BY DEF Init, Knows, Busy
<1> QED BY <1>2, <1>3, <1>4 DEF IInv

LEMMA ArriveInv == ASSUME IInv, NEW h \in Handlers, Arrive(h) PROVE IInv'
<1>1. TypeOK /\ (\A g \in Handlers : Knows(g)) /\ UNCHANGED <<rows, maker, editor, messages>>
  BY DEF IInv, Arrive
<1>2. PICK r \in Requests : /\ job' = [job EXCEPT ![h] = r]
                            /\ Goto(h, IF r.op = "create" THEN "check" ELSE "find")
  BY DEF Arrive
<1>3. r \in Job
  BY DEF Requests, Job, Ops
<1>4. PICK p \in {"check", "find"} : Goto(h, p) /\ (p = "check" <=> r.op = "create")
  BY <1>2
<1>5. /\ pc' \in [Handlers -> Busy \cup Replies] /\ job' \in [Handlers -> Job]
      /\ pc'[h] = p /\ job'[h] = r
      /\ \A g \in Handlers \ {h} : Knows(g)'
  BY <1>1, <1>2, <1>3, <1>4, MoveFacts DEF Busy
<1>6. Knows(h)'
  <2>1. CASE r.op = "create"
    BY <1>4, <1>5, <2>1 DEF Knows, Requests, Busy
  <2>2. CASE r.op # "create"
    BY <1>4, <1>5, <2>2 DEF Knows, Requests, Busy
  <2> QED BY <2>1, <2>2
<1>7. TypeOK' /\ CreatorPermanent'
  <2>1. overlapped' \in BOOLEAN
    BY DEF Arrive
  <2> QED BY <1>1, <1>5, <2>1 DEF TypeOK, IInv, CreatorPermanent
<1> QED BY <1>5, <1>6, <1>7 DEF IInv

LEMMA FindInv ==
    ASSUME IInv, NEW h \in Handlers, Find(h), UNCHANGED overlapped
    PROVE  IInv'
<1> DEFINE j == job[h]
           row == rows[j.site]
<1>1. TypeOK /\ (\A g \in Handlers : Knows(g)) /\ UNCHANGED <<rows, maker, editor, messages>>
  BY DEF IInv, Find
<1>2. pc[h] = "find" /\ j \in Job /\ j.site \in Sites /\ row \in Row \cup {None}
  BY <1>1 DEF Find, Knows, TypeOK
<1>3. TypeOK' <=> pc' \in [Handlers -> Busy \cup Replies] /\ job' \in [Handlers -> Job]
  BY <1>1 DEF TypeOK
<1>4. CreatorPermanent'
  BY <1>1 DEF IInv, CreatorPermanent
<1>5. CASE \E p \in Replies : Reply(h, p)
  BY <1>1, <1>3, <1>4, <1>5, ReplyFacts DEF IInv
<1>6. CASE \E p \in {"add", "delete"} : Goto(h, p) /\ UNCHANGED job
  <2>1. PICK p \in {"add", "delete"} : Goto(h, p) /\ UNCHANGED job
    BY <1>6
  <2>2. p \in Busy /\ job' = [job EXCEPT ![h] = j]
    BY <1>1, <2>1 DEF Busy, TypeOK
  <2>3. /\ pc' \in [Handlers -> Busy \cup Replies] /\ job' \in [Handlers -> Job]
        /\ pc'[h] = p /\ job'[h] = j
        /\ \A g \in Handlers \ {h} : Knows(g)'
    BY <1>1, <1>2, <2>1, <2>2, MoveFacts
  <2>4. Knows(h)'
    BY <1>1, <1>2, <2>1, <2>3 DEF Knows, Busy
  <2> QED BY <1>3, <1>4, <2>3, <2>4 DEF IInv
<1>7. CASE /\ row # None /\ j.op = "update"
           /\ job' = [job EXCEPT ![h].row = Edited(row, j.owner, j.list)]
           /\ Goto(h, IF ChecksOrigins(row, j.list) THEN "check" ELSE "save")
  <2> DEFINE k == [j EXCEPT !.row = Edited(row, j.owner, j.list)]
             p == IF ChecksOrigins(row, j.list) THEN "check" ELSE "save"
  <2>1. /\ row \in Row /\ j.owner \in Users \cup {None} /\ j.list \in Lists \cup {None}
        /\ row.creator = maker[j.site] /\ maker[j.site] # None
    BY <1>1, <1>2, <1>7, NoneFacts DEF Job, IInv, CreatorPermanent, Row
  <2>2. /\ Edited(row, j.owner, j.list) \in Row
        /\ Edited(row, j.owner, j.list).creator = maker[j.site]
    BY <2>1, EditedRow
  <2>3. k \in Job /\ k.op = j.op /\ k.site = j.site /\ k.user = j.user /\ k.list = j.list
        /\ k.row = Edited(row, j.owner, j.list)
    BY <1>2, <2>2 DEF Job
  <2>4. p \in Busy /\ job' = [job EXCEPT ![h] = k] /\ Goto(h, p)
    BY <1>1, <1>7 DEF Busy, TypeOK
  <2>5. p = "check" => j.list \in Lists
    BY <2>1 DEF ChecksOrigins
  <2>6. p \in {"check", "save"}
    OBVIOUS
  <2> HIDE DEF k, p
  <2>7. /\ pc' \in [Handlers -> Busy \cup Replies] /\ job' \in [Handlers -> Job]
        /\ pc'[h] = p /\ job'[h] = k
        /\ \A g \in Handlers \ {h} : Knows(g)'
    BY <1>1, <2>3, <2>4, MoveFacts
  <2>8. Knows(h)'
    BY <1>1, <1>2, <1>7, <2>1, <2>2, <2>3, <2>5, <2>6, <2>7 DEF Knows, Busy
  <2> QED BY <1>3, <1>4, <2>7, <2>8 DEF IInv
<1> QED BY <1>5, <1>6, <1>7 DEF Find, Replies

LEMMA CheckInv ==
    ASSUME IInv, NEW h \in Handlers, Check(h), UNCHANGED overlapped
    PROVE  IInv'
<1> DEFINE j == job[h]
<1>1. TypeOK /\ (\A g \in Handlers : Knows(g)) /\ UNCHANGED <<rows, maker, editor, messages>>
  BY DEF IInv, Check
<1>2. pc[h] = "check" /\ j \in Job /\ j.list \in Lists /\ j.op \in {"create", "update"}
  BY <1>1 DEF Check, Knows, TypeOK
<1>3. TypeOK' <=> pc' \in [Handlers -> Busy \cup Replies] /\ job' \in [Handlers -> Job]
  BY <1>1 DEF TypeOK
<1>4. CreatorPermanent'
  BY <1>1 DEF IInv, CreatorPermanent
<1>5. CASE \E p \in Replies : Reply(h, p)
  BY <1>1, <1>3, <1>4, <1>5, ReplyFacts DEF IInv
<1>6. CASE /\ Goto(h, IF j.op = "create" THEN "insert" ELSE "save")
           /\ UNCHANGED job
  <2>1. PICK p \in {"insert", "save"} : Goto(h, p) /\ (p = "insert" <=> j.op = "create")
    BY <1>6
  <2>2. p \in Busy /\ job' = [job EXCEPT ![h] = j]
    BY <1>1, <1>6, <2>1 DEF Busy, TypeOK
  <2>3. /\ pc' \in [Handlers -> Busy \cup Replies] /\ job' \in [Handlers -> Job]
        /\ pc'[h] = p /\ job'[h] = j
        /\ \A g \in Handlers \ {h} : Knows(g)'
    BY <1>1, <1>2, <2>1, <2>2, MoveFacts
  <2>4. Knows(h)'
    BY <1>1, <1>2, <2>1, <2>3 DEF Knows, Busy
  <2> QED BY <1>3, <1>4, <2>3, <2>4 DEF IInv
<1> QED BY <1>5, <1>6 DEF Check, Replies

LEMMA InsertInv ==
    ASSUME IInv, NEW h \in Handlers, Insert(h), UNCHANGED overlapped
    PROVE  IInv'
<1> DEFINE j == job[h]
<1>1. TypeOK /\ (\A g \in Handlers : Knows(g)) /\ UNCHANGED messages
  BY DEF IInv, Insert
<1>2. /\ pc[h] = "insert" /\ j \in Job
      /\ j.user \in Users /\ j.owner \in Users /\ j.list \in Lists
  BY <1>1 DEF Insert, Knows, TypeOK
<1>3. CASE Reply(h, "error") /\ UNCHANGED <<rows, maker, editor>>
  <2>1. /\ pc' \in [Handlers -> Busy \cup Replies] /\ job' \in [Handlers -> Job]
        /\ \A g \in Handlers : Knows(g)'
    BY <1>1, <1>3, ReplyFacts DEF Replies
  <2> QED BY <1>1, <1>3, <2>1 DEF IInv, TypeOK, CreatorPermanent
<1>4. CASE \E s \in Sites :
              /\ maker[s] = None
              /\ maker' = [maker EXCEPT ![s] = j.user]
              /\ editor' = j.user
              /\ rows' = [rows EXCEPT ![s] = [owner |-> j.owner, creator |-> j.user,
                                              list |-> j.list]]
              /\ Reply(h, "ok")
  <2>1. PICK s \in Sites :
              /\ maker[s] = None
              /\ maker' = [maker EXCEPT ![s] = j.user]
              /\ editor' = j.user
              /\ rows' = [rows EXCEPT ![s] = [owner |-> j.owner, creator |-> j.user,
                                              list |-> j.list]]
              /\ Reply(h, "ok")
    BY <1>4
  <2>2. /\ rows' \in [Sites -> Row \cup {None}] /\ maker' \in [Sites -> Users \cup {None}]
        /\ editor' \in Users \cup {None}
    BY <1>1, <1>2, <2>1 DEF TypeOK, Row
  <2>3. NoJob \in Job
    BY DEF NoJob, Job
  <2>4. /\ pc' \in [Handlers -> Busy \cup Replies] /\ job' \in [Handlers -> Job]
        /\ pc'[h] = "ok"
        /\ \A g \in Handlers \ {h} : pc'[g] = pc[g] /\ job'[g] = job[g]
    BY <1>1, <2>1, <2>3 DEF Reply, Goto, TypeOK, Replies
  <2>5. ASSUME NEW t \in Sites, maker[t] # None PROVE maker'[t] = maker[t]
    BY <1>1, <2>1, <2>5 DEF TypeOK
  <2>6. ASSUME NEW g \in Handlers PROVE Knows(g)'
    <3>1. CASE g = h
      BY <2>4, <3>1 DEF Knows, Busy
    <3>2. CASE g # h
      BY <1>1, <2>4, <2>5, <3>2 DEF Knows
    <3> QED BY <3>1, <3>2
  <2>7. CreatorPermanent'
    BY <1>1, <1>2, <2>1 DEF IInv, CreatorPermanent, TypeOK
  <2> QED BY <1>1, <2>2, <2>4, <2>6, <2>7 DEF IInv, TypeOK
<1> QED BY <1>3, <1>4 DEF Insert

LEMMA EndInv ==
    ASSUME IInv, NEW h \in Handlers, Save(h) \/ Delete(h) \/ AddMessage(h),
           UNCHANGED overlapped
    PROVE  IInv'
<1> DEFINE s == job[h].site
<1>1. TypeOK /\ (\A g \in Handlers : Knows(g)) /\ UNCHANGED maker
  BY DEF IInv, Save, Delete, AddMessage
<1>2. \E p \in Replies : Reply(h, p)
  BY DEF Save, Delete, AddMessage, Replies
<1>3. /\ pc' \in [Handlers -> Busy \cup Replies] /\ job' \in [Handlers -> Job]
      /\ \A g \in Handlers : Knows(g)'
  BY <1>1, <1>2, ReplyFacts
<1>4. /\ rows' \in [Sites -> Row \cup {None}] /\ messages' \subseteq Sites
      /\ editor' \in Users \cup {None} /\ CreatorPermanent'
  <2>1. CASE Save(h)
    <3>1. /\ s \in Sites /\ job[h].row \in Row /\ job[h].row.creator = maker[s]
          /\ job[h].user \in Users
      BY <1>1, <2>1 DEF Save, Knows, Busy
    <3>2. /\ UNCHANGED messages /\ (UNCHANGED rows \/ rows' = [rows EXCEPT ![s] = job[h].row])
          /\ editor' \in {editor, job[h].user}
      BY <2>1 DEF Save
    <3> QED BY <1>1, <3>1, <3>2 DEF IInv, CreatorPermanent, TypeOK
  <2>2. CASE Delete(h)
    <3>1. s \in Sites /\ job[h].user \in Users
      BY <1>1, <2>2 DEF Delete, Knows, Busy
    <3>2. /\ \/ UNCHANGED <<rows, messages>>
             \/ rows' = [rows EXCEPT ![s] = None] /\ messages' = messages \ {s}
          /\ editor' \in {editor, job[h].user}
      BY <2>2 DEF Delete, Removed
    <3> QED BY <1>1, <3>1, <3>2 DEF IInv, CreatorPermanent, TypeOK
  <2>3. CASE AddMessage(h)
    <3>1. s \in Sites
      BY <1>1, <2>3 DEF AddMessage, Knows
    <3>2. UNCHANGED <<rows, editor>> /\ (UNCHANGED messages \/ messages' = messages \cup {s})
      BY <2>3 DEF AddMessage
    <3> QED BY <1>1, <3>1, <3>2 DEF IInv, CreatorPermanent, TypeOK
  <2> QED BY <2>1, <2>2, <2>3
<1> QED BY <1>1, <1>3, <1>4 DEF IInv, TypeOK

LEMMA CrashInv == IInv /\ Crash /\ UNCHANGED overlapped => IInv'
<1> SUFFICES ASSUME IInv, Crash, UNCHANGED overlapped PROVE IInv'
  OBVIOUS
<1>1. NoJob \in Job
  BY DEF NoJob, Job
<1>2. TypeOK'
  BY <1>1 DEF IInv, Crash, TypeOK, Replies
<1>3. \A h \in Handlers : Knows(h)'
  BY DEF Crash, Knows, Busy
<1>4. CreatorPermanent'
  BY DEF IInv, Crash, CreatorPermanent
<1> QED BY <1>2, <1>3, <1>4 DEF IInv

LEMMA StepInv == IInv /\ [Next]_vars => IInv'
<1> SUFFICES ASSUME IInv, [Next]_vars PROVE IInv'
  OBVIOUS
<1>1. CASE Crash /\ UNCHANGED overlapped
  BY <1>1, CrashInv
<1>2. ASSUME NEW h \in Handlers, Arrive(h) \/ (Serve(h) /\ UNCHANGED overlapped) PROVE IInv'
  BY <1>2, ArriveInv, FindInv, CheckInv, InsertInv, EndInv DEF Serve
<1>3. CASE UNCHANGED vars
  BY <1>3 DEF vars, IInv, TypeOK, CreatorPermanent, Knows
<1> QED BY <1>1, <1>2, <1>3 DEF Next

LEMMA Invariance == Spec => []IInv
BY InitInv, StepInv, PTL DEF Spec

(* Rows and requests stay complete, for any number of requests, sites,     *)
(* users and lists.                                                        *)
THEOREM TypeCorrect == Spec => []TypeOK
<1>1. IInv => TypeOK
  BY DEF IInv
<1> QED BY Invariance, <1>1, PTL

(* However many requests interleave, no save and no re-insertion gives a   *)
(* site another creator.                                                   *)
THEOREM CreatorStays == Spec => []CreatorPermanent
<1>1. IInv => CreatorPermanent
  BY DEF IInv
<1> QED BY Invariance, <1>1, PTL

-----------------------------------------------------------------------------
(***************************************************************************)
(* Requests that do not overlap in time: while one is served and no other  *)
(* has arrived, what it has read is still so when it writes.               *)
(***************************************************************************)
(* No existing site but s has an origin of the list.                       *)
Unclaimed(list, s) ==
    \A t \in Sites \ {s} :
        rows[t] # None => OriginsOf[rows[t].list] \cap OriginsOf[list] = {}

(* What the request read still holds.                                      *)
Current(h) ==
    LET j   == job[h]
        row == rows[j.site]
    IN  /\ pc[h] \in {"check", "save"} /\ j.op = "update" =>
              /\ row # None /\ j.user \in Users /\ CanManageSite(j.user, row)
              /\ j.row.creator = row.creator
        /\ pc[h] = "check" /\ j.op = "update" => j.row.list = j.list
        /\ pc[h] = "save" => Unclaimed(j.row.list, j.site)
        /\ pc[h] \in {"check", "insert"} /\ j.op = "create" => j.site = None
        /\ pc[h] = "insert" => Unclaimed(j.list, None)
        /\ pc[h] = "delete" =>
              row # None /\ j.user \in Users /\ CanManageSite(j.user, row)
        /\ pc[h] = "add" => row # None

NoOrphans == \A s \in messages : rows[s] # None

SInv(h) == IInv /\ OriginsDisjoint /\ NoOrphans /\ Current(h)

(* Until two requests overlap, at most one is being served.                *)
OInv ==
    /\ IInv
    /\ ~overlapped => /\ \A g, h \in Handlers : pc[g] \in Busy /\ pc[h] \in Busy => g = h
                      /\ OriginsDisjoint /\ NoOrphans
                      /\ \A h \in Handlers : Current(h)

-----------------------------------------------------------------------------
LEMMA IdleCurrent == ASSUME NEW h, pc[h] \notin Busy PROVE Current(h)
BY DEF Current, Busy

(* A reply leaves nothing to hold.                                         *)
LEMMA ReplyCurrent ==
    ASSUME IInv, NEW h \in Handlers, NEW p \in Replies, Reply(h, p)
    PROVE  Current(h)'
<1>1. pc'[h] = p
  BY DEF IInv, TypeOK, Reply, Goto
<1>2. pc'[h] \notin Busy
  BY <1>1 DEF Replies, Busy
<1> QED BY <1>2 DEF Current, Busy

LEMMA ReadSerial ==
    ASSUME NEW h \in Handlers, SInv(h), Arrive(h) \/ Find(h) \/ Check(h)
    PROVE  UNCHANGED <<rows, maker, editor, messages>> /\ Current(h)'
<1> DEFINE j == job[h]
           row == rows[j.site]
<1>1. UNCHANGED <<rows, maker, editor, messages>>
  BY DEF Arrive, Find, Check
<1>2. TypeOK /\ Knows(h) /\ h \in Handlers /\ IInv
  BY DEF SInv, IInv
<1>3. CASE \E p \in Replies : Reply(h, p)
  BY <1>1, <1>2, <1>3, ReplyCurrent
<1>4. CASE Arrive(h)
  <2>1. PICK r \in Requests : /\ job' = [job EXCEPT ![h] = r]
                              /\ Goto(h, IF r.op = "create" THEN "check" ELSE "find")
    BY <1>4 DEF Arrive
  <2>2. job'[h] = r /\ pc'[h] = IF r.op = "create" THEN "check" ELSE "find"
    BY <1>2, <2>1 DEF TypeOK, Goto
  <2>3. r.op = "create" => r.site = None
    BY DEF Requests
  <2>4. CASE r.op = "create"
    BY <1>1, <2>2, <2>3, <2>4 DEF Current
  <2>5. CASE r.op # "create"
    BY <1>1, <2>2, <2>5 DEF Current
  <2> QED BY <1>1, <2>4, <2>5
<1>5. CASE Find(h) /\ ~\E p \in Replies : Reply(h, p)
  <2>1. pc[h] = "find" /\ row # None /\ j.site \in Sites /\ j.user \in Users /\ row \in Row
    BY <1>2, <1>5 DEF Find, Knows, Replies, TypeOK
  <2>2. CASE Goto(h, "add") /\ UNCHANGED job
    <3>1. pc'[h] = "add" /\ job'[h] = j
      BY <1>2, <2>2 DEF TypeOK, Goto
    <3> QED BY <1>1, <2>1, <3>1 DEF Current
  <2>3. CASE Goto(h, "delete") /\ UNCHANGED job /\ CanManageSite(j.user, row)
    <3>1. pc'[h] = "delete" /\ job'[h] = j
      BY <1>2, <2>3 DEF TypeOK, Goto
    <3> QED BY <1>1, <2>1, <2>3, <3>1 DEF Current, CanManageSite
  <2>4. CASE /\ j.op = "update" /\ CanManageSite(j.user, row)
             /\ job' = [job EXCEPT ![h].row = Edited(row, j.owner, j.list)]
             /\ Goto(h, IF ChecksOrigins(row, j.list) THEN "check" ELSE "save")
    <3> DEFINE edited == Edited(row, j.owner, j.list)
    <3>1. /\ j \in Job /\ j.owner \in Users \cup {None} /\ j.list \in Lists \cup {None}
          /\ pc'[h] = IF ChecksOrigins(row, j.list) THEN "check" ELSE "save"
          /\ job'[h] = [j EXCEPT !.row = edited]
      BY <1>2, <2>4 DEF TypeOK, Job, Goto
    <3>2. /\ job'[h].op = j.op /\ job'[h].user = j.user /\ job'[h].site = j.site
          /\ job'[h].list = j.list /\ job'[h].row = edited
      BY <3>1 DEF Job
    <3>3. /\ edited.creator = row.creator
          /\ edited.list = IF j.list = None THEN row.list ELSE j.list
      BY <2>1, <3>1, EditedRow
    <3>4. ~ChecksOrigins(row, j.list) => OriginsOf[edited.list] = OriginsOf[row.list]
      BY <2>1, <3>1, <3>3, ListsAssumption DEF ChecksOrigins, Row
    <3>5. Unclaimed(row.list, j.site)
      BY <2>1 DEF Unclaimed, SInv, OriginsDisjoint
    <3>6. ~ChecksOrigins(row, j.list) => Unclaimed(edited.list, j.site)
      BY <3>4, <3>5 DEF Unclaimed
    <3>7. ChecksOrigins(row, j.list) => edited.list = j.list
      BY <3>3 DEF ChecksOrigins
    <3> HIDE DEF edited
    <3>8. CanManageSite(j.user, row)' <=> CanManageSite(j.user, row)
      BY <1>1, <3>2 DEF CanManageSite
    <3>9. CASE ChecksOrigins(row, j.list)
      BY <1>1, <2>1, <2>4, <3>1, <3>2, <3>3, <3>7, <3>9 DEF Current, CanManageSite
    <3>10. CASE ~ChecksOrigins(row, j.list)
      BY <1>1, <2>1, <2>4, <3>1, <3>2, <3>3, <3>6, <3>10 DEF Current, CanManageSite, Unclaimed
    <3> QED BY <3>9, <3>10
  <2> QED BY <1>5, <2>2, <2>3, <2>4 DEF Find, Replies
<1>6. CASE Check(h) /\ ~\E p \in Replies : Reply(h, p)
  <2>1. /\ pc[h] = "check" /\ j.op \in {"create", "update"} /\ UNCHANGED job
        /\ ~AllowedOriginConflictExists(j.list, j.site)
        /\ pc'[h] = IF j.op = "create" THEN "insert" ELSE "save"
    BY <1>2, <1>6 DEF Check, Knows, Replies, TypeOK, Goto
  <2>2. Unclaimed(j.list, j.site)
    BY <2>1 DEF AllowedOriginConflictExists, Unclaimed
  <2>3. Current(h)
    BY DEF SInv
  <2>4. CASE j.op = "create"
    BY <1>1, <2>1, <2>2, <2>3, <2>4 DEF Current, Unclaimed
  <2>5. CASE j.op = "update"
    BY <1>1, <2>1, <2>2, <2>3, <2>5 DEF Current, Unclaimed, CanManageSite
  <2> QED BY <2>1, <2>4, <2>5
<1> QED BY <1>1, <1>3, <1>4, <1>5, <1>6

(* The statements that write.                                              *)
LEMMA InsertSerial ==
    ASSUME NEW h \in Handlers, SInv(h), Insert(h), ~(UNCHANGED <<rows, maker, editor>>)
    PROVE  \E s \in Sites, u \in Users, owner \in Users, list \in Lists :
              /\ maker[s] = None /\ maker' = [maker EXCEPT ![s] = u] /\ editor' = u
              /\ rows[s] = None
              /\ rows' = [rows EXCEPT ![s] = [owner |-> owner, creator |-> u, list |-> list]]
              /\ Unclaimed(list, s)
              /\ UNCHANGED messages
<1> DEFINE j == job[h]
<1>1. TypeOK /\ Knows(h) /\ CreatorPermanent /\ Current(h) /\ pc[h] = "insert"
  BY DEF SInv, IInv, Insert
<1>2. j.user \in Users /\ j.owner \in Users /\ j.list \in Lists /\ Unclaimed(j.list, None)
  BY <1>1 DEF Knows, Current
<1>3. PICK s \in Sites :
         /\ maker[s] = None /\ maker' = [maker EXCEPT ![s] = j.user] /\ editor' = j.user
         /\ rows' = [rows EXCEPT ![s] = [owner |-> j.owner, creator |-> j.user,
                                         list |-> j.list]]
  BY DEF Insert
<1>4. rows[s] = None
  BY <1>1, <1>3, NoneFacts DEF CreatorPermanent, TypeOK, Row
<1>5. Unclaimed(j.list, s)
  BY <1>2, NoneFacts DEF Unclaimed
<1> QED BY <1>2, <1>3, <1>4, <1>5 DEF Insert

LEMMA SaveSerial ==
    ASSUME NEW h \in Handlers, SInv(h), Save(h), ~(UNCHANGED <<rows, editor>>)
    PROVE  \E s \in Sites, u \in Users, row \in Row :
              /\ rows[s] # None /\ CanManageSite(u, rows[s])
              /\ row.creator = rows[s].creator
              /\ rows' = [rows EXCEPT ![s] = row] /\ editor' = u
              /\ Unclaimed(row.list, s)
              /\ UNCHANGED <<maker, messages>>
<1> DEFINE j == job[h]
<1>1. Knows(h) /\ Current(h) /\ pc[h] = "save"
  BY DEF SInv, IInv, Save
<1>2. /\ j.site \in Sites /\ j.user \in Users /\ j.row \in Row
      /\ rows[j.site] # None /\ CanManageSite(j.user, rows[j.site])
      /\ j.row.creator = rows[j.site].creator /\ Unclaimed(j.row.list, j.site)
  BY <1>1 DEF Knows, Current
<1> QED BY <1>2 DEF Save

LEMMA DeleteSerial ==
    ASSUME NEW h \in Handlers, SInv(h), Delete(h), ~(UNCHANGED <<rows, editor, messages>>)
    PROVE  \E s \in Sites, u \in Users :
              /\ rows[s] # None /\ CanManageSite(u, rows[s])
              /\ rows' = [rows EXCEPT ![s] = None] /\ editor' = u
              /\ messages' = messages \ {s}
              /\ UNCHANGED maker
<1> DEFINE j == job[h]
<1>1. Knows(h) /\ Current(h) /\ pc[h] = "delete"
  BY DEF SInv, IInv, Delete
<1>2. /\ j.site \in Sites /\ j.user \in Users
      /\ rows[j.site] # None /\ CanManageSite(j.user, rows[j.site])
  BY <1>1 DEF Knows, Current
<1> QED BY <1>2 DEF Delete, Removed

(* Every step of the handler, as far as the tables are concerned.          *)
TableStep ==
    \/ UNCHANGED <<rows, maker, editor, messages>>
    \/ \E s \in Sites : /\ rows[s] # None /\ messages' = messages \cup {s}
                        /\ UNCHANGED <<rows, maker, editor>>
    \/ \E s \in Sites, u \in Users, owner \in Users, list \in Lists :
          /\ maker[s] = None /\ maker' = [maker EXCEPT ![s] = u] /\ editor' = u
          /\ rows[s] = None
          /\ rows' = [rows EXCEPT ![s] = [owner |-> owner, creator |-> u, list |-> list]]
          /\ Unclaimed(list, s)
          /\ UNCHANGED messages
    \/ \E s \in Sites, u \in Users, row \in Row :
          /\ rows[s] # None /\ CanManageSite(u, rows[s])
          /\ row.creator = rows[s].creator
          /\ rows' = [rows EXCEPT ![s] = row] /\ editor' = u
          /\ Unclaimed(row.list, s)
          /\ UNCHANGED <<maker, messages>>
    \/ \E s \in Sites, u \in Users :
          /\ rows[s] # None /\ CanManageSite(u, rows[s])
          /\ rows' = [rows EXCEPT ![s] = None] /\ editor' = u
          /\ messages' = messages \ {s}
          /\ UNCHANGED maker

LEMMA StepSerial ==
    ASSUME NEW h \in Handlers, SInv(h), Arrive(h) \/ Serve(h)
    PROVE  TableStep /\ Current(h)'
<1>1. IInv
  BY DEF SInv
<1>2. CASE Arrive(h) \/ Find(h) \/ Check(h)
  BY <1>2, ReadSerial DEF TableStep
<1>3. CASE Insert(h) \/ Save(h) \/ Delete(h) \/ AddMessage(h)
  <2>1. \E p \in Replies : Reply(h, p)
    BY <1>3 DEF Insert, Save, Delete, AddMessage, Replies
  <2>2. Current(h)'
    BY <1>1, <2>1, ReplyCurrent
  <2>3. CASE Insert(h)
    <3>1. CASE UNCHANGED <<rows, maker, editor>>
      BY <2>2, <2>3, <3>1 DEF TableStep, Insert
    <3>2. CASE ~(UNCHANGED <<rows, maker, editor>>)
      <4>1. Insert(h) /\ SInv(h)
        BY <2>3
      <4> QED BY <2>2, <3>2, <4>1, InsertSerial DEF TableStep
    <3> QED BY <3>1, <3>2
  <2>4. CASE Save(h)
    <3>1. CASE UNCHANGED <<rows, editor>>
      BY <2>2, <2>4, <3>1 DEF TableStep, Save
    <3>2. CASE ~(UNCHANGED <<rows, editor>>)
      <4>1. Save(h) /\ SInv(h)
        BY <2>4
      <4> QED BY <2>2, <3>2, <4>1, SaveSerial DEF TableStep
    <3> QED BY <3>1, <3>2
  <2>5. CASE Delete(h)
    <3>1. CASE UNCHANGED <<rows, editor, messages>>
      BY <2>2, <2>5, <3>1 DEF TableStep, Delete
    <3>2. CASE ~(UNCHANGED <<rows, editor, messages>>)
      <4>1. Delete(h) /\ SInv(h)
        BY <2>5
      <4> QED BY <2>2, <3>2, <4>1, DeleteSerial DEF TableStep
    <3> QED BY <3>1, <3>2
  <2>6. CASE AddMessage(h)
    <3>1. job[h].site \in Sites /\ rows[job[h].site] # None
      BY <2>6 DEF SInv, IInv, AddMessage, Knows, Current
    <3>2. UNCHANGED <<rows, maker, editor>> /\ messages' \in {messages, messages \cup {job[h].site}}
      BY <2>6 DEF AddMessage
    <3> QED BY <2>2, <3>1, <3>2 DEF TableStep
  <2> QED BY <1>3, <2>2, <2>3, <2>4, <2>5, <2>6
<1> QED BY <1>2, <1>3 DEF Serve

LEMMA TablesSafe ==
    ASSUME TypeOK, OriginsDisjoint, NoOrphans, TableStep
    PROVE  OriginsDisjoint' /\ NoOrphans'
<1>1. rows \in [Sites -> Row \cup {None}] /\ messages \subseteq Sites /\ None \notin Row
  BY NoneFacts DEF TypeOK
<1>2. ASSUME NEW s \in Sites, NEW row \in Row, rows' = [rows EXCEPT ![s] = row],
             Unclaimed(row.list, s), UNCHANGED messages
      PROVE  OriginsDisjoint' /\ NoOrphans'
  <2>1. ASSUME NEW t \in Sites, t # s, rows[t] # None
        PROVE  OriginsOf[rows[t].list] \cap OriginsOf[row.list] = {}
    BY <1>2, <2>1 DEF Unclaimed
  <2>2. OriginsDisjoint'
    BY <1>1, <1>2, <2>1 DEF OriginsDisjoint
  <2>3. NoOrphans'
    BY <1>1, <1>2 DEF NoOrphans
  <2> QED BY <2>2, <2>3
<1>3. CASE UNCHANGED <<rows, maker, editor, messages>>
  BY <1>3 DEF OriginsDisjoint, NoOrphans
<1>4. ASSUME NEW s \in Sites, rows[s] # None, messages' = messages \cup {s}, UNCHANGED rows
      PROVE  OriginsDisjoint' /\ NoOrphans'
  BY <1>4 DEF OriginsDisjoint, NoOrphans
<1>5. ASSUME NEW s \in Sites, rows' = [rows EXCEPT ![s] = None], messages' = messages \ {s}
      PROVE  OriginsDisjoint' /\ NoOrphans'
  BY <1>1, <1>5 DEF OriginsDisjoint, NoOrphans
<1>6. ASSUME NEW s \in Sites, NEW u \in Users, NEW owner \in Users, NEW list \in Lists,
             rows' = [rows EXCEPT ![s] = [owner |-> owner, creator |-> u, list |-> list]],
             Unclaimed(list, s), UNCHANGED messages
      PROVE  OriginsDisjoint' /\ NoOrphans'
  <2> DEFINE row == [owner |-> owner, creator |-> u, list |-> list]
  <2>1. row \in Row /\ row.list = list
    BY DEF Row
  <2> HIDE DEF row
  <2> QED BY <1>2, <1>6, <2>1 DEF row
<1> QED BY <1>2, <1>3, <1>4, <1>5, <1>6 DEF TableStep

(* Every step of the tables is a step of the abstract list, or none.       *)
LEMMA TablesRefine ==
    ASSUME TypeOK, OriginsDisjoint, TableStep
    PROVE  [Registry!Next]_(Registry!vars)
<1> DEFINE taken == {s \in Sites : maker[s] # None}
<1>1. rows \in [Sites -> Row \cup {None}] /\ maker \in [Sites -> Users \cup {None}]
      /\ None \notin Row /\ None \notin Users
  BY NoneFacts DEF TypeOK
<1>2. CASE UNCHANGED <<rows, maker, editor>>
  BY <1>2 DEF Registry!vars
<1>3. ASSUME NEW s \in Sites, NEW u \in Users, NEW owner \in Users, NEW list \in Lists,
             maker[s] = None, maker' = [maker EXCEPT ![s] = u], editor' = u,
             rows' = [rows EXCEPT ![s] = [owner |-> owner, creator |-> u, list |-> list]],
             Unclaimed(list, s)
      PROVE  Registry!Next
  <2>1. s \notin taken /\ taken' = taken \cup {s}
    BY <1>1, <1>3
  <2>2. Registry!Unclaimed(list, s)
    BY <1>3 DEF Registry!Unclaimed, Registry!Existing, Unclaimed
  <2>3. Registry!Create(u, s, owner, list)
    BY <1>3, <2>1, <2>2 DEF Registry!Create
  <2> QED BY <2>3 DEF Registry!Next
<1>4. ASSUME NEW s \in Sites, NEW u \in Users, NEW row \in Row,
             rows[s] # None, CanManageSite(u, rows[s]), row.creator = rows[s].creator,
             rows' = [rows EXCEPT ![s] = row], editor' = u, Unclaimed(row.list, s),
             UNCHANGED maker
      PROVE  Registry!Next
  <2>1. rows[s] \in Row /\ row.owner \in Users /\ row.list \in Lists
    BY <1>1, <1>4 DEF Row
  <2>2. row = [[rows[s] EXCEPT !.owner = row.owner] EXCEPT !.list = row.list]
    BY <1>4, <2>1 DEF Row
  <2>3. rows' = [rows EXCEPT ![s].owner = row.owner, ![s].list = row.list]
    BY <1>1, <1>4, <2>2
  <2>4. Registry!Unclaimed(row.list, s)
    BY <1>4 DEF Registry!Unclaimed, Registry!Existing, Unclaimed
  <2>5. Registry!Edit(u, s, row.owner, row.list)
    BY <1>4, <2>3, <2>4 DEF Registry!Edit, Registry!Existing, Registry!Manages, CanManageSite
  <2> QED BY <2>1, <2>5 DEF Registry!Next
<1>5. ASSUME NEW s \in Sites, NEW u \in Users, rows[s] # None, CanManageSite(u, rows[s]),
             rows' = [rows EXCEPT ![s] = None], editor' = u, UNCHANGED maker
      PROVE  Registry!Next
  <2>1. Registry!Delete(u, s)
    BY <1>5 DEF Registry!Delete, Registry!Existing, Registry!Manages, CanManageSite
  <2> QED BY <2>1 DEF Registry!Next
<1> QED BY <1>2, <1>3, <1>4, <1>5 DEF TableStep

-----------------------------------------------------------------------------
LEMMA OverlapInit == Init => OInv
<1> SUFFICES ASSUME Init PROVE OInv
  OBVIOUS
<1>1. OriginsDisjoint /\ NoOrphans
  BY DEF Init, OriginsDisjoint, NoOrphans
<1>2. \A h \in Handlers : pc[h] \notin Busy
  BY DEF Init, Busy
<1> QED BY <1>1, <1>2, InitInv, IdleCurrent DEF OInv

(* A step of a handler leaves the statement of every other one alone; only *)
(* an arrival starts from a handler that is not busy.                      *)
LEMMA OneMoves ==
    ASSUME TypeOK, NEW h \in Handlers, Arrive(h) \/ Serve(h)
    PROVE  /\ \A g \in Handlers \ {h} : pc'[g] = pc[g]
           /\ Serve(h) => pc[h] \in Busy
<1>1. \E p : Goto(h, p)
  BY DEF Arrive, Serve, Find, Check, Insert, Save, Delete, AddMessage, Reply
<1>2. Serve(h) => pc[h] \in Busy
  BY DEF Serve, Find, Check, Insert, Save, Delete, AddMessage, Busy
<1> QED BY <1>1, <1>2 DEF Goto, TypeOK

(* Until two requests overlap, every step of the tables starts from what   *)
(* the request that takes it knows.                                        *)
LEMMA OverlapStep ==
    ASSUME OInv, [Next]_vars
    PROVE  OInv' /\ (~overlapped' => TableStep)
<1>1. IInv' /\ TypeOK
  BY StepInv DEF OInv, IInv
<1> SUFFICES ASSUME ~overlapped'
             PROVE  /\ \A g, h \in Handlers : pc'[g] \in Busy /\ pc'[h] \in Busy => g = h
                    /\ OriginsDisjoint' /\ NoOrphans'
                    /\ \A h \in Handlers : Current(h)'
                    /\ TableStep
  BY <1>1 DEF OInv
<1>2. ~overlapped
  BY DEF Next, Arrive, vars
<1>3. TypeOK /\ OriginsDisjoint /\ NoOrphans /\ \A h \in Handlers : SInv(h)
  BY <1>1, <1>2 DEF OInv, SInv
<1>4. \A h \in Handlers : pc'[h] \notin Busy => Current(h)'
  BY DEF Current, Busy
<1>5. TableStep => OriginsDisjoint' /\ NoOrphans'
  BY <1>3, TablesSafe
<1>6. CASE Crash
  <2>1. (\A h \in Handlers : pc'[h] \notin Busy) /\ TableStep
    BY <1>6 DEF Crash, TableStep, Busy
  <2> QED BY <1>4, <1>5, <2>1
<1>7. ASSUME NEW h \in Handlers, Arrive(h) \/ Serve(h), \A g \in Handlers \ {h} : pc[g] \notin Busy
      PROVE  /\ \A f, g \in Handlers : pc'[f] \in Busy /\ pc'[g] \in Busy => f = g
             /\ \A g \in Handlers : Current(g)'
             /\ TableStep
  <2>1. TableStep /\ Current(h)'
    BY <1>3, <1>7, StepSerial
  <2>2. \A g \in Handlers \ {h} : pc'[g] \notin Busy
    BY <1>1, <1>7, OneMoves
  <2> QED BY <1>4, <2>1, <2>2
<1>8. ASSUME NEW h \in Handlers, Arrive(h)
      PROVE  \A g \in Handlers \ {h} : pc[g] \notin Busy
  BY <1>8 DEF Arrive
<1>9. ASSUME NEW h \in Handlers, Serve(h)
      PROVE  \A g \in Handlers \ {h} : pc[g] \notin Busy
  BY <1>1, <1>2, <1>9, OneMoves DEF OInv
<1>10. CASE UNCHANGED vars
  BY <1>2, <1>10 DEF OInv, vars, TableStep, Current, Unclaimed, CanManageSite,
     OriginsDisjoint, NoOrphans
<1> QED BY <1>5, <1>6, <1>7, <1>8, <1>9, <1>10 DEF Next

LEMMA OverlapInvariance == Spec => []OInv
<1>1. OInv /\ [Next]_vars => OInv'
  BY OverlapStep
<1> QED BY OverlapInit, <1>1, PTL DEF Spec

(* Until two requests overlap, no two sites ever share an origin.          *)
THEOREM OriginsStayDisjoint == Spec => []SerialOriginsDisjoint
<1>1. OInv => SerialOriginsDisjoint
  BY DEF OInv, SerialOriginsDisjoint
<1> QED BY OverlapInvariance, <1>1, PTL

(* Until two requests overlap, no feedback outlives its site.              *)
THEOREM FeedbackHasSite == Spec => []NoOrphanedFeedback
<1>1. OInv => NoOrphanedFeedback
  BY DEF OInv, NoOrphanedFeedback, NoOrphans
<1> QED BY OverlapInvariance, <1>1, PTL

(* Until two requests overlap, the registry implements the abstract list   *)
(* of sites, for any number of handlers.                                   *)
THEOREM SerialImplements == Spec => ImplementsSiteList
<1> DEFINE Abstract == overlapped' \/ Registry!Next \/ UNCHANGED Registry!vars
<1>1. Init => Registry!Init
  BY DEF Init, Registry!Init
<1>2. OInv /\ [Next]_vars => Abstract
  <2> SUFFICES ASSUME OInv, [Next]_vars, ~overlapped' PROVE Registry!Next \/ UNCHANGED Registry!vars
    OBVIOUS
  <2>1. TableStep
    BY OverlapStep
  <2>2. ~overlapped
    BY DEF Next, Arrive, vars
  <2>3. TypeOK /\ OriginsDisjoint
    BY <2>2 DEF OInv, IInv
  <2> QED BY <2>1, <2>3, TablesRefine
<1>3. ImplementsSiteList <=> Registry!Init /\ [][Abstract]_vars
  BY DEF ImplementsSiteList
<1> HIDE DEF Abstract
<1> QED BY <1>1, <1>2, <1>3, OverlapInvariance, PTL DEF Spec

=============================================================================
