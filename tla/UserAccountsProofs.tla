--------------------------- MODULE UserAccountsProofs ---------------------------
(* Proofs about the rows of users, for any number of users, handlers,       *)
(* names, pictures and sessions and any results of fetches.                 *)
EXTENDS UserAccounts, TLAPS

(* The invariant.  A local avatar can be loaded, or was replaced by an empty *)
(* picture; once so it stays so.  What a request knows: the row it read is  *)
(* still there and its avatar loadable, what it fetched is a picture with   *)
(* that result.                                                             *)
Loadable(u) ==
    /\ users[u] # NoRow
    /\ \/ users[u].data # "none"
       \/ users[u].source # Blank /\ "empty" \in Results[users[u].source]

Tied(u) ==
    users[u] # NoRow /\ users[u].source # Blank => users[u].data \in {users[u].source, "none"}

KnowsJob(j) ==
    /\ Fetched(j) => /\ j.profile.picture \in Pictures
                     /\ j.fetched \in Results[j.profile.picture]
    /\ j.snapshot # NoRow => users[j.user] # NoRow
    /\ HasAvatar(j.snapshot) => Loadable(j.user)

Knows(h) ==
    /\ req[h].pc \in {"load", "fetch", "write"} => KnowsJob(req[h])
    /\ req[h].pc = "load" => req[h].fetched = NotFetched
    /\ req[h].pc = "fetch" => req[h].profile.picture \in Pictures
    /\ req[h].pc = "reply" /\ req[h].path = "local" => Loadable(req[h].user)

IInv ==
    /\ TypeOK
    /\ \A u \in Users : Tied(u)
    /\ \A h \in Handlers : Knows(h)

States == {Idle} \cup Job \cup Reply

LEMMA Places ==
    /\ Idle.pc = "idle" /\ Idle \in States
    /\ \A r \in States : /\ r.pc \in {"load", "fetch", "write"} => r \in Job
                         /\ r.pc = "reply" => r \in Reply
BY DEF States, Idle, Job, Reply

LEMMA InvInit == Init => IInv
<1> SUFFICES ASSUME Init PROVE IInv
  OBVIOUS
<1>1. \A n \in Names : Legacy(n) \in Row /\ Legacy(n).source = Blank
  BY DEF Legacy, Row, Data
<1>2. users \in [Users -> Row \cup {NoRow}] /\ \A u \in Users : Tied(u)
  BY <1>1 DEF Init, Tied
<1>3. \A h \in Handlers : req[h] = Idle /\ req[h].pc = "idle"
  BY Places DEF Init
<1>4. TypeOK
  BY <1>2, AccountsAssumption DEF Init, TypeOK
<1> QED
  BY <1>2, <1>3, <1>4 DEF IInv, Knows

------------------------------------------------------------------------------
(* What a step may do to the table, and to a request.                       *)
RowsGoOn ==
    /\ users' \in [Users -> Row \cup {NoRow}]
    /\ \A u \in Users : /\ users[u] # NoRow => users'[u] # NoRow
                        /\ Loadable(u) => Loadable(u)'
                        /\ Tied(u)'

OnlyMoves(h) == req' \in [Handlers -> States] /\ \A k \in Handlers \ {h} : req'[k] = req[k]

LEMMA Frame ==
    ASSUME IInv, RowsGoOn, NEW h \in Handlers, OnlyMoves(h), Knows(h)', UNCHANGED <<claims, logins>>
    PROVE  IInv'
<1>1. TypeOK'
  BY DEF IInv, TypeOK, RowsGoOn, OnlyMoves, States
<1>2. ASSUME NEW k \in Handlers \ {h} PROVE Knows(k)'
  <2>1. req'[k] = req[k] /\ req[k] \in States /\ Knows(k)
    BY DEF OnlyMoves, IInv, TypeOK, States
  <2>2. req[k].pc \in {"load", "fetch", "write"} => KnowsJob(req[k])'
    <3>1. req[k].pc \in {"load", "fetch", "write"} => req[k].user \in Users
      BY <2>1, Places DEF Job
    <3> QED
      BY <2>1, <3>1 DEF Knows, KnowsJob, RowsGoOn, Fetched, HasAvatar
  <2>3. req[k].pc = "reply" => req[k].user \in Users
    BY <2>1, Places DEF Reply
  <2> QED
    BY <2>1, <2>2, <2>3 DEF Knows, RowsGoOn
<1> QED
  BY <1>1, <1>2 DEF IInv, RowsGoOn

LEMMA SameRows == ASSUME IInv, UNCHANGED users PROVE RowsGoOn
BY DEF IInv, TypeOK, RowsGoOn, Loadable, Tied

(* A reply is right if the avatar it names can be loaded after the step.    *)
LEMMA Replied ==
    ASSUME IInv, RowsGoOn, NEW h \in Handlers, NEW j \in Job, NEW path \in {"local", "remote"},
           NEW ok \in BOOLEAN, Replies(h, j, path, ok), UNCHANGED <<claims, logins>>,
           path = "local" => Loadable(j.user)'
    PROVE  IInv'
<1> DEFINE r == [pc |-> "reply", user |-> j.user, profile |-> j.profile, path |-> path, ok |-> ok]
<1>1. r \in Reply /\ req' = [req EXCEPT ![h] = r]
  BY DEF Job, Reply, Replies
<1>2. r.pc = "reply" /\ r.path = path /\ r.user = j.user
  OBVIOUS
<1> HIDE DEF r
<1>3. OnlyMoves(h) /\ req'[h] = r
  BY <1>1 DEF OnlyMoves, IInv, TypeOK, States
<1>4. Knows(h)'
  BY <1>2, <1>3 DEF Knows
<1> QED
  BY <1>3, <1>4, Frame

LEMMA PathType == \A j : PathOf(j) \in {"local", "remote"} /\ (j.fetched # "error") \in BOOLEAN
BY DEF PathOf

(* Before the write.                                                        *)
LEMMA GoneOn ==
    ASSUME IInv, UNCHANGED <<users, claims, logins>>, NEW h \in Handlers, NEW j \in Job,
           KnowsJob(j), GoOn(h, j)
    PROVE  IInv'
<1>1. RowsGoOn
  BY SameRows
<1>2. CASE NothingToWrite(j)
  <2>1. ~Fetched(j)
    BY <1>2 DEF NothingToWrite
  <2>2. PathOf(j) = "local" => Loadable(j.user)'
    BY <2>1 DEF PathOf, KnowsJob, Loadable
  <2>3. Replies(h, j, PathOf(j), j.fetched # "error")
    BY <1>2 DEF GoOn
  <2> QED
    BY <1>1, <2>2, <2>3, PathType, Replied
<1>3. CASE ~NothingToWrite(j)
  <2> DEFINE k == [j EXCEPT !.pc = "write"]
  <2>1. /\ k \in Job /\ k.pc = "write" /\ k.user = j.user /\ k.profile = j.profile
        /\ k.snapshot = j.snapshot /\ k.fetched = j.fetched
    BY DEF Job
  <2>2. req' = [req EXCEPT ![h] = k]
    BY <1>3 DEF GoOn
  <2> HIDE DEF k
  <2>3. OnlyMoves(h) /\ req'[h] = k
    BY <2>1, <2>2 DEF OnlyMoves, IInv, TypeOK, States
  <2>4. KnowsJob(k)'
    BY <2>1 DEF KnowsJob, Fetched, Loadable, HasAvatar
  <2>5. Knows(h)'
    BY <2>1, <2>3, <2>4 DEF Knows
  <2> QED
    BY <1>1, <2>3, <2>5, Frame
<1> QED
  BY <1>2, <1>3

------------------------------------------------------------------------------
(* The steps of a request.                                                  *)
LEMMA Working ==
    ASSUME IInv, NEW h \in Handlers, req[h].pc \in {"load", "fetch", "write"}
    PROVE  req[h] \in Job /\ KnowsJob(req[h]) /\ req[h].user \in Users
<1>1. req[h] \in States
  BY DEF IInv, TypeOK, States
<1>2. req[h] \in Job
  BY <1>1, Places
<1> QED
  BY <1>2 DEF IInv, Knows, Job

LEMMA InvArrive == ASSUME IInv, NEW h \in Handlers, Arrive(h) PROVE IInv'
<1>1. UNCHANGED <<users, claims, logins>>
  BY DEF Arrive
<1>2. PICK u \in Users : \E p \in claims[u] :
          req' = [req EXCEPT ![h] = [pc |-> "load", user |-> u, profile |-> p,
                                     snapshot |-> NoRow, fetched |-> NotFetched]]
  BY DEF Arrive
<1>3. PICK p \in claims[u] :
          req' = [req EXCEPT ![h] = [pc |-> "load", user |-> u, profile |-> p,
                                     snapshot |-> NoRow, fetched |-> NotFetched]]
  BY <1>2
<1>4. p \in Profile
  BY DEF IInv, TypeOK
<1> DEFINE j == [pc |-> "load", user |-> u, profile |-> p,
                 snapshot |-> NoRow, fetched |-> NotFetched]
<1>5. /\ j \in Job /\ j.pc = "load" /\ j.snapshot = NoRow /\ j.fetched = NotFetched
      /\ req' = [req EXCEPT ![h] = j]
  BY <1>3, <1>4 DEF Job, Fetches
<1> HIDE DEF j
<1>6. OnlyMoves(h) /\ req'[h] = j
  BY <1>5 DEF OnlyMoves, IInv, TypeOK, States
<1>7. Knows(h)'
  BY <1>5, <1>6 DEF Knows, KnowsJob, Fetched, NotFetched, HasAvatar
<1> QED
  BY <1>1, <1>6, <1>7, SameRows, Frame

LEMMA InvAnswered == ASSUME IInv, NEW h \in Handlers, Answered(h) PROVE IInv'
<1>1. OnlyMoves(h) /\ req'[h] = Idle
  BY Places DEF Answered, OnlyMoves, IInv, TypeOK, States
<1>2. Knows(h)'
  BY <1>1, Places DEF Knows
<1> QED
  BY <1>1, <1>2, SameRows, Frame DEF Answered

LEMMA InvLoad == ASSUME IInv, NEW h \in Handlers, Load(h) PROVE IInv'
<1>0. PICK j : j = [req[h] EXCEPT !.snapshot = users[req[h].user]]
  OBVIOUS
<1>1. /\ req[h].pc = "load" /\ UNCHANGED <<users, claims, logins>>
      /\ \/ ShouldFetch(j.profile, j.snapshot) /\ req' = [req EXCEPT ![h] = [j EXCEPT !.pc = "fetch"]]
         \/ GoOn(h, j)
         \/ Replies(h, j, "remote", FALSE)
  BY <1>0 DEF Load
<1>2. req[h] \in Job /\ req[h].user \in Users /\ req[h].fetched = NotFetched
  BY <1>1, Working DEF IInv, Knows
<1>3. users[req[h].user] \in Row \cup {NoRow} /\ Tied(req[h].user)
  BY <1>2 DEF IInv, TypeOK
<1>4. /\ j \in Job /\ j.user = req[h].user /\ j.profile = req[h].profile
      /\ j.snapshot = users[req[h].user] /\ j.fetched = NotFetched
  BY <1>0, <1>2, <1>3 DEF Job
<1>5. KnowsJob(j)
  BY <1>3, <1>4 DEF KnowsJob, Fetched, NotFetched, HasAvatar, Loadable
<1>6. CASE ShouldFetch(j.profile, j.snapshot) /\ req' = [req EXCEPT ![h] = [j EXCEPT !.pc = "fetch"]]
  <2>0. PICK k : k = [j EXCEPT !.pc = "fetch"]
    OBVIOUS
  <2>1. /\ k \in Job /\ k.pc = "fetch" /\ k.user = j.user /\ k.profile = j.profile
        /\ k.snapshot = j.snapshot /\ k.fetched = j.fetched
    BY <1>4, <2>0 DEF Job
  <2>2. req' = [req EXCEPT ![h] = k]
    BY <1>6, <2>0
  <2>3. OnlyMoves(h) /\ req'[h] = k
    BY <2>1, <2>2 DEF OnlyMoves, IInv, TypeOK, States
  <2>4. k.profile.picture \in Pictures
    BY <1>4, <1>6, <2>1 DEF ShouldFetch, Job, Profile
  <2>5. KnowsJob(k)'
    BY <1>1, <1>5, <2>1 DEF KnowsJob, Fetched, Loadable, HasAvatar
  <2>6. Knows(h)'
    BY <2>1, <2>3, <2>4, <2>5 DEF Knows
  <2> QED
    BY <1>1, <2>3, <2>6, SameRows, Frame
<1>7. CASE GoOn(h, j)
  BY <1>1, <1>4, <1>5, <1>7, GoneOn
<1>8. CASE Replies(h, j, "remote", FALSE)
  BY <1>1, <1>4, <1>8, SameRows, Replied
<1> QED
  BY <1>1, <1>6, <1>7, <1>8

LEMMA InvFetch == ASSUME IInv, NEW h \in Handlers, Fetch(h) PROVE IInv'
<1>1. PICK r \in Results[req[h].profile.picture] : GoOn(h, [req[h] EXCEPT !.fetched = r])
  BY DEF Fetch
<1>0. PICK j : j = [req[h] EXCEPT !.fetched = r]
  OBVIOUS
<1>2. req[h].pc = "fetch" /\ UNCHANGED <<users, claims, logins>>
  BY DEF Fetch
<1>3. req[h] \in Job /\ KnowsJob(req[h]) /\ req[h].profile.picture \in Pictures
  BY <1>2, Working DEF IInv, Knows
<1>4. r \in Fetches
  BY <1>3, AccountsAssumption DEF Fetches
<1>5. /\ j \in Job /\ j.user = req[h].user /\ j.profile = req[h].profile
      /\ j.snapshot = req[h].snapshot /\ j.fetched = r
  BY <1>0, <1>3, <1>4 DEF Job
<1>6. GoOn(h, j)
  BY <1>0, <1>1
<1>7. KnowsJob(j)
  BY <1>3, <1>5 DEF KnowsJob, Fetched
<1> QED
  BY <1>2, <1>5, <1>6, <1>7, GoneOn

------------------------------------------------------------------------------
(* The two writes.                                                          *)
LEMMA NewRowFields ==
    ASSUME NEW j \in Job, KnowsJob(j)
    PROVE  /\ NewRow(j) \in Row
           /\ NewRow(j).source = IF Fetched(j) THEN j.profile.picture ELSE Blank
           /\ NewRow(j).data = IF Fetched(j) THEN FetchedData(j) ELSE "none"
<1>1. FetchedData(j) \in Data \/ ~Fetched(j)
  BY DEF FetchedData, KnowsJob, Data
<1>2. Fetched(j) \in BOOLEAN
  BY DEF Fetched
<1>3. "none" \in Data /\ j.profile.name \in Names /\ j.profile.picture \in Pictures \cup {Blank}
  BY DEF Data, Job, Profile
<1> QED
  BY <1>1, <1>2, <1>3 DEF NewRow, Row

LEMMA UpdatedFields ==
    ASSUME NEW j \in Job, KnowsJob(j), NEW row \in Row
    PROVE  /\ Updated(j, row) \in Row
           /\ Updated(j, row).source = IF Fetched(j) THEN j.profile.picture ELSE row.source
           /\ Updated(j, row).data = IF Fetched(j) THEN FetchedData(j) ELSE row.data
<1> DEFINE name == IF NameChanges(j) THEN j.profile.name ELSE row.name
           source == IF Fetched(j) THEN j.profile.picture ELSE row.source
           data == IF Fetched(j) THEN FetchedData(j) ELSE row.data
           typed == row.typed \/ Fetched(j) \/ TypeMissing(j)
<1>1. Updated(j, row) = [row EXCEPT !.name = name, !.source = source, !.data = data, !.typed = typed]
  BY Zenon DEF Updated, WrittenSource
<1>2. typed \in BOOLEAN
  OBVIOUS
<1>3. name \in Names /\ source \in Pictures \cup {Blank}
  BY DEF Job, Profile, Row
<1>4. data \in Data
  BY DEF FetchedData, KnowsJob, Data, Row
<1> HIDE DEF name, source, data, typed
<1>5. /\ Updated(j, row) \in Row
      /\ Updated(j, row).source = source
      /\ Updated(j, row).data = data
  BY <1>1, <1>2, <1>3, <1>4 DEF Row
<1> QED
  BY <1>5 DEF source, data

(* What a request stores is tied to its URL, and loadable or empty.         *)
LEMMA WrittenRow ==
    ASSUME NEW j \in Job, KnowsJob(j), Fetched(j)
    PROVE  /\ FetchedData(j) \in {j.profile.picture, "none"}
           /\ FetchedData(j) = "none" => "empty" \in Results[j.profile.picture]
           /\ j.fetched = "image" => FetchedData(j) # "none"
           /\ j.profile.picture # Blank
BY AccountsAssumption DEF FetchedData, KnowsJob, Fetched

LEMMA InvCreate == ASSUME IInv, NEW h \in Handlers, Create(h) PROVE IInv'
<1>0. PICK j : j = req[h]
  OBVIOUS
<1>1. /\ UNCHANGED <<claims, logins>> /\ j.snapshot = NoRow
      /\ \/ /\ users[j.user] = NoRow
            /\ users' = [users EXCEPT ![j.user] = NewRow(j)]
            /\ Replies(h, j, PathOf(j), j.fetched # "error")
         \/ Replies(h, j, "remote", FALSE) /\ UNCHANGED users
  BY <1>0 DEF Create, KeyAllows
<1>2. j \in Job /\ KnowsJob(j) /\ j.user \in Users
  BY <1>0, Working DEF Create
<1>3. CASE Replies(h, j, "remote", FALSE) /\ UNCHANGED users
  BY <1>1, <1>2, <1>3, SameRows, Replied
<1>4. CASE /\ users[j.user] = NoRow
           /\ users' = [users EXCEPT ![j.user] = NewRow(j)]
           /\ Replies(h, j, PathOf(j), j.fetched # "error")
  <2>1. NewRow(j) \in Row /\ NewRow(j) # NoRow
    BY <1>2, NewRowFields, AccountsAssumption
  <2>2. /\ users' \in [Users -> Row \cup {NoRow}]
        /\ users'[j.user] = NewRow(j)
        /\ \A u \in Users \ {j.user} : users'[u] = users[u]
    BY <1>2, <1>4, <2>1 DEF IInv, TypeOK
  <2>3. Tied(j.user)'
    BY <1>2, <2>2, NewRowFields, WrittenRow DEF Tied
  <2>4. RowsGoOn
    BY <1>4, <2>1, <2>2, <2>3 DEF RowsGoOn, Loadable, Tied, IInv
  <2>5. PathOf(j) = "local" => Loadable(j.user)'
    <3>1. PathOf(j) = "local" => j.fetched = "image" /\ Fetched(j)
      BY <1>1 DEF PathOf, Fetched, HasAvatar
    <3> QED
      BY <1>2, <2>1, <2>2, <3>1, NewRowFields, WrittenRow DEF Loadable
  <2> QED
    BY <1>1, <1>2, <1>4, <2>4, <2>5, PathType, Replied
<1> QED
  BY <1>1, <1>3, <1>4

LEMMA InvUpdate == ASSUME IInv, NEW h \in Handlers, Update(h) PROVE IInv'
<1>0. PICK j : j = req[h]
  OBVIOUS
<1>1. /\ UNCHANGED <<claims, logins>> /\ j.snapshot # NoRow
      /\ \/ /\ users' = [users EXCEPT ![j.user] = Updated(j, @)]
            /\ Replies(h, j, PathOf(j), j.fetched # "error")
         \/ Replies(h, j, "remote", FALSE) /\ UNCHANGED users
  BY <1>0 DEF Update
<1>2. j \in Job /\ KnowsJob(j) /\ j.user \in Users
  BY <1>0, Working DEF Update
<1>3. CASE Replies(h, j, "remote", FALSE) /\ UNCHANGED users
  BY <1>1, <1>2, <1>3, SameRows, Replied
<1>4. CASE /\ users' = [users EXCEPT ![j.user] = Updated(j, @)]
           /\ Replies(h, j, PathOf(j), j.fetched # "error")
  <2>1. PICK row : row = users[j.user]
    OBVIOUS
  <2>2. row \in Row
    BY <1>1, <1>2, <2>1 DEF KnowsJob, IInv, TypeOK
  <2>3. Updated(j, row) \in Row /\ Updated(j, row) # NoRow
    BY <1>2, <2>2, UpdatedFields, AccountsAssumption
  <2>4. /\ users' \in [Users -> Row \cup {NoRow}]
        /\ users'[j.user] = Updated(j, row)
        /\ \A u \in Users \ {j.user} : users'[u] = users[u]
    BY <1>2, <1>4, <2>1, <2>3 DEF IInv, TypeOK
  <2>5. Tied(j.user)'
    <3>1. CASE Fetched(j)
      <4>1. users'[j.user].source = j.profile.picture /\ users'[j.user].data = FetchedData(j)
        BY <1>2, <2>2, <2>4, <3>1, UpdatedFields
      <4> QED
        BY <1>2, <3>1, <4>1, WrittenRow DEF Tied
    <3>2. CASE ~Fetched(j)
      <4>1. users'[j.user].source = row.source /\ users'[j.user].data = row.data
        BY <1>2, <2>2, <2>4, <3>2, UpdatedFields
      <4>2. Tied(j.user) /\ users[j.user] # NoRow
        BY <1>2, <2>1, <2>2, AccountsAssumption DEF IInv
      <4> QED
        BY <2>1, <4>1, <4>2 DEF Tied
    <3> QED
      BY <3>1, <3>2
  <2>6. Fetched(j) => Loadable(j.user)'
    BY <1>2, <2>2, <2>3, <2>4, UpdatedFields, WrittenRow DEF Loadable
  <2>7. ~Fetched(j) /\ Loadable(j.user) => Loadable(j.user)'
    BY <1>2, <2>1, <2>2, <2>3, <2>4, UpdatedFields DEF Loadable
  <2>8. RowsGoOn
    BY <2>3, <2>4, <2>5, <2>6, <2>7 DEF RowsGoOn, Loadable, Tied, IInv
  <2>9. PathOf(j) = "local" => Loadable(j.user)'
    BY <1>2, <2>6, <2>7 DEF PathOf, KnowsJob
  <2> QED
    BY <1>1, <1>2, <1>4, <2>8, <2>9, PathType, Replied
<1> QED
  BY <1>1, <1>3, <1>4

LEMMA InvNext == IInv /\ [Next]_vars => IInv'
<1> SUFFICES ASSUME IInv, [Next]_vars PROVE IInv'
  OBVIOUS
<1>1. ASSUME NEW u \in Users, NEW p \in Profile, LogIn(u, p) \/ SessionEnds(u, p) PROVE IInv'
  <2>1. UNCHANGED <<users, req>>
    BY <1>1 DEF LogIn, SessionEnds
  <2>2. claims' \in [Users -> SUBSET Profile]
    BY <1>1 DEF LogIn, SessionEnds, IInv, TypeOK
  <2>3. logins' \in 0..MaxLogins
    BY <1>1, AccountsAssumption DEF LogIn, SessionEnds, IInv, TypeOK
  <2> QED
    BY <2>1, <2>2, <2>3 DEF IInv, TypeOK, Tied, Knows, KnowsJob, Loadable
<1>2. ASSUME NEW h \in Handlers, Arrive(h) \/ Step(h) PROVE IInv'
  BY <1>2, InvArrive, InvLoad, InvFetch, InvCreate, InvUpdate, InvAnswered DEF Step
<1>3. CASE UNCHANGED vars
  BY <1>3 DEF vars, IInv, TypeOK, Tied, Knows, KnowsJob, Loadable
<1> QED
  BY <1>1, <1>2, <1>3 DEF Next

(* However many requests of a user interleave, with whatever profiles and   *)
(* failures, the stored avatar is the one its stored URL names, and a reply *)
(* that names the local avatar is true.                                     *)
THEOREM AvatarStaysTruthful == Spec => [](TypeOK /\ AvatarTruthful)
<1>1. IInv => TypeOK /\ AvatarTruthful
  BY DEF IInv, Tied, Knows, Loadable, AvatarTruthful, UserAvatar, HasAvatar, TypeOK, States, Reply
<1> QED
  BY InvInit, InvNext, <1>1, PTL DEF Spec

------------------------------------------------------------------------------
(* Only an UPDATE changes a row with an avatar, and it keeps the avatar or  *)
(* puts another picture in its place that it fetched.                       *)
LEMMA StepKeeps ==
    ASSUME IInv, [Next]_vars, NEW u \in Users, UserAvatar(u), users'[u] # users[u]
    PROVE  KeepsAvatar(u)
<1>1. users[u] # NoRow
  BY DEF UserAvatar, HasAvatar
<1>2. PICK h \in Handlers : Create(h) \/ Update(h)
  BY DEF Next, Step, LogIn, SessionEnds, Arrive, Load, Fetch, Answered, vars
<1>3. req[h].pc = "write" /\ req[h] \in Job /\ KnowsJob(req[h]) /\ req[h].user \in Users
  BY <1>2, Working DEF Create, Update
<1>4. CASE Create(h)
  <2>1. users[req[h].user] = NoRow /\ users' = [users EXCEPT ![req[h].user] = NewRow(req[h])]
    BY <1>4 DEF Create, KeyAllows
  <2> QED
    BY <1>1, <1>3, <2>1 DEF IInv, TypeOK
<1>5. CASE Update(h)
  <2>1. users' = [users EXCEPT ![req[h].user] = Updated(req[h], @)]
    BY <1>5 DEF Update
  <2>2. u = req[h].user /\ users'[u] = Updated(req[h], users[u])
    BY <1>3, <2>1 DEF IInv, TypeOK
  <2>3. users[u] \in Row
    BY <1>1 DEF IInv, TypeOK
  <2>4. CASE Fetched(req[h])
    BY <1>3, <2>2, <2>3, <2>4, UpdatedFields DEF KeepsAvatar
  <2>5. CASE ~Fetched(req[h])
    <3>1. users'[u] \in Row /\ users'[u].data = users[u].data
      BY <1>3, <2>2, <2>3, <2>5, UpdatedFields
    <3> QED
      BY <3>1, AccountsAssumption DEF KeepsAvatar
  <2> QED
    BY <2>4, <2>5
<1> QED
  BY <1>2, <1>4, <1>5

(* No interleaving and no failure takes a stored avatar away, other than    *)
(* for a picture that was fetched.                                          *)
THEOREM AvatarIsKept == Spec => AvatarKept
<1>1. IInv /\ [Next]_vars =>
          [\A u \in Users : UserAvatar(u) /\ users'[u] # users[u] => KeepsAvatar(u)]_vars
  BY StepKeeps
<1> QED
  BY InvInit, InvNext, <1>1, PTL DEF Spec, AvatarKept

------------------------------------------------------------------------------
(* Once a user is settled, he stays settled: with one profile left in his   *)
(* sessions and in the requests under way, and a row that matches it and    *)
(* lacks no content type, no request fetches or writes any more.  So of     *)
(* ProfileSettles only that the row gets there needs fairness.              *)
Settled(u, p) ==
    /\ Matches(u, p)
    /\ HasAvatar(users[u]) => users[u].typed
    /\ Quiet(u)
    /\ claims[u] \subseteq {p}
    /\ \A h \in Handlers : req[h].pc # "idle" /\ req[h].user = u => req[h].profile = p

(* A request that reads a matching row has nothing to do.                   *)
LEMMA NothingToDo ==
    ASSUME NEW u \in Users, NEW p \in Profile, Settled(u, p), users[u] \in Row,
           NEW j \in Job, j.profile = p, j.snapshot = users[u], j.fetched = NotFetched
    PROVE  ~ShouldFetch(j.profile, j.snapshot) /\ NothingToWrite(j)
<1>1. users[u] # NoRow /\ users[u].name = p.name /\ (p.picture # Blank => users[u].source = p.picture)
  BY DEF Settled, Matches
<1>2. ~Fetched(j)
  BY DEF Fetched, NotFetched
<1> QED
  BY <1>1, <1>2 DEF Settled, ShouldFetch, SourceOf, NothingToWrite, NameChanges, TypeMissing

(* The steps of a request touch no other, and not whose request it is.      *)
LEMMA OwnRequest ==
    ASSUME IInv, NEW h \in Handlers, NEW j \in Job, j.user = req[h].user,
           GoOn(h, j) \/ \E path, ok : Replies(h, j, path, ok)
    PROVE  req'[h].user = req[h].user /\ \A k \in Handlers \ {h} : req'[k] = req[k]
<1>1. ASSUME NEW r, req' = [req EXCEPT ![h] = r], r.user = j.user
      PROVE  req'[h].user = req[h].user /\ \A k \in Handlers \ {h} : req'[k] = req[k]
  BY <1>1 DEF IInv, TypeOK
<1>2. ASSUME NEW path, NEW ok, Replies(h, j, path, ok)
      PROVE  req'[h].user = req[h].user /\ \A k \in Handlers \ {h} : req'[k] = req[k]
  <2> DEFINE r == [pc |-> "reply", user |-> j.user, profile |-> j.profile, path |-> path, ok |-> ok]
  <2>1. req' = [req EXCEPT ![h] = r] /\ r.user = j.user
    BY <1>2 DEF Replies
  <2> HIDE DEF r
  <2> QED
    BY <1>1, <2>1
<1>3. CASE GoOn(h, j) /\ ~NothingToWrite(j)
  <2> DEFINE r == [j EXCEPT !.pc = "write"]
  <2>1. req' = [req EXCEPT ![h] = r] /\ r.user = j.user
    BY <1>3 DEF GoOn, Job
  <2> HIDE DEF r
  <2> QED
    BY <1>1, <2>1
<1>4. CASE GoOn(h, j) /\ NothingToWrite(j)
  BY <1>2, <1>4 DEF GoOn
<1> QED
  BY <1>2, <1>3, <1>4

LEMMA SettledStep ==
    ASSUME IInv, [Next]_vars, NEW u \in Users, NEW p \in Profile,
           Settled(u, p), claims'[u] \subseteq {p}
    PROVE  Settled(u, p)' /\ users'[u] = users[u]
<1>1. users[u] \in Row /\ \A h \in Handlers : req[h] \in States
  BY DEF IInv, TypeOK, States, Settled, Matches
<1>2. ASSUME users'[u] = users[u],
             \A h \in Handlers : req'[h] = req[h] \/ req'[h] = Idle \/
                 (req'[h].user = u => req'[h].profile = p /\ req'[h].pc \notin {"fetch", "write"})
      PROVE  Settled(u, p)'
  BY <1>2, Places DEF Settled, Matches, Quiet
<1>3. ASSUME NEW v \in Users, NEW q \in Profile, LogIn(v, q) \/ SessionEnds(v, q)
      PROVE  Settled(u, p)' /\ users'[u] = users[u]
  BY <1>2, <1>3 DEF LogIn, SessionEnds
<1>4. ASSUME NEW h \in Handlers, Arrive(h) PROVE Settled(u, p)' /\ users'[u] = users[u]
  <2>1. PICK v \in Users : \E q \in claims[v] :
            req' = [req EXCEPT ![h] = [pc |-> "load", user |-> v, profile |-> q,
                                       snapshot |-> NoRow, fetched |-> NotFetched]]
    BY <1>4 DEF Arrive
  <2>2. PICK q \in claims[v] :
            req' = [req EXCEPT ![h] = [pc |-> "load", user |-> v, profile |-> q,
                                       snapshot |-> NoRow, fetched |-> NotFetched]]
    BY <2>1
  <2>3. v = u => q = p
    BY DEF Settled
  <2>4. \A k \in Handlers \ {h} : req'[k] = req[k]
    BY <2>2 DEF IInv, TypeOK
  <2>5. req'[h].user = u => req'[h].profile = p /\ req'[h].pc \notin {"fetch", "write"}
    BY <2>2, <2>3 DEF IInv, TypeOK
  <2> QED
    BY <1>2, <1>4, <2>4, <2>5 DEF Arrive
<1>5. ASSUME NEW h \in Handlers, Answered(h) PROVE Settled(u, p)' /\ users'[u] = users[u]
  BY <1>2, <1>5 DEF Answered, IInv, TypeOK
<1>6. ASSUME NEW h \in Handlers, Load(h) PROVE Settled(u, p)' /\ users'[u] = users[u]
  <2>1. req[h] \in Job /\ req[h].pc = "load" /\ req[h].fetched = NotFetched /\ req[h].user \in Users
    BY <1>6, Working DEF Load, IInv, Knows
  <2>2. users' = users /\ users[req[h].user] \in Row \cup {NoRow}
    BY <1>6, <2>1 DEF Load, IInv, TypeOK
  <2>3. PICK j : j = [req[h] EXCEPT !.snapshot = users[req[h].user]]
    OBVIOUS
  <2>4. /\ j \in Job /\ j.user = req[h].user /\ j.profile = req[h].profile
        /\ j.snapshot = users[req[h].user] /\ j.fetched = NotFetched
    BY <2>1, <2>2, <2>3 DEF Job
  <2>5. \/ ShouldFetch(j.profile, j.snapshot) /\ req' = [req EXCEPT ![h] = [j EXCEPT !.pc = "fetch"]]
        \/ ~ShouldFetch(j.profile, j.snapshot) /\ GoOn(h, j)
        \/ Replies(h, j, "remote", FALSE)
    BY <1>6, <2>3 DEF Load
  <2>6. \A k \in Handlers \ {h} : req'[k] = req[k]
    BY <2>5 DEF GoOn, Replies, IInv, TypeOK
  <2>7. CASE j.user # u
    <3>1. req'[h].user = j.user
      BY <2>4, <2>5 DEF GoOn, Replies, IInv, TypeOK, Job
    <3> QED
      BY <1>2, <2>2, <2>6, <2>7, <3>1
  <2>8. CASE j.user = u
    <3>1. j.profile = p
      BY <2>1, <2>4, <2>8 DEF Settled
    <3>2. ~ShouldFetch(j.profile, j.snapshot) /\ NothingToWrite(j)
      BY <1>1, <2>4, <2>8, <3>1, NothingToDo
    <3>3. \E path, ok : Replies(h, j, path, ok)
      BY <2>5, <3>2 DEF GoOn
    <3>4. req'[h].pc = "reply" /\ req'[h].profile = p
      BY <3>1, <3>3 DEF Replies, IInv, TypeOK
    <3> QED
      BY <1>2, <2>2, <2>6, <3>4
  <2> QED
    BY <2>7, <2>8
<1>7. ASSUME NEW h \in Handlers, Fetch(h) \/ Create(h) \/ Update(h)
      PROVE  Settled(u, p)' /\ users'[u] = users[u]
  <2>1. req[h].pc \in {"fetch", "write"} /\ req[h].user # u /\ req[h] \in Job
    BY <1>1, <1>7, Places DEF Fetch, Create, Update, Settled, Quiet
  <2>2. users'[u] = users[u]
    BY <1>7, <2>1 DEF Fetch, Create, Update, IInv, TypeOK
  <2>3. req'[h].user = req[h].user /\ \A k \in Handlers \ {h} : req'[k] = req[k]
    <3>1. CASE Create(h) \/ Update(h)
      <4>1. \E path, ok : Replies(h, req[h], path, ok)
        BY <3>1 DEF Create, Update
      <4> QED
        BY <2>1, <4>1, OwnRequest
    <3>2. CASE Fetch(h)
      <4>1. PICK r \in Results[req[h].profile.picture] : GoOn(h, [req[h] EXCEPT !.fetched = r])
        BY <3>2 DEF Fetch
      <4>2. PICK j : j = [req[h] EXCEPT !.fetched = r]
        OBVIOUS
      <4>3. r \in Fetches
        BY <3>2, AccountsAssumption DEF Fetch, IInv, Knows, Fetches
      <4>4. j \in Job /\ j.user = req[h].user
        BY <2>1, <4>2, <4>3 DEF Job
      <4>5. GoOn(h, j)
        BY <4>1, <4>2
      <4> QED
        BY <4>4, <4>5, OwnRequest
    <3> QED
      BY <1>7, <3>1, <3>2
  <2> QED
    BY <1>2, <2>1, <2>2, <2>3
<1>8. CASE UNCHANGED vars
  BY <1>2, <1>8 DEF vars
<1> QED
  BY <1>3, <1>4, <1>5, <1>6, <1>7, <1>8 DEF Next, Step

(* A user whose row matches the only profile of his sessions and requests   *)
(* keeps that row: no later page view of his fetches or writes anything.    *)
THEOREM SettledForGood ==
    Spec => [][\A u \in Users, p \in Profile :
                  Settled(u, p) /\ claims'[u] \subseteq {p} =>
                      Settled(u, p)' /\ users'[u] = users[u]]_vars
<1>1. IInv /\ [Next]_vars =>
          [\A u \in Users, p \in Profile :
              Settled(u, p) /\ claims'[u] \subseteq {p} =>
                  Settled(u, p)' /\ users'[u] = users[u]]_vars
  BY SettledStep
<1> QED
  BY InvInit, InvNext, <1>1, PTL DEF Spec

================================================================================
