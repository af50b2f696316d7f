------------------------------ MODULE UserAccounts ------------------------------
(* internal/api/auth.go: every request of a logged-in user carries the      *)
(* profile of a session; ensureUser keeps the row of table users and the    *)
(* stored avatar in step with it before the handler proper runs.            *)
(*                                                                          *)
(* persistUser reads the row, fetches the picture if the profile names      *)
(* another one, and writes the difference to the row it read.  Requests of  *)
(* one user interleave at these steps, and sessions with an older profile   *)
(* stay in use beside a new one.  Requests without a valid session do not   *)
(* reach the table and are left out.                                        *)
EXTENDS Integers

CONSTANTS
    Users,           \* addresses, in lower case
    Handlers,        \* requests under way at a time
    Names,
    Pictures,        \* URLs of pictures
    Blank,           \* the empty URL
    NoRow,           \* stands for a row that does not exist
    Results,         \* Results[u]: how fetching u may end
    MaxLogins        \* bound on the number of sessions begun

Profile == [name : Names, picture : Pictures \cup {Blank}]

(* avatar_data is told apart by the picture it was fetched from; Stored     *)
(* stands for data from before picture_source_url and avatar_content_type   *)
(* were kept.                                                               *)
Data == Pictures \cup {"none", "Stored"}
Row == [name : Names, source : Pictures \cup {Blank}, data : Data, typed : BOOLEAN]

ASSUME AccountsAssumption ==
    /\ Blank \notin Pictures
    /\ "none" \notin Pictures /\ "Stored" \notin Pictures
    /\ NoRow \notin Row
    /\ Results \in [Pictures -> SUBSET {"image", "empty", "error"}]
    /\ MaxLogins \in Nat

VARIABLES
    users,           \* table users
    claims,          \* the profiles of each user's sessions
    logins,          \* number of sessions begun
    req              \* what each handler is doing

vars == <<users, claims, logins, req>>

NotFetched == "not fetched"
Fetches == {"image", "empty", "error", NotFetched}
Idle == [pc |-> "idle"]
Job == [pc : {"load", "fetch", "write"}, user : Users, profile : Profile,
        snapshot : Row \cup {NoRow}, fetched : Fetches]
Reply == [pc : {"reply"}, user : Users, profile : Profile, path : {"local", "remote"},
          ok : BOOLEAN]

(* A table may hold a row written by an earlier version.                    *)
Legacy(n) == [name |-> n, source |-> Blank, data |-> "Stored", typed |-> FALSE]

Init ==
    /\ users \in [Users -> {NoRow} \cup {Legacy(n) : n \in Names}]
    /\ claims = [u \in Users |-> {}]
    /\ logins = 0
    /\ req = [h \in Handlers |-> Idle]

------------------------------------------------------------------------------
(* Sessions begin, with whatever the identity provider says, and end.       *)
LogIn(u, p) ==
    /\ logins < MaxLogins
    /\ logins' = logins + 1
    /\ claims' = [claims EXCEPT ![u] = @ \cup {p}]
    /\ UNCHANGED <<users, req>>

SessionEnds(u, p) ==
    /\ p \in claims[u]
    /\ claims' = [claims EXCEPT ![u] = @ \ {p}]
    /\ UNCHANGED <<users, logins, req>>

Arrive(h) ==
    /\ req[h].pc = "idle"
    /\ \E u \in Users : \E p \in claims[u] :
          req' = [req EXCEPT ![h] = [pc |-> "load", user |-> u, profile |-> p,
                                     snapshot |-> NoRow, fetched |-> NotFetched]]
    /\ UNCHANGED <<users, claims, logins>>

(* The rest of the request is out of scope: the handler is free again.      *)
Answered(h) ==
    /\ req[h].pc = "reply"
    /\ req' = [req EXCEPT ![h] = Idle]
    /\ UNCHANGED <<users, claims, logins>>

------------------------------------------------------------------------------
(* A row not found: a picture is fetched if the profile has one.  A row     *)
(* found: only if it is another than the row's.                             *)
SourceOf(row) == IF row = NoRow THEN Blank ELSE row.source
OnlyFirstPicture(profile, row) ==  \* faulty variant: a picture is never replaced
    profile.picture # Blank /\ SourceOf(row) = Blank
ShouldFetch(profile, row) == profile.picture \notin {Blank, SourceOf(row)}

HasAvatar(row) == IF row = NoRow THEN FALSE ELSE row.data # "none"

Fetched(j) == j.fetched \in {"image", "empty"}
FetchedData(j) == IF j.fetched = "image" THEN j.profile.picture ELSE "none"

(* The columns a write sets: the name if it differs from the one read, the  *)
(* three picture columns if a picture was fetched, the missing content type *)
(* of an older avatar.                                                      *)
NameChanges(j) == j.profile.name # j.snapshot.name
TypeMissing(j) == ~Fetched(j) /\ ~j.snapshot.typed /\ HasAvatar(j.snapshot)
NothingToWrite(j) ==
    IF j.snapshot = NoRow THEN FALSE
    ELSE ~NameChanges(j) /\ ~Fetched(j) /\ ~TypeMissing(j)

NewRow(j) ==
    [name |-> j.profile.name,
     source |-> IF Fetched(j) THEN j.profile.picture ELSE Blank,
     data |-> IF Fetched(j) THEN FetchedData(j) ELSE "none",
     typed |-> Fetched(j)]

FromProfile(j, row) == j.profile.picture  \* faulty variant: stored although not fetched
WrittenSource(j, row) == IF Fetched(j) THEN j.profile.picture ELSE row.source
Updated(j, row) ==
    [row EXCEPT !.name = IF NameChanges(j) THEN j.profile.name ELSE @,
                !.source = WrittenSource(j, row),
                !.data = IF Fetched(j) THEN FetchedData(j) ELSE @,
                !.typed = @ \/ Fetched(j) \/ TypeMissing(j)]

(* The path of the local avatar is handed out if the row that was written,  *)
(* or read, has one; after an error, the URL of the profile.                *)
PathOf(j) ==
    IF IF Fetched(j) THEN j.fetched = "image" ELSE HasAvatar(j.snapshot) THEN "local" ELSE "remote"

Replies(h, j, path, ok) ==
    req' = [req EXCEPT ![h] = [pc |-> "reply", user |-> j.user, profile |-> j.profile,
                               path |-> path, ok |-> ok]]

(* Before a write: nothing to write means the answer is ready.              *)
GoOn(h, j) ==
    IF NothingToWrite(j) THEN Replies(h, j, PathOf(j), j.fetched # "error")
                         ELSE req' = [req EXCEPT ![h] = [j EXCEPT !.pc = "write"]]

Load(h) ==
    /\ req[h].pc = "load"
    /\ LET j == [req[h] EXCEPT !.snapshot = users[req[h].user]]
       IN  \/ /\ ShouldFetch(j.profile, j.snapshot)
              /\ req' = [req EXCEPT ![h] = [j EXCEPT !.pc = "fetch"]]
           \/ ~ShouldFetch(j.profile, j.snapshot) /\ GoOn(h, j)
           \/ Replies(h, j, "remote", FALSE)
    /\ UNCHANGED <<users, claims, logins>>

Fetch(h) ==
    /\ req[h].pc = "fetch"
    /\ \E r \in Results[req[h].profile.picture] :
          GoOn(h, [req[h] EXCEPT !.fetched = r])
    /\ UNCHANGED <<users, claims, logins>>

(* INSERT: refused by the primary key if another request was first.         *)
NoKey(row) == TRUE  \* faulty variant: INSERT OR REPLACE
KeyAllows(row) == row = NoRow
Create(h) ==
    /\ req[h].pc = "write" /\ req[h].snapshot = NoRow
    /\ LET j == req[h]
       IN  \/ /\ KeyAllows(users[j.user])
              /\ users' = [users EXCEPT ![j.user] = NewRow(j)]
              /\ Replies(h, j, PathOf(j), j.fetched # "error")
           \/ Replies(h, j, "remote", FALSE) /\ UNCHANGED users
    /\ UNCHANGED <<claims, logins>>

(* UPDATE ... WHERE email = ?: only the columns that differ from the row    *)
(* this request read.                                                       *)
Update(h) ==
    /\ req[h].pc = "write" /\ req[h].snapshot # NoRow
    /\ LET j == req[h]
       IN  \/ /\ users' = [users EXCEPT ![j.user] = Updated(j, @)]
              /\ Replies(h, j, PathOf(j), j.fetched # "error")
           \/ Replies(h, j, "remote", FALSE) /\ UNCHANGED users
    /\ UNCHANGED <<claims, logins>>

Step(h) == Load(h) \/ Fetch(h) \/ Create(h) \/ Update(h) \/ Answered(h)

Next ==
    \/ \E u \in Users, p \in Profile : LogIn(u, p) \/ SessionEnds(u, p)
    \/ \E h \in Handlers : Arrive(h) \/ Step(h)

Spec == Init /\ [][Next]_vars

(* A request that has arrived runs to its end.  Whether requests arrive,    *)
(* and statements or fetches succeed, is left to the properties.            *)
Fairness == \A h \in Handlers : WF_vars(Step(h))
FairSpec == Spec /\ Fairness

------------------------------------------------------------------------------
TypeOK ==
    /\ users \in [Users -> Row \cup {NoRow}]
    /\ claims \in [Users -> SUBSET Profile]
    /\ logins \in 0..MaxLogins
    /\ req \in [Handlers -> {Idle} \cup Job \cup Reply]

(* What GET /api/me/avatar answers: the stored data, or 404.                *)
UserAvatar(u) == HasAvatar(users[u])

(* The stored avatar is the picture whose URL is stored with it, whichever  *)
(* requests wrote the row; and a reply that names the local avatar is true: *)
(* it can be loaded, unless a picture that has no content replaced it.      *)
AvatarTruthful ==
    /\ \A u \in Users : users[u] # NoRow /\ users[u].source # Blank =>
          users[u].data \in {users[u].source, "none"}
    /\ \A h \in Handlers : req[h].pc = "reply" /\ req[h].path = "local" =>
          LET u == req[h].user
          IN  UserAvatar(u) \/ "empty" \in Results[users[u].source]

(* A stored avatar is given up only for another picture that was fetched:   *)
(* neither a fetch that fails nor the second of two first requests of a     *)
(* user, nor a request that read the row earlier, takes it away.            *)
KeepsAvatar(u) ==
    \/ users'[u] # NoRow /\ users'[u].data = users[u].data
    \/ \E h \in Handlers :
          /\ req[h].pc = "write" /\ req[h].user = u /\ Fetched(req[h])
          /\ users'[u].source = req[h].profile.picture
AvatarKept ==
    [][\A u \in Users : UserAvatar(u) /\ users'[u] # users[u] => KeepsAvatar(u)]_vars

(* With one profile left in a user's sessions and requests that go through  *)
(* again and again, the row ends up with that profile's name and picture,   *)
(* however many requests with older profiles were under way, and the user's *)
(* requests no longer fetch pictures or write the row.                      *)
Matches(u, p) ==
    /\ users[u] # NoRow /\ users[u].name = p.name
    /\ p.picture # Blank => users[u].source = p.picture
Quiet(u) == \A h \in Handlers : req[h].pc \in {"fetch", "write"} => req[h].user # u
GoesThrough(u, p) ==
    \E h \in Handlers : /\ req[h].pc = "reply" /\ req[h].ok
                        /\ req[h].user = u /\ req[h].profile = p
ProfileSettles ==
    \A u \in Users, p \in Profile :
        (<>[](claims[u] = {p}) /\ []<>GoesThrough(u, p)) => <>[](Matches(u, p) /\ Quiet(u))

================================================================================
