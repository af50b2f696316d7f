------------------------- MODULE SubscriptionsProofs -------------------------
(***************************************************************************)
(* Proofs, for every set of handlers, sites, identifiers and addresses, of *)
(* the safety invariants of Subscriptions that hold however the statements *)
(* of concurrent requests interleave.                                      *)
(***************************************************************************)
EXTENDS Subscriptions, TLAPS

(* The local variables a handler relies on at each statement are set.      *)
JobOK ==
    \A h \in Handlers :
        /\ pc[h] \in Busy => job[h] \in Job
        /\ At(h, "find", CreateOps \cup MutateOps) => job[h].email \in RawEmails
        /\ pc[h] = "create" => job[h].email \in RawEmails
        /\ pc[h] \in {"resubscribe", "mail"} => job[h].email \in Emails
        /\ pc[h] \in {"loadSite", "resubscribe", "mail", "write", "notify"} =>
              job[h].id \in Ids

(* Identifiers of rows and of mailed tokens have been issued, so a new row *)
(* never takes over the tokens of a deleted one.                           *)
Fresh == Live \subseteq issued /\ \A t \in mailed : t.id \in issued

(* A row that a handler is about to reopen, or whose token it is about to  *)
(* mail, has been inserted and, while it exists, still has the site and    *)
(* the address the handler remembers.                                      *)
JobBoundToRow ==
    \A h \in Handlers : pc[h] \in {"resubscribe", "mail"} =>
        /\ job[h].id \in issued
        /\ job[h].id \in Live =>
              /\ subscribers[job[h].id].site = job[h].site
              /\ subscribers[job[h].id].email = job[h].email

TypeInv == TypeOK /\ JobOK

IInv == /\ TypeInv
        /\ Fresh
        /\ JobBoundToRow
        /\ UniqueSiteEmail
        /\ StampsMatchStatus
        /\ MailBoundToRow

-----------------------------------------------------------------------------
(* strings.ToLower yields an address that is its own lower case.           *)
LEMMA LowerFacts ==
    /\ \A e \in RawEmails : Lower[e] \in Emails
    /\ \A e \in Emails : e \in RawEmails /\ Lower[e] = e
BY LowerAssumption DEF Emails

(* The three column-wise updates turn a row into a row.                    *)
LEMMA UpdatesKeepRow ==
    ASSUME NEW r \in Row
    PROVE  Confirmed(r) \in Row /\ Unsubscribed(r) \in Row /\ Reopened(r) \in Row
BY DEF Row, Status, Confirmed, Unsubscribed, Reopened

(* The initial state is well typed.                                        *)
LEMMA TypeInit == Init => TypeInv
BY ParameterAssumption DEF Init, TypeInv, TypeOK, JobOK, Busy, Replies, Nothing,
   EventTypes, Outcomes, At

(* Arrival of a request keeps the types.                                   *)
LEMMA TypeArrive ==
    ASSUME TypeInv, NEW h \in Handlers, Arrive(h)
    PROVE  TypeInv'
<1> USE DEF TypeInv, TypeOK, JobOK, Busy, Replies, At, Goto, Answer, tables,
            world, Nothing, EventTypes, Outcomes
<1>1. CASE Reject(h)
  BY <1>1 DEF Reject
<1>2. CASE AcceptCreate(h)
  <2>1. PICK op \in CreateOps, s \in sites, e \in RawEmails :
            Accept(h, "find", [op |-> op, site |-> s, email |-> e,
                               id |-> None, known |-> TRUE])
    BY <1>2 DEF AcceptCreate
  <2> QED BY <2>1 DEF Accept, Job, Ops
<1>3. CASE AcceptMutation(h)
  <2>1. PICK op \in MutateOps, s \in sites, e \in RawEmails :
            Accept(h, "find", [op |-> op, site |-> s, email |-> Lower[e],
                               id |-> None, known |-> TRUE])
    BY <1>3 DEF AcceptMutation
  <2>2. Lower[e] \in RawEmails
    BY LowerAssumption
  <2> QED BY <2>1, <2>2 DEF Accept, Job, Ops
<1>4. CASE AcceptLink(h)
  <2>1. PICK op \in LinkOps, t \in mailed :
            Accept(h, "find", [op |-> op, site |-> t.site, email |-> t.email,
                               id |-> t.id, known |-> FALSE])
    BY <1>4 DEF AcceptLink
  <2>2. t.site \in Sites /\ t.email \in RawEmails /\ t.id \in Ids
    BY LowerFacts DEF Token
  <2> QED BY <2>1, <2>2 DEF Accept, Job, Ops
<1>5. CASE AcceptAdmin(h)
  <2>1. PICK s \in sites, id \in Ids, op \in AdminOps \cup {"adminDelete"},
             label \in {"find", "delete"} :
            Accept(h, label, [op |-> op, site |-> s, email |-> None,
                              id |-> id, known |-> TRUE])
    BY <1>5 DEF AcceptAdmin
  <2> QED BY <2>1 DEF Accept, Job, Ops, AdminOps, CreateOps, MutateOps, LinkOps
<1> QED BY <1>1, <1>2, <1>3, <1>4, <1>5 DEF Arrive

(* Editing one local variable of a handler leaves the others alone.        *)
LEMMA JobEdits ==
    ASSUME NEW j \in Job
    PROVE  /\ \A id \in Ids :
                 LET new == [j EXCEPT !.id = id] IN
                 new \in Job /\ new.id = id
                 /\ new.op = j.op /\ new.site = j.site /\ new.email = j.email
           /\ \A id \in Ids, e \in RawEmails :
                 LET new == [j EXCEPT !.id = id, !.email = e] IN
                 new \in Job /\ new.id = id /\ new.email = e
                 /\ new.op = j.op /\ new.site = j.site
           /\ \A k \in BOOLEAN :
                 LET new == [j EXCEPT !.known = k] IN
                 new \in Job /\ new.id = j.id /\ new.op = j.op
BY DEF Job

(* What a handler must have set before the statement `label`.              *)
ReadyFor(label, j) ==
    /\ label \in Busy => j \in Job
    /\ label = "find" /\ j.op \in CreateOps \cup MutateOps => j.email \in RawEmails
    /\ label = "create" => j.email \in RawEmails
    /\ label \in {"resubscribe", "mail"} => j.email \in Emails
    /\ label \in {"loadSite", "resubscribe", "mail", "write", "notify"} => j.id \in Ids

(* A step that moves one handler on with its local variables set, and      *)
(* leaves the rest of the state well typed, keeps the types.               *)
LEMMA TypeMove ==
    ASSUME TypeInv, NEW h \in Handlers, NEW label \in Busy \cup Replies,
           NEW j \in Job \cup {None}, Goto(h, label, j), ReadyFor(label, j),
           issued' \subseteq Ids,
           sites' \subseteq Sites, subscribers' \in [Ids -> Row \cup {None}],
           mailed' \subseteq Token, clock' \in 0..MaxClock,
           shown' \in [Handlers -> [EventTypes -> Outcomes]],
           notices' \in [Ids -> 0..2]
    PROVE  TypeInv'
<1>1. TypeOK'
  BY DEF TypeInv, TypeOK, Goto
<1>2. ASSUME NEW g \in Handlers, g # h
      PROVE  pc'[g] = pc[g] /\ job'[g] = job[g]
  BY <1>2 DEF Goto, TypeInv, TypeOK
<1>3. pc'[h] = label /\ job'[h] = j
  BY DEF Goto, TypeInv, TypeOK
<1>4. JobOK'
  BY <1>2, <1>3 DEF TypeInv, JobOK, ReadyFor, At
<1> QED BY <1>1, <1>4 DEF TypeInv

(* The first read of the table keeps the types.                            *)
LEMMA TypeFind ==
    ASSUME TypeInv, NEW h \in Handlers, Find(h)
    PROVE  TypeInv'
<1> DEFINE Moves == \E label \in Busy \cup Replies, j \in Job \cup {None} :
                       Goto(h, label, j) /\ ReadyFor(label, j)
<1> USE DEF At
<1>0. pc[h] \in Busy => job[h] \in Job
  BY DEF TypeInv, JobOK
<1>1. ASSUME NEW reply \in Replies, Answer(h, reply)
      PROVE  Moves
  BY <1>1 DEF Answer, ReadyFor, Busy, Replies
<1>2. ASSUME NEW id \in Ids, NEW next \in {"write", "loadSite"}, pc[h] \in Busy,
             Decide(h, id, next)
      PROVE  Moves
  <2>1. CASE \E reply \in Replies : Answer(h, reply)
    BY <2>1, <1>1
  <2>2. CASE Goto(h, next, [job[h] EXCEPT !.id = id])
    <3>1. [job[h] EXCEPT !.id = id] \in Job /\ [job[h] EXCEPT !.id = id].id = id
      BY <1>0, <1>2, JobEdits
    <3> QED BY <2>2, <3>1 DEF ReadyFor, Busy
  <2> QED BY <1>2, <2>1, <2>2 DEF Decide, Replies
<1>3. Moves
  <2>1. CASE FindForCreate(h)
    <3>1. CASE \E reply \in Replies : Answer(h, reply)
      BY <3>1, <1>1
    <3>2. CASE Goto(h, "create", job[h])
      <4>1. job[h] \in Job /\ job[h].email \in RawEmails
        BY <2>1, <1>0 DEF FindForCreate, TypeInv, JobOK, Busy
      <4>2. ReadyFor("create", job[h])
        BY <4>1 DEF ReadyFor
      <4> QED BY <3>2, <4>1, <4>2 DEF Busy
    <3>3. CASE \E id \in Live :
                  Goto(h, "resubscribe",
                       [job[h] EXCEPT !.id = id, !.email = subscribers[id].email])
      <4>1. PICK id \in Live :
                  Goto(h, "resubscribe",
                       [job[h] EXCEPT !.id = id, !.email = subscribers[id].email])
        BY <3>3
      <4> DEFINE j == [job[h] EXCEPT !.id = id, !.email = subscribers[id].email]
      <4>2. subscribers[id].email \in Emails /\ id \in Ids
        BY DEF TypeInv, TypeOK, Live, Row
      <4>3. j \in Job /\ j.id = id /\ j.email = subscribers[id].email
        <5>1. job[h] \in Job
          BY <2>1, <1>0 DEF FindForCreate, Busy
        <5>2. subscribers[id].email \in RawEmails
          BY <4>2, LowerFacts
        <5> QED BY <4>2, <5>1, <5>2 DEF Job
      <4>4. ReadyFor("resubscribe", j)
        BY <4>2, <4>3 DEF ReadyFor
      <4> QED BY <4>1, <4>3, <4>4 DEF Busy
    <3> QED BY <2>1, <3>1, <3>2, <3>3 DEF FindForCreate, Duplicate, ByEmail, Replies
  <2>2. CASE FindForMutation(h)
    BY <2>2, <1>1, <1>2 DEF FindForMutation, ByEmail, Live, Busy, Replies
  <2>3. CASE FindForLink(h)
    BY <2>3, <1>1, <1>2 DEF FindForLink, ById, Live, Busy, Replies
  <2>4. CASE LoadSiteForLink(h)
    <3>0. PICK found \in BOOLEAN :
             Goto(h, "write", [job[h] EXCEPT !.known = found])
      BY <2>4 DEF LoadSiteForLink
    <3> DEFINE j == [job[h] EXCEPT !.known = found]
    <3>1. job[h] \in Job /\ job[h].id \in Ids
      BY <2>4, <1>0 DEF LoadSiteForLink, TypeInv, JobOK, Busy
    <3>2. j \in Job /\ j.id = job[h].id
      BY <3>1 DEF Job
    <3>3. ReadyFor("write", j)
      BY <3>1, <3>2 DEF ReadyFor
    <3> QED BY <3>0, <3>2, <3>3 DEF Busy
  <2>5. CASE FindForAdmin(h)
    BY <2>5, <1>0, <1>1 DEF FindForAdmin, ById, Live, ReadyFor, Busy, Replies,
       CreateOps, MutateOps, AdminOps
  <2> QED BY <2>1, <2>2, <2>3, <2>4, <2>5 DEF Find
<1>4. UNCHANGED <<tables, world>>
  BY DEF Find, FindForCreate, Duplicate, FindForMutation, FindForLink, LoadSiteForLink,
         FindForAdmin
<1>5. shown' \in [Handlers -> [EventTypes -> Outcomes]]
  <2>1. UNCHANGED shown \/ Show(h, "submission", "error")
    BY DEF Find, FindForCreate, Duplicate, FindForMutation, FindForLink, LoadSiteForLink,
           FindForAdmin
  <2> QED BY <2>1 DEF Show, TypeInv, TypeOK, EventTypes, Outcomes
<1> QED
  BY <1>3, <1>4, <1>5, TypeMove DEF TypeInv, TypeOK, tables, world

(* The writes keep the types: they insert a complete row, or change the    *)
(* status columns of one.                                                  *)
LEMMA TypeWrite ==
    ASSUME TypeInv, NEW h \in Handlers, Write(h)
    PROVE  TypeInv'
<1> USE DEF At
<1>0. pc[h] \in Busy => job[h] \in Job
  BY DEF TypeInv, JobOK
<1>1. ASSUME NEW reply \in Replies
      PROVE  reply \in Busy \cup Replies /\ None \in Job \cup {None}
             /\ ReadyFor(reply, None)
  BY <1>1 DEF ReadyFor, Busy, Replies
<1>2. ASSUME NEW type \in EventTypes, NEW outcome \in Outcomes,
             Show(h, type, outcome) \/ UNCHANGED shown
      PROVE  shown' \in [Handlers -> [EventTypes -> Outcomes]]
  <2>1. shown \in [Handlers -> [EventTypes -> Outcomes]]
    BY DEF TypeInv, TypeOK
  <2>2. [shown[h] EXCEPT ![type] = outcome] \in [EventTypes -> Outcomes]
    BY <2>1, <1>2
  <2>3. CASE Show(h, type, outcome)
    BY <2>1, <2>2, <2>3 DEF Show
  <2>4. CASE UNCHANGED shown
    BY <2>1, <2>4
  <2> QED BY <1>2, <2>3, <2>4
<1>3. CASE WriteFails(h)
  BY <1>3, <1>1, TypeMove DEF WriteFails, Answer, TypeInv, TypeOK, tables, world,
     Replies
<1>4. CASE InvalidEmail(h)
  BY <1>4, <1>1, TypeMove DEF InvalidEmail, Answer, TypeInv, TypeOK, tables, world,
     Replies
<1>5. CASE Create(h)
  <2> DEFINE new == NewSubscriber(job[h])
  <2>1. PICK id \in FreshIds :
          /\ subscribers' = [subscribers EXCEPT ![id] = new]
          /\ issued' = issued \cup {id}
          /\ notices' = [notices EXCEPT ![id] = 0]
          /\ Goto(h, "mail", [job[h] EXCEPT !.id = id, !.email = Lower[@]])
    BY <1>5 DEF Create
  <2> USE DEF FreshIds
  <2> DEFINE j == [job[h] EXCEPT !.id = id, !.email = Lower[@]]
  <2>2. job[h] \in Job /\ job[h].email \in RawEmails
    BY <1>5, <1>0 DEF Create, TypeInv, JobOK, Busy
  <2>3. Lower[job[h].email] \in Emails /\ Lower[job[h].email] \in RawEmails
    BY <2>2, LowerFacts
  <2>4. new \in Row
    BY <2>2, <2>3 DEF NewSubscriber, Row, Status, Job
  <2>5. j \in Job /\ j.id = id /\ j.email = Lower[job[h].email]
    BY <2>2, <2>3 DEF Job
  <2>6. ReadyFor("mail", j)
    BY <2>3, <2>5 DEF ReadyFor
  <2>7. shown' \in [Handlers -> [EventTypes -> Outcomes]]
    BY <1>5, <1>2 DEF Create, EventTypes, Outcomes
  <2>8. subscribers' \in [Ids -> Row \cup {None}] /\ notices' \in [Ids -> 0..2]
        /\ issued' \subseteq Ids
    BY <2>1, <2>4 DEF TypeInv, TypeOK
  <2> QED
    BY <1>5, <2>1, <2>5, <2>6, <2>7, <2>8, TypeMove
       DEF Create, TypeInv, TypeOK, Busy
<1>6. CASE Resubscribe(h)
  <2>1. job[h] \in Job /\ job[h].id \in Ids /\ job[h].email \in Emails
    BY <1>6, <1>0 DEF Resubscribe, TypeInv, JobOK, Busy
  <2>2. subscribers' \in [Ids -> Row \cup {None}] /\ notices' \in [Ids -> 0..2]
    BY <1>6, <2>1, UpdatesKeepRow DEF Resubscribe, Update, TypeInv, TypeOK
  <2>3. shown' \in [Handlers -> [EventTypes -> Outcomes]]
    BY <1>6, <1>2 DEF Resubscribe, EventTypes, Outcomes
  <2>4. ReadyFor("mail", job[h])
    BY <2>1 DEF ReadyFor
  <2> QED
    BY <1>6, <2>1, <2>2, <2>3, <2>4, TypeMove
       DEF Resubscribe, TypeInv, TypeOK, Busy
<1>7. CASE WriteConfirmed(h)
  <2>1. job[h] \in Job /\ job[h].id \in Ids
    BY <1>7, <1>0 DEF WriteConfirmed, TypeInv, JobOK, Busy
  <2>2. subscribers' \in [Ids -> Row \cup {None}]
    BY <1>7, <2>1, UpdatesKeepRow DEF WriteConfirmed, Update, TypeInv, TypeOK
  <2>3. ReadyFor("notify", job[h]) /\ "notify" \in Busy
    BY <2>1 DEF ReadyFor, Busy
  <2>4. Goto(h, "notify", job[h]) \/ Goto(h, "ok", None)
    BY <1>7 DEF WriteConfirmed, Answer
  <2>5. "ok" \in Replies
    BY DEF Replies
  <2> QED
    BY <1>7, <1>1, <2>1, <2>2, <2>3, <2>4, <2>5, TypeMove
       DEF WriteConfirmed, TypeInv, TypeOK, world
<1>8. CASE WriteUnsubscribed(h)
  <2>1. job[h].id \in Ids
    BY <1>8 DEF WriteUnsubscribed, TypeInv, JobOK
  <2>2. subscribers' \in [Ids -> Row \cup {None}]
    BY <1>8, <2>1, UpdatesKeepRow DEF WriteUnsubscribed, Update, TypeInv, TypeOK
  <2>3. "ok" \in Replies
    BY DEF Replies
  <2> QED
    BY <1>8, <1>1, <2>2, <2>3, TypeMove
       DEF WriteUnsubscribed, Answer, TypeInv, TypeOK, world
<1>9. CASE DeleteSubscriber(h)
  <2>1. subscribers' \in [Ids -> Row \cup {None}]
    BY <1>9 DEF DeleteSubscriber, TypeInv, TypeOK
  <2>2. PICK reply \in Replies : Goto(h, reply, None)
    BY <1>9 DEF DeleteSubscriber, Answer, Replies
  <2> QED
    BY <1>9, <1>1, <2>1, <2>2, TypeMove
       DEF DeleteSubscriber, TypeInv, TypeOK, world
<1> QED BY <1>3, <1>4, <1>5, <1>6, <1>7, <1>8, <1>9 DEF Write

(* The calls to Pinguin keep the types: a mailed token is complete.        *)
LEMMA TypeCall ==
    ASSUME TypeInv, NEW h \in Handlers, Call(h)
    PROVE  TypeInv'
<1> USE DEF At
<1>1. "ok" \in Busy \cup Replies /\ ReadyFor("ok", None)
  BY DEF ReadyFor, Busy, Replies
<1>2. MailOutcomes \subseteq Outcomes /\ NoticeOutcomes \subseteq Outcomes
  BY DEF MailOutcomes, NoticeOutcomes, Outcomes
<1>3. CASE SendConfirmation(h)
  <2>1. job[h] \in Job /\ job[h].id \in Ids /\ job[h].email \in Emails
    BY <1>3 DEF SendConfirmation, TypeInv, JobOK, Busy
  <2>2. ConfirmationToken(job[h]) \in Token
    BY <2>1, ParameterAssumption
       DEF ConfirmationToken, Token, Job, TypeInv, TypeOK
  <2>3. mailed' \subseteq Token
    BY <1>3, <2>2 DEF SendConfirmation, TypeInv, TypeOK
  <2>4. shown' \in [Handlers -> [EventTypes -> Outcomes]]
    BY <1>3, <1>2 DEF SendConfirmation, Show, TypeInv, TypeOK, EventTypes
  <2> QED
    BY <1>3, <1>1, <2>3, <2>4, TypeMove
       DEF SendConfirmation, Answer, TypeInv, TypeOK, tables
<1>4. CASE NotifyOwner(h)
  <2>1. notices' \in [Ids -> 0..2]
    <3>1. PICK delivered \in BOOLEAN :
            notices' = [notices EXCEPT ![job[h].id] =
                           IF delivered /\ @ < 2 THEN @ + 1 ELSE @]
      BY <1>4 DEF NotifyOwner, Delivered
    <3>2. job[h].id \in Ids /\ notices \in [Ids -> 0..2]
      BY <1>4 DEF NotifyOwner, TypeInv, TypeOK, JobOK
    <3>3. notices[job[h].id] \in 0..2
      BY <3>2
    <3>4. (IF delivered /\ notices[job[h].id] < 2
           THEN notices[job[h].id] + 1 ELSE notices[job[h].id]) \in 0..2
      BY <3>3
    <3> QED BY <3>1, <3>2, <3>4
  <2>2. shown' \in [Handlers -> [EventTypes -> Outcomes]]
    BY <1>4, <1>2 DEF NotifyOwner, Show, TypeInv, TypeOK, EventTypes
  <2> QED
    BY <1>4, <1>1, <2>1, <2>2, TypeMove
       DEF NotifyOwner, Answer, TypeInv, TypeOK, tables
<1> QED BY <1>3, <1>4 DEF Call

(* Deleted sites, a crash, the clock and stuttering keep the types.        *)
LEMMA TypeWorld ==
    ASSUME TypeInv,
           (\E s \in Sites : DeleteSite(s)) \/ Crash \/ Tick \/ UNCHANGED vars
    PROVE  TypeInv'
<1> USE DEF TypeInv, TypeOK, JobOK, At
<1>1. CASE \E s \in Sites : DeleteSite(s)
  BY <1>1 DEF DeleteSite, world
<1>2. CASE Crash
  BY <1>2 DEF Crash, tables, world, Nothing, EventTypes, Outcomes, Busy, Replies
<1>3. CASE Tick
  BY <1>3, ParameterAssumption DEF Tick, tables
<1>4. CASE UNCHANGED vars
  BY <1>4 DEF vars
<1> QED BY <1>1, <1>2, <1>3, <1>4

(* Every step of the system keeps the types.                               *)
LEMMA TypeStep == TypeInv /\ [Next]_vars => TypeInv'
BY TypeArrive, TypeFind, TypeWrite, TypeCall, TypeWorld DEF Next

(* Every reachable state of the subscriber store is well typed: the rows   *)
(* and tokens the handlers build are complete in every interleaving.       *)
THEOREM TypeCorrect == Spec => []TypeOK
<1>1. Spec => []TypeInv
  BY TypeInit, TypeStep, PTL DEF Spec
<1>2. TypeInv => TypeOK
  BY DEF TypeInv
<1> QED BY <1>1, <1>2, PTL

-----------------------------------------------------------------------------
(* What one step may do to the table.  It edits or removes rows without    *)
(* touching their site and address, or it inserts one row under a fresh    *)
(* identifier that the unique index admits.                                *)

StampsOK(r) ==
    /\ r.status = "pending" => ~r.confirmedAt /\ ~r.unsubscribedAt
    /\ r.status = "confirmed" => r.confirmedAt /\ ~r.unsubscribedAt
    /\ r.status = "unsubscribed" => r.unsubscribedAt

Edited ==
    /\ issued' = issued
    /\ \A id \in Ids : subscribers'[id] # None =>
          /\ subscribers[id] # None
          /\ subscribers'[id].site = subscribers[id].site
          /\ subscribers'[id].email = subscribers[id].email
          /\ StampsOK(subscribers'[id])

InsertedAt(id, r) ==
    /\ id \in Ids \ issued
    /\ issued' = issued \cup {id}
    /\ subscribers' = [subscribers EXCEPT ![id] = r]
    /\ StampsOK(r)
    /\ IndexAllows(r)

(* A column-wise update keeps site and address, and leaves the stamps in   *)
(* agreement with the new status.                                          *)
LEMMA UpdatesKeepKey ==
    ASSUME NEW r \in Row
    PROVE  /\ Confirmed(r).site = r.site /\ Confirmed(r).email = r.email
           /\ Unsubscribed(r).site = r.site /\ Unsubscribed(r).email = r.email
           /\ Reopened(r).site = r.site /\ Reopened(r).email = r.email
           /\ StampsOK(Confirmed(r))
           /\ StampsOK(Unsubscribed(r))
           /\ StampsOK(Reopened(r))
BY DEF Row, Status, Confirmed, Unsubscribed, Reopened, StampsOK

(* Every step edits the table or inserts one row.                          *)
LEMMA TableStep ==
    ASSUME TypeInv, Fresh, StampsMatchStatus, [Next]_vars
    PROVE  \/ Edited
           \/ \E id \in Ids, h \in Handlers :
                 Create(h) /\ InsertedAt(id, NewSubscriber(job[h]))
<1> USE DEF TypeInv, TypeOK, At
<1>1. ASSUME UNCHANGED <<subscribers, issued>>
      PROVE  Edited
  BY <1>1 DEF Edited, StampsMatchStatus, StampsOK, Live
<1>2. ASSUME NEW h \in Handlers, Create(h)
      PROVE  \E id \in Ids : InsertedAt(id, NewSubscriber(job[h]))
  BY <1>2 DEF Create, FreshIds, InsertedAt, NewSubscriber, StampsOK
<1>3. ASSUME NEW h \in Handlers, Resubscribe(h)
      PROVE  Edited
  BY <1>3, UpdatesKeepKey
     DEF Resubscribe, Update, Edited, StampsMatchStatus, StampsOK, Live
<1>4. ASSUME NEW h \in Handlers, WriteConfirmed(h)
      PROVE  Edited
  BY <1>4, UpdatesKeepKey
     DEF WriteConfirmed, Update, Edited, StampsMatchStatus, StampsOK, Live
<1>5. ASSUME NEW h \in Handlers, WriteUnsubscribed(h)
      PROVE  Edited
  BY <1>5, UpdatesKeepKey
     DEF WriteUnsubscribed, Update, Edited, StampsMatchStatus, StampsOK, Live
<1>6. ASSUME NEW h \in Handlers, DeleteSubscriber(h)
      PROVE  Edited
  BY <1>6 DEF DeleteSubscriber, Edited, StampsMatchStatus, StampsOK, Live
<1>7. ASSUME NEW h \in Handlers,
             Arrive(h) \/ Find(h) \/ Call(h) \/ WriteFails(h) \/ InvalidEmail(h)
      PROVE  UNCHANGED <<subscribers, issued>>
  BY <1>7 DEF Arrive, Reject, AcceptCreate, AcceptMutation, AcceptLink,
     AcceptAdmin, Accept, Find, FindForCreate, FindForMutation, FindForLink,
     LoadSiteForLink, FindForAdmin, Call, SendConfirmation, NotifyOwner,
     WriteFails, InvalidEmail, tables
<1>8. ASSUME (\E s \in Sites : DeleteSite(s)) \/ Crash \/ Tick \/ UNCHANGED vars
      PROVE  UNCHANGED <<subscribers, issued>>
  BY <1>8 DEF DeleteSite, Crash, Tick, tables, vars
<1> QED
  BY <1>1, <1>2, <1>3, <1>4, <1>5, <1>6, <1>7, <1>8 DEF Next, Write

(* A step edits no row of a fresh identifier, so what was true of the rows *)
(* a handler or a token refers to stays true.                              *)
LEMMA KeysPersist ==
    ASSUME TypeInv, Fresh, StampsMatchStatus, [Next]_vars
    PROVE  /\ issued \subseteq issued'
           /\ \A id \in issued : subscribers'[id] # None =>
                 /\ subscribers[id] # None
                 /\ subscribers'[id].site = subscribers[id].site
                 /\ subscribers'[id].email = subscribers[id].email
<1>1. CASE Edited
  BY <1>1 DEF Edited, TypeInv, TypeOK
<1>2. ASSUME NEW id \in Ids, NEW r, InsertedAt(id, r)
      PROVE  /\ issued \subseteq issued'
             /\ \A k \in issued : subscribers'[k] = subscribers[k]
  BY <1>2 DEF InsertedAt, TypeInv, TypeOK
<1> QED BY <1>1, <1>2, TableStep

(* At most one row per site and address survives every step.               *)
LEMMA UniqueStep ==
    ASSUME TypeInv, Fresh, StampsMatchStatus, UniqueSiteEmail, [Next]_vars
    PROVE  UniqueSiteEmail' /\ StampsMatchStatus' /\ (Live \subseteq issued)'
<1> USE DEF TypeInv, TypeOK, Fresh, Live, UniqueSiteEmail, StampsMatchStatus,
            StampsOK
<1>1. CASE Edited
  BY <1>1 DEF Edited
<1>2. ASSUME NEW id \in Ids, NEW r, InsertedAt(id, r)
      PROVE  UniqueSiteEmail' /\ StampsMatchStatus' /\ (Live \subseteq issued)'
  <2>1. subscribers'[id] = r /\ subscribers[id] = None
    BY <1>2 DEF InsertedAt
  <2>2. \A k \in Ids \ {id} : subscribers'[k] = subscribers[k]
    BY <1>2 DEF InsertedAt
  <2>3. \A k \in Live : subscribers[k].site # r.site \/ subscribers[k].email # r.email
    BY <1>2 DEF InsertedAt, IndexAllows
  <2>4. UniqueSiteEmail'
    BY <2>1, <2>2, <2>3
  <2>5. StampsMatchStatus'
    BY <1>2, <2>1, <2>2 DEF InsertedAt
  <2>6. (Live \subseteq issued)'
    BY <1>2, <2>2 DEF InsertedAt
  <2> QED BY <2>4, <2>5, <2>6
<1> QED BY <1>1, <1>2, TableStep

(* A handler comes to hold a row to reopen or to mail about only by        *)
(* finding it unsubscribed or by inserting it.                             *)
LEMMA JobSource ==
    ASSUME TypeInv, [Next]_vars, NEW g \in Handlers,
           pc'[g] \in {"resubscribe", "mail"}
    PROVE  \/ pc[g] \in {"resubscribe", "mail"} /\ job'[g] = job[g]
           \/ FindForCreate(g)
           \/ Create(g)
<1> USE DEF TypeInv, TypeOK, At, Goto, Answer
<1>1. ASSUME NEW h \in Handlers, g # h, NEW label, NEW j, Goto(h, label, j)
      PROVE  pc'[g] = pc[g] /\ job'[g] = job[g]
  BY <1>1
<1>2. ASSUME NEW h \in Handlers, NEW label, NEW j, Goto(h, label, j),
             label \notin {"resubscribe", "mail"}
      PROVE  pc[g] \in {"resubscribe", "mail"} /\ job'[g] = job[g]
  BY <1>1, <1>2
<1>3. ASSUME NEW h \in Handlers, Arrive(h)
      PROVE  pc[g] \in {"resubscribe", "mail"} /\ job'[g] = job[g]
  <2>1. PICK label, j :
            label \in {"rejected", "find", "delete"} /\ Goto(h, label, j)
    BY <1>3 DEF Arrive, Reject, AcceptCreate, AcceptMutation, AcceptLink,
                AcceptAdmin, Accept
  <2> QED BY <2>1, <1>2
<1>4. ASSUME NEW h \in Handlers, Find(h), ~FindForCreate(h)
      PROVE  pc[g] \in {"resubscribe", "mail"} /\ job'[g] = job[g]
  <2>1. PICK label, j :
            label \in {"rejected", "conflict", "failed", "ok", "write", "loadSite"} /\ Goto(h, label, j)
    BY <1>4 DEF Find, FindForMutation, FindForLink, LoadSiteForLink,
                FindForAdmin, Decide
  <2> QED BY <2>1, <1>2
<1>5. ASSUME NEW h \in Handlers, Write(h), ~Create(h), ~Resubscribe(h)
      PROVE  pc[g] \in {"resubscribe", "mail"} /\ job'[g] = job[g]
  <2>1. PICK label, j :
            label \in {"rejected", "failed", "ok", "notify"} /\ Goto(h, label, j)
    BY <1>5 DEF Write, WriteFails, InvalidEmail, WriteConfirmed,
                WriteUnsubscribed, DeleteSubscriber
  <2> QED BY <2>1, <1>2
<1>6. ASSUME NEW h \in Handlers, Call(h)
      PROVE  pc[g] \in {"resubscribe", "mail"} /\ job'[g] = job[g]
  BY <1>6, <1>2 DEF Call, SendConfirmation, NotifyOwner
<1>7. ASSUME NEW h \in Handlers, Resubscribe(h)
      PROVE  pc[g] \in {"resubscribe", "mail"} /\ job'[g] = job[g]
  BY <1>7 DEF Resubscribe
<1>8. ASSUME NEW h \in Handlers, g # h, FindForCreate(h) \/ Create(h)
      PROVE  pc'[g] = pc[g] /\ job'[g] = job[g]
  BY <1>8 DEF FindForCreate, Duplicate, Create
<1>9. ASSUME (\E s \in Sites : DeleteSite(s)) \/ Crash \/ Tick \/ UNCHANGED vars
      PROVE  pc[g] \in {"resubscribe", "mail"} /\ job'[g] = job[g]
  BY <1>9 DEF DeleteSite, Crash, Tick, vars
<1> QED
  BY <1>3, <1>4, <1>5, <1>6, <1>7, <1>8, <1>9 DEF Next, Write

(* Whatever row a handler is about to reopen or to mail about stays the    *)
(* row of the site and address it remembers.                               *)
LEMMA JobBoundStep ==
    ASSUME IInv, [Next]_vars
    PROVE  JobBoundToRow'
<1> SUFFICES ASSUME NEW g \in Handlers, pc'[g] \in {"resubscribe", "mail"}
             PROVE  /\ job'[g].id \in issued'
                    /\ job'[g].id \in Live' =>
                         /\ subscribers'[job'[g].id].site = job'[g].site
                         /\ subscribers'[job'[g].id].email = job'[g].email
  BY DEF JobBoundToRow
<1> USE DEF IInv
<1>1. CASE pc[g] \in {"resubscribe", "mail"} /\ job'[g] = job[g]
  BY <1>1, KeysPersist DEF JobBoundToRow, Live
<1>2. CASE FindForCreate(g)
  <2>1. PICK id \in ByEmail(job[g]) :
          Goto(g, "resubscribe",
               [job[g] EXCEPT !.id = id, !.email = subscribers[id].email])
    BY <1>2 DEF FindForCreate, Duplicate, Goto, Answer, TypeInv, TypeOK
  <2>2. job[g] \in Job
    BY <1>2 DEF FindForCreate, At, TypeInv, JobOK, Busy
  <2>3. /\ job'[g].id = id
        /\ job'[g].site = job[g].site
        /\ job'[g].email = subscribers[id].email
    BY <2>1, <2>2 DEF Goto, TypeInv, TypeOK, Job
  <2>4. subscribers' = subscribers /\ issued' = issued
    BY <1>2 DEF FindForCreate, tables
  <2>5. id \in issued /\ subscribers[id].site = job[g].site
    BY DEF ByEmail, Fresh
  <2> QED BY <2>3, <2>4, <2>5
<1>3. CASE Create(g)
  <2>1. PICK id \in FreshIds :
          /\ subscribers' = [subscribers EXCEPT ![id] = NewSubscriber(job[g])]
          /\ issued' = issued \cup {id}
          /\ Goto(g, "mail", [job[g] EXCEPT !.id = id, !.email = Lower[@]])
    BY <1>3 DEF Create
  <2> USE DEF FreshIds
  <2>2. job[g] \in Job
    BY <1>3 DEF Create, At, TypeInv, JobOK, Busy
  <2>3. /\ job'[g].id = id
        /\ job'[g].site = job[g].site
        /\ job'[g].email = Lower[job[g].email]
    BY <2>1, <2>2 DEF Goto, TypeInv, TypeOK, Job
  <2>4. subscribers'[id] = NewSubscriber(job[g])
    BY <2>1 DEF TypeInv, TypeOK
  <2> QED BY <2>1, <2>3, <2>4 DEF NewSubscriber
<1> QED BY <1>1, <1>2, <1>3, JobSource

(* Only SendConfirmation mails a token, and it mails the token of the row  *)
(* and address its handler holds.                                          *)
LEMMA MailStep ==
    ASSUME [Next]_vars
    PROVE  \/ mailed' = mailed
           \/ \E h \in Handlers :
                 /\ SendConfirmation(h)
                 /\ mailed' \subseteq mailed \cup {ConfirmationToken(job[h])}
<1>1. ASSUME NEW h \in Handlers, Arrive(h) \/ Find(h) \/ Write(h) \/ NotifyOwner(h)
      PROVE  mailed' = mailed
  BY <1>1 DEF Arrive, Reject, AcceptCreate, AcceptMutation, AcceptLink,
     AcceptAdmin, Accept, Find, FindForCreate, FindForMutation, FindForLink,
     LoadSiteForLink, FindForAdmin, Write, WriteFails, InvalidEmail, Create,
     Resubscribe, WriteConfirmed, WriteUnsubscribed, DeleteSubscriber,
     NotifyOwner, world
<1>2. ASSUME NEW h \in Handlers, SendConfirmation(h)
      PROVE  mailed' \subseteq mailed \cup {ConfirmationToken(job[h])}
  BY <1>2 DEF SendConfirmation
<1>3. ASSUME (\E s \in Sites : DeleteSite(s)) \/ Crash \/ Tick \/ UNCHANGED vars
      PROVE  mailed' = mailed
  BY <1>3 DEF DeleteSite, Crash, Tick, world, vars
<1> QED BY <1>1, <1>2, <1>3 DEF Next, Call

(* Mailed tokens stay bound to the rows they were issued for.              *)
LEMMA MailBoundStep ==
    ASSUME IInv, [Next]_vars
    PROVE  MailBoundToRow' /\ (\A t \in mailed : t.id \in issued)'
<1> USE DEF IInv
<1>1. ASSUME NEW t \in mailed
      PROVE  /\ t.id \in issued'
             /\ t.id \in Live' => /\ subscribers'[t.id].site = t.site
                                  /\ subscribers'[t.id].email = t.email
  BY <1>1, KeysPersist DEF Fresh, MailBoundToRow, Live
<1>2. ASSUME NEW h \in Handlers, SendConfirmation(h), NEW t,
             t = ConfirmationToken(job[h])
      PROVE  /\ t.id \in issued'
             /\ t.id \in Live' => /\ subscribers'[t.id].site = t.site
                                  /\ subscribers'[t.id].email = t.email
  <2>1. t.id = job[h].id /\ t.site = job[h].site /\ t.email = job[h].email
    BY <1>2 DEF ConfirmationToken
  <2>2. subscribers' = subscribers /\ issued' = issued
    BY <1>2 DEF SendConfirmation, tables
  <2> QED BY <1>2, <2>1, <2>2 DEF JobBoundToRow, SendConfirmation, At, Live
<1> QED BY <1>1, <1>2, MailStep DEF MailBoundToRow

(* The inductive invariant is inductive.                                   *)
LEMMA Inductive == /\ Init => IInv
                   /\ IInv /\ [Next]_vars => IInv'
<1>1. Init => IInv
  <2>1. Init => Fresh /\ JobBoundToRow /\ UniqueSiteEmail /\ StampsMatchStatus
                /\ MailBoundToRow
    BY DEF Init, Fresh, Live, JobBoundToRow, UniqueSiteEmail, StampsMatchStatus,
           MailBoundToRow
  <2> QED BY <2>1, TypeInit DEF IInv
<1>2. ASSUME IInv, [Next]_vars
      PROVE  IInv'
  <2>1. TypeInv'
    BY <1>2, TypeStep DEF IInv
  <2>2. UniqueSiteEmail' /\ StampsMatchStatus' /\ (Live \subseteq issued)'
    BY <1>2, UniqueStep DEF IInv
  <2>3. JobBoundToRow'
    BY <1>2, JobBoundStep
  <2>4. MailBoundToRow' /\ (\A t \in mailed : t.id \in issued)'
    BY <1>2, MailBoundStep
  <2> QED BY <2>1, <2>2, <2>3, <2>4 DEF IInv, Fresh
<1> QED BY <1>1, <1>2

LEMMA Invariance == Spec => []IInv
BY Inductive, PTL DEF Spec

(* One row per site and address, for any number of concurrent requests.    *)
THEOREM AtMostOneRow == Spec => []UniqueSiteEmail
<1>1. IInv => UniqueSiteEmail
  BY DEF IInv
<1> QED BY <1>1, Invariance, PTL

(* The stamps agree with the status, whatever UPDATEs interleave.          *)
THEOREM StampsAgree == Spec => []StampsMatchStatus
<1>1. IInv => StampsMatchStatus
  BY DEF IInv
<1> QED BY <1>1, Invariance, PTL

(* A mailed link acts on the mailbox it was sent to or on nothing.         *)
THEOREM LinksStayBound == Spec => []MailBoundToRow
<1>1. IInv => MailBoundToRow
  BY DEF IInv
<1> QED BY <1>1, Invariance, PTL

(* No handler writes back a subscriber that was deleted under it.          *)
THEOREM NoResurrection == Spec => DeletedStaysDeleted
<1>1. IInv /\ [Next]_vars =>
        [\A id \in issued : subscribers[id] = None => subscribers'[id] = None]_vars
  BY KeysPersist DEF IInv
<1> QED BY <1>1, Invariance, PTL DEF Spec, DeletedStaysDeleted

-----------------------------------------------------------------------------
(* Until a handler knows how its request ends it has broadcast nothing;    *)
(* only one about to mail has announced an accepted submission.            *)
PanelAt(label, op, events) ==
    /\ label \in Busy \ {"mail"} => events = Nothing
    /\ label = "mail" => events = [Nothing EXCEPT !["submission"] = "ok"]
    /\ label = "write" => op \notin CreateOps

Panel == \A h \in Handlers : PanelAt(pc[h], job[h].op, shown[h])

(* What a step tells the panel: the part of PanelMatchesReply in brackets. *)
Told == \A h \in Handlers : Answered(h) => Announced(job[h].op, pc'[h], shown'[h])

(* A step of a handler leaves the panel of every other request alone.      *)
LEMMA PanelMove ==
    ASSUME TypeInv, Panel, NEW h \in Handlers, NEW label, NEW j, NEW events,
           Goto(h, label, j), shown'[h] = events,
           \A g \in Handlers \ {h} : shown'[g] = shown[g],
           PanelAt(label, j.op, events),
           pc[h] \in Busy /\ label \in Replies => Announced(job[h].op, label, events)
    PROVE  Panel' /\ Told
<1>1. /\ pc'[h] = label /\ job'[h] = j
      /\ \A g \in Handlers \ {h} : pc'[g] = pc[g] /\ job'[g] = job[g]
  BY DEF Goto, TypeInv, TypeOK
<1>2. Panel'
  BY <1>1 DEF Panel
<1>3. \A g \in Handlers \ {h} : ~Answered(g)
  BY <1>1 DEF Answered, Busy, Replies
<1>4. Told
  BY <1>1, <1>3 DEF Told, Answered
<1> QED BY <1>2, <1>4

(* A request starts with an empty panel.                                   *)
LEMMA PanelArrive ==
    ASSUME TypeInv, Panel, NEW h \in Handlers, Arrive(h)
    PROVE  Panel' /\ Told
<1>1. PICK label \in {"rejected", "find", "delete"} : \E j :
          pc[h] \in Replies /\ Goto(h, label, j) /\ shown' = [shown EXCEPT ![h] = Nothing]
  BY DEF Arrive, Reject, AcceptCreate, AcceptMutation, AcceptLink, AcceptAdmin,
         Accept, Answer
<1>2. pc[h] \notin Busy /\ \A j : PanelAt(label, j.op, Nothing)
  BY <1>1 DEF Busy, Replies, PanelAt
<1> QED
  BY <1>1, <1>2, PanelMove DEF TypeInv, TypeOK

(* From where a handler reads.                                             *)
LEMMA FindPlaces ==
    ASSUME NEW h, Find(h)
    PROVE  pc[h] \in {"find", "loadSite"}
<1>1. FindForCreate(h) => pc[h] = "find"
  BY Zenon DEF FindForCreate, At
<1>2. FindForMutation(h) => pc[h] = "find"
  BY DEF FindForMutation, At
<1>3. FindForLink(h) => pc[h] = "find"
  BY DEF FindForLink, At
<1>4. LoadSiteForLink(h) => pc[h] = "loadSite"
  BY DEF LoadSiteForLink, At
<1>5. FindForAdmin(h) => pc[h] = "find"
  BY DEF FindForAdmin, At
<1> QED BY <1>1, <1>2, <1>3, <1>4, <1>5 DEF Find

(* An empty panel suits the next statement of a handler, a request that is *)
(* refused or fails, and any reply to a request that submits nothing.      *)
LEMMA PanelQuiet ==
    ASSUME TypeInv, Panel, NEW h \in Handlers, shown[h] = Nothing, UNCHANGED shown,
           NEW label \in (Busy \ {"mail"}) \cup Replies, NEW j, Goto(h, label, j),
           label = "write" => j.op \notin CreateOps,
           label \in {"ok", "conflict"} => job[h].op \notin CreateOps
    PROVE  Panel' /\ Told
<1>1. PanelAt(label, j.op, Nothing)
  BY DEF PanelAt, Busy, Replies
<1>2. Announced(job[h].op, label, Nothing)
  BY DEF Announced, Nothing, EventTypes
<1> QED BY <1>1, <1>2, PanelMove

(* A read leaves the panel empty, except that a duplicate is shown as one. *)
LEMMA PanelFind ==
    ASSUME TypeInv, Panel, NEW h \in Handlers, Find(h)
    PROVE  Panel' /\ Told
<1>1. shown[h] = Nothing /\ pc[h] \in Busy /\ job[h] \in Job
  BY FindPlaces DEF Panel, PanelAt, Busy, TypeInv, JobOK
<1>2. ASSUME NEW label \in {"rejected", "failed"}, Answer(h, label), UNCHANGED shown
      PROVE  Panel' /\ Told
  BY <1>1, <1>2, PanelQuiet DEF Answer, Replies
<1>3. ASSUME Duplicate(h), job[h].op \in CreateOps
      PROVE  Panel' /\ Told
  <2> DEFINE events == [Nothing EXCEPT !["submission"] = "error"]
  <2>1. Goto(h, "conflict", None) /\ shown' = [shown EXCEPT ![h]["submission"] = "error"]
    BY <1>3 DEF Show, Duplicate, Answer
  <2>2. PanelAt("conflict", None.op, events)
    BY DEF PanelAt, Busy
  <2>3. shown'[h] = events /\ \A g \in Handlers \ {h} : shown'[g] = shown[g]
    BY <1>1, <2>1 DEF TypeInv, TypeOK
  <2>4. Announced(job[h].op, "conflict", events)
    BY <1>3 DEF Announced
  <2> HIDE DEF events
  <2> QED BY <2>1, <2>2, <2>3, <2>4, PanelMove
<1>4. ASSUME NEW id \in Ids, NEW next \in {"write", "loadSite"}, Decide(h, id, next), UNCHANGED shown,
             job[h].op \in MutateOps \cup LinkOps
      PROVE  Panel' /\ Told
  <2> DEFINE j == [job[h] EXCEPT !.id = id]
  <2>1. job[h].op \notin CreateOps /\ j.op = job[h].op
    BY <1>1, <1>4 DEF MutateOps, LinkOps, CreateOps, Job
  <2>2. \/ Goto(h, "conflict", None)
        \/ Goto(h, "ok", None)
        \/ Goto(h, next, j)
    BY <1>4 DEF Decide, Answer
  <2> HIDE DEF j
  <2> QED BY <1>1, <1>4, <2>1, <2>2, PanelQuiet DEF Busy, Replies
<1>5. CASE FindForCreate(h)
  <2>1. job[h].op \in CreateOps
    BY <1>5, Zenon DEF FindForCreate, At
  <2>2. \/ Duplicate(h)
        \/ Answer(h, "failed") /\ UNCHANGED shown
        \/ UNCHANGED shown /\ \E label \in {"create", "resubscribe"} : \E j : Goto(h, label, j)
    BY <1>5, Zenon DEF FindForCreate
  <2>3. ASSUME NEW label \in {"create", "resubscribe"}, NEW j, Goto(h, label, j), UNCHANGED shown
        PROVE  Panel' /\ Told
    BY <1>1, <2>3, PanelQuiet DEF Busy
  <2> QED BY <1>2, <1>3, <2>1, <2>2, <2>3
<1>6. CASE FindForMutation(h)
  BY <1>2, <1>4, <1>6 DEF FindForMutation, At, ByEmail, Live
<1>7. CASE FindForLink(h)
  BY <1>2, <1>4, <1>7 DEF FindForLink, At, ById, Live
<1>8. CASE LoadSiteForLink(h)
  <2>1. PICK found \in BOOLEAN : Goto(h, "write", [job[h] EXCEPT !.known = found])
    BY <1>8 DEF LoadSiteForLink
  <2>2. [job[h] EXCEPT !.known = found].op = job[h].op /\ job[h].op \notin CreateOps
    BY <1>1, <1>8 DEF LoadSiteForLink, At, LinkOps, CreateOps, Job
  <2>3. UNCHANGED shown
    BY <1>8 DEF LoadSiteForLink
  <2> QED BY <1>1, <2>1, <2>2, <2>3, PanelQuiet DEF Busy
<1>9. CASE FindForAdmin(h)
  <2>1. job[h].op \notin CreateOps /\ UNCHANGED shown
    BY <1>9 DEF FindForAdmin, At, AdminOps, CreateOps
  <2>2. Answer(h, "rejected") \/ Goto(h, "write", job[h])
    BY <1>9 DEF FindForAdmin
  <2> QED BY <1>1, <1>2, <2>1, <2>2, PanelQuiet DEF Busy
<1> QED BY <1>5, <1>6, <1>7, <1>8, <1>9 DEF Find

(* A write that fails shows nothing; one that reopens or inserts a row     *)
(* announces the submission and goes on to the mail.                       *)
LEMMA PanelWrite ==
    ASSUME TypeInv, Panel, NEW h \in Handlers, Write(h)
    PROVE  Panel' /\ Told
<1>1. pc[h] \in {"create", "resubscribe", "write", "delete"}
  <2>1. WriteFails(h) \/ InvalidEmail(h)
           => pc[h] \in {"create", "resubscribe", "write", "delete"}
    BY DEF WriteFails, InvalidEmail
  <2>2. Create(h) => pc[h] = "create"
    BY DEF Create, At
  <2>3. Resubscribe(h) => pc[h] = "resubscribe"
    BY DEF Resubscribe, At
  <2>4. WriteConfirmed(h) => pc[h] = "write"
    BY DEF WriteConfirmed, At
  <2>5. WriteUnsubscribed(h) => pc[h] = "write"
    BY DEF WriteUnsubscribed, At
  <2>6. DeleteSubscriber(h) => pc[h] = "delete"
    BY DEF DeleteSubscriber, At
  <2> QED BY <2>1, <2>2, <2>3, <2>4, <2>5, <2>6 DEF Write
<1>2. shown[h] = Nothing /\ pc[h] \in Busy /\ (pc[h] = "write" => job[h].op \notin CreateOps)
  BY <1>1 DEF Panel, PanelAt, Busy
<1>3. ASSUME NEW j, Goto(h, "mail", j), Show(h, "submission", "ok")
      PROVE  Panel' /\ Told
  <2> DEFINE events == [Nothing EXCEPT !["submission"] = "ok"]
  <2>1. shown'[h] = events /\ \A g \in Handlers \ {h} : shown'[g] = shown[g]
    BY <1>2, <1>3 DEF Show, TypeInv, TypeOK
  <2>2. PanelAt("mail", j.op, events)
    BY DEF PanelAt
  <2> HIDE DEF events
  <2> QED BY <1>3, <2>1, <2>2, PanelMove DEF Replies
<1>4. CASE Create(h)
  BY <1>3, <1>4 DEF Create
<1>5. CASE Resubscribe(h)
  BY <1>3, <1>5 DEF Resubscribe
<1>6. CASE WriteFails(h) \/ InvalidEmail(h)
  <2>1. UNCHANGED shown /\ \E label \in {"failed", "rejected"} : Goto(h, label, None)
    BY <1>6 DEF WriteFails, InvalidEmail, Answer
  <2> QED BY <1>2, <2>1, PanelQuiet DEF Replies
<1>7. CASE WriteConfirmed(h) \/ WriteUnsubscribed(h)
  <2>1. pc[h] = "write" /\ UNCHANGED shown
        /\ \E label \in {"notify", "ok"} : \E j : Goto(h, label, j)
    BY <1>7 DEF WriteConfirmed, WriteUnsubscribed, At, Answer
  <2> QED BY <1>2, <2>1, PanelQuiet DEF Busy, Replies
<1>8. CASE DeleteSubscriber(h)
  <2>1. /\ job[h].op \notin CreateOps /\ UNCHANGED shown
        /\ \E label \in {"rejected", "ok"} : Goto(h, label, None)
    BY <1>8 DEF DeleteSubscriber, At, Answer, CreateOps
  <2> QED BY <1>2, <2>1, PanelQuiet DEF Replies
<1> QED BY <1>4, <1>5, <1>6, <1>7, <1>8 DEF Write

(* The reply to a submission comes after the outcome of its mail is shown; *)
(* that of the notification is no event of a submission.                   *)
LEMMA PanelCall ==
    ASSUME TypeInv, Panel, NEW h \in Handlers, Call(h)
    PROVE  Panel' /\ Told
<1> USE DEF PanelAt, Busy, Replies
<1>1. CASE SendConfirmation(h)
  <2>1. PICK outcome \in Outcomes \ {"none"} :
            Goto(h, "ok", None) /\ shown' = [shown EXCEPT ![h]["confirmation"] = outcome]
    BY <1>1 DEF SendConfirmation, MailOutcomes, Outcomes, Answer, Show
  <2>2. job[h].op \in CreateOps /\ shown[h] = [Nothing EXCEPT !["submission"] = "ok"]
    BY <1>1 DEF SendConfirmation, At, Panel
  <2>3. \A g \in Handlers \ {h} : shown'[g] = shown[g]
    BY <2>1 DEF TypeInv, TypeOK
  <2>4. Announced(job[h].op, "ok", shown'[h])
    BY <2>1, <2>2 DEF Announced, Nothing, EventTypes, TypeInv, TypeOK
  <2> QED BY <2>1, <2>3, <2>4, PanelMove
<1>2. CASE NotifyOwner(h)
  <2>1. PICK outcome \in Outcomes :
            Goto(h, "ok", None) /\ shown' = [shown EXCEPT ![h]["notification"] = outcome]
    BY <1>2 DEF NotifyOwner, NoticeOutcomes, Outcomes, Answer, Show
  <2>2. job[h].op \notin CreateOps /\ shown[h] = Nothing
    BY <1>2 DEF NotifyOwner, At, Panel, CreateOps, ConfirmOps
  <2>3. \A g \in Handlers \ {h} : shown'[g] = shown[g]
    BY <2>1 DEF TypeInv, TypeOK
  <2>4. Announced(job[h].op, "ok", shown'[h])
    BY <2>1, <2>2 DEF Announced, Nothing, EventTypes, TypeInv, TypeOK
  <2> QED BY <2>1, <2>3, <2>4, PanelMove
<1> QED BY <1>1, <1>2 DEF Call

(* Whatever requests interleave or fail, the test panel has been told what *)
(* the visitor is told when a request is answered.                         *)
THEOREM PanelTellsTheReply == Spec => PanelMatchesReply
<1>1. Init => Panel
  BY DEF Init, Panel, PanelAt, Busy
<1>2. ASSUME TypeInv, Panel, [Next]_vars
      PROVE  Panel' /\ Told
  <2>1. ASSUME \/ \E s \in Sites : DeleteSite(s)
               \/ Tick \/ UNCHANGED vars
        PROVE  UNCHANGED <<pc, job, shown>>
    BY <2>1 DEF DeleteSite, Tick, vars
  <2>2. CASE Crash
    <3>1. \A h \in Handlers : pc'[h] = "idle"
      BY <2>2 DEF Crash
    <3> QED BY <3>1 DEF Panel, PanelAt, Busy, Told, Answered
  <2>3. CASE UNCHANGED <<pc, job, shown>>
    BY <1>2, <2>3 DEF Panel, Told, Answered, Busy, Replies
  <2> QED BY <1>2, <2>1, <2>2, <2>3, PanelArrive, PanelFind, PanelWrite,
             PanelCall DEF Next
<1>3. [][Told]_vars <=> PanelMatchesReply
  BY DEF Told, PanelMatchesReply
<1> HIDE DEF Told
<1>4. TypeInv /\ Panel /\ [Next]_vars => Panel' /\ [Told]_vars
  BY <1>2
<1> QED BY <1>1, <1>3, <1>4, TypeInit, TypeStep, PTL DEF Spec

-----------------------------------------------------------------------------
(* Requests that do not overlap in time: the store with a single handler.  *)
(* What the request has read is still so when it writes.                   *)
Current(h) ==
    LET id     == job[h].id
        status == subscribers[id].status
    IN  /\ pc[h] \in {"resubscribe", "loadSite", "write", "notify"} => id \in Live
        /\ pc[h] = "resubscribe" => status = "unsubscribed"
        /\ pc[h] \in {"loadSite", "write"} /\ job[h].op \in {"confirm", "confirmLink"}
              => status = "pending"
        /\ pc[h] \in {"loadSite", "write"} /\ job[h].op \in {"unsubscribe", "unsubscribeLink"}
              => status \in {"pending", "confirmed"}
        /\ pc[h] = "notify" => status = "confirmed" /\ notices[id] = 0

(* The owner has not been told of a consent that is still to be given.     *)
OncePerConsent ==
    \A id \in Ids : /\ notices[id] <= 1
                    /\ id \in Live /\ subscribers[id].status = "pending"
                          => notices[id] = 0

SInv(h) == IInv /\ Current(h) /\ OncePerConsent

(* A handler without a row in hand knows nothing that could be outdated.   *)
LEMMA NothingToHold ==
    ASSUME NEW h, pc[h] \notin {"resubscribe", "loadSite", "write", "notify"}
    PROVE  Current(h)
BY DEF Current

(* Steps that change neither rows nor notices: the request arrives, reads, *)
(* is rejected or fails, or mails.                                         *)
QuietStep(h) ==
    \/ Arrive(h) \/ Find(h) \/ WriteFails(h) \/ InvalidEmail(h)
    \/ SendConfirmation(h)

LEMMA QuietFrame ==
    ASSUME NEW h, QuietStep(h)
    PROVE  UNCHANGED <<subscribers, issued, notices>>
<1>1. Arrive(h) => UNCHANGED <<subscribers, issued, notices>>
  BY DEF Arrive, Reject, AcceptCreate, AcceptMutation, AcceptLink, AcceptAdmin,
     Accept, tables, world
<1>2. FindForCreate(h) => UNCHANGED <<subscribers, issued, notices>>
  BY Zenon DEF FindForCreate, tables, world
<1>3. /\ FindForMutation(h) => UNCHANGED <<subscribers, issued, notices>>
      /\ FindForLink(h) => UNCHANGED <<subscribers, issued, notices>>
      /\ LoadSiteForLink(h) => UNCHANGED <<subscribers, issued, notices>>
      /\ FindForAdmin(h) => UNCHANGED <<subscribers, issued, notices>>
  BY DEF FindForMutation, FindForLink, LoadSiteForLink, FindForAdmin, tables, world
<1>4. /\ WriteFails(h) => UNCHANGED <<subscribers, issued, notices>>
      /\ InvalidEmail(h) => UNCHANGED <<subscribers, issued, notices>>
      /\ SendConfirmation(h) => UNCHANGED <<subscribers, issued, notices>>
  BY DEF WriteFails, InvalidEmail, SendConfirmation, tables, world
<1> QED BY <1>1, <1>2, <1>3, <1>4 DEF QuietStep, Find

LEMMA QuietOnce ==
    ASSUME OncePerConsent, UNCHANGED <<subscribers, issued, notices>>
    PROVE  OncePerConsent'
BY DEF OncePerConsent, Live

(* Where a step takes the handler, in terms of pc and job alone.           *)
LEMMA Gone ==
    ASSUME TypeInv, NEW h \in Handlers, NEW label, NEW j, Goto(h, label, j)
    PROVE  pc'[h] = label /\ job'[h] = j
BY DEF Goto, TypeInv, TypeOK

LEMMA DecideCurrent ==
    ASSUME TypeInv, NEW h \in Handlers, NEW id \in Live, NEW next \in {"write", "loadSite"},
           Decide(h, id, next), UNCHANGED <<subscribers, issued, notices>>,
           job[h].op \in MutateOps \cup LinkOps, pc[h] \in Busy
    PROVE  Current(h)'
<1> DEFINE op     == job[h].op
           status == subscribers[id].status
           j      == [job[h] EXCEPT !.id = id]
<1>1. job[h] \in Job /\ id \in Ids
  BY DEF TypeInv, JobOK, Live
<1>2. CASE \E reply \in Replies : Answer(h, reply)
  BY <1>2, Gone, NothingToHold DEF Answer, Replies, Current
<1>3. CASE ~Refused(op, status) /\ ~AlreadyDone(op, status) /\ Goto(h, next, j)
  <2>1. pc'[h] = next /\ job'[h].id = id /\ job'[h].op = op
    BY <1>1, <1>3, Gone DEF Job
  <2>2. status \in Status
    BY DEF TypeInv, TypeOK, Live, Row
  <2>3. op \in {"confirm", "confirmLink"} => status = "pending"
    BY <1>3, <2>2 DEF Refused, AlreadyDone, Target, ConfirmOps, Status
  <2>4. op \in {"unsubscribe", "unsubscribeLink"} => status \in {"pending", "confirmed"}
    BY <1>3, <2>2 DEF Refused, AlreadyDone, Target, ConfirmOps, Status
  <2> QED BY <2>1, <2>3, <2>4 DEF Current, Live
<1> QED BY <1>2, <1>3 DEF Decide, Replies

LEMMA QuietCurrent ==
    ASSUME TypeInv, NEW h \in Handlers, Current(h), QuietStep(h)
    PROVE  Current(h)'
<1>1. UNCHANGED <<subscribers, issued, notices>>
  BY QuietFrame
<1>2. ASSUME NEW label, NEW j, Goto(h, label, j),
             label \notin {"resubscribe", "loadSite", "write", "notify"}
      PROVE  Current(h)'
  BY <1>2, Gone, NothingToHold DEF Current
<1>3. CASE Arrive(h)
  <2>1. \E label \in Busy \cup Replies : \E j : Goto(h, label, j)
           /\ label \in {"rejected", "find", "delete"}
    BY <1>3 DEF Arrive, Reject, AcceptCreate, AcceptMutation, AcceptLink,
       AcceptAdmin, Accept, Answer, Busy, Replies
  <2> QED BY <1>2, <2>1
<1>4. CASE FindForCreate(h)
  <2>0. pc[h] = "find" /\ job[h].op \in CreateOps
    BY <1>4, Zenon DEF FindForCreate, At
  <2>1. CASE \E label \in {"create", "conflict", "failed"} : \E j : Goto(h, label, j)
    BY <1>2, <2>1
  <2>2. ASSUME NEW id \in ByEmail(job[h]), Reopens(subscribers[id].status), NEW e,
               Goto(h, "resubscribe", [job[h] EXCEPT !.id = id, !.email = e])
        PROVE  Current(h)'
    <3>1. job[h] \in Job /\ id \in Live
      BY <2>0, <2>2 DEF TypeInv, JobOK, Busy, ByEmail
    <3>2. job[h].op \notin {"confirm", "confirmLink", "unsubscribe", "unsubscribeLink"}
      BY <2>0 DEF CreateOps
    <3>3. pc'[h] = "resubscribe" /\ job'[h].id = id /\ job'[h].op = job[h].op
      <4>1. /\ pc'[h] = "resubscribe"
            /\ job'[h] = [job[h] EXCEPT !.id = id, !.email = e]
        BY <2>2, Gone
      <4> QED BY <3>1, <4>1 DEF Job
    <3> QED BY <1>1, <2>2, <3>1, <3>2, <3>3 DEF Current, Live, Reopens
  <2> QED BY <1>4, <2>1, <2>2, Zenon DEF FindForCreate, Duplicate, Answer
<1>5. CASE FindForMutation(h)
  <2>1. CASE \E label \in {"rejected", "failed"} : Goto(h, label, None)
    BY <1>2, <2>1
  <2>2. ASSUME NEW id \in ByEmail(job[h]), Decide(h, id, "write")
        PROVE  Current(h)'
    BY <1>1, <1>5, <2>2, DecideCurrent DEF FindForMutation, At, Busy, ByEmail
  <2> QED BY <1>5, <2>1, <2>2 DEF FindForMutation, Answer
<1>6. CASE FindForLink(h)
  <2>1. CASE Goto(h, "rejected", None)
    BY <1>2, <2>1
  <2>2. ASSUME NEW id \in ById(job[h]), Decide(h, id, "loadSite")
        PROVE  Current(h)'
    BY <1>1, <1>6, <2>2, DecideCurrent DEF FindForLink, At, Busy, ById
  <2> QED BY <1>6, <2>1, <2>2 DEF FindForLink, Answer
<1>7. CASE LoadSiteForLink(h)
  <2>1. PICK found \in BOOLEAN : Goto(h, "write", [job[h] EXCEPT !.known = found])
    BY <1>7 DEF LoadSiteForLink
  <2>2. job[h] \in Job
    BY <1>7 DEF LoadSiteForLink, At, TypeInv, JobOK, Busy
  <2>3. pc[h] = "loadSite" /\ pc'[h] = "write" /\ job'[h].id = job[h].id
        /\ job'[h].op = job[h].op
    BY <1>7, <2>1, <2>2, Gone DEF LoadSiteForLink, At, Job
  <2> QED BY <1>1, <2>3 DEF Current, Live
<1>8. CASE FindForAdmin(h)
  <2>1. CASE Goto(h, "rejected", None)
    BY <1>2, <2>1
  <2>2. CASE ById(job[h]) # {} /\ Goto(h, "write", job[h])
    <3>1. job[h].id \in Live
      BY <2>2 DEF ById
    <3>2. job[h].op \in AdminOps
      BY <1>8 DEF FindForAdmin, At
    <3>3. pc'[h] = "write" /\ job'[h] = job[h]
      BY <2>2, Gone
    <3> QED BY <1>1, <3>1, <3>2, <3>3 DEF Current, Live, AdminOps
  <2> QED BY <1>8, <2>1, <2>2 DEF FindForAdmin, Answer
<1>9. CASE WriteFails(h) \/ InvalidEmail(h) \/ SendConfirmation(h)
  BY <1>2, <1>9 DEF WriteFails, InvalidEmail, SendConfirmation, Answer
<1> QED BY <1>3, <1>4, <1>5, <1>6, <1>7, <1>8, <1>9 DEF QuietStep, Find

-----------------------------------------------------------------------------
(* What a step does to the life of each subscriber.                        *)
LEMMA LifeValues ==
    ASSUME Fresh
    PROVE  /\ \A id \in Live : LifeStatus[id] = subscribers[id].status
           /\ \A id \in Ids \ issued : LifeStatus[id] = "new"
BY DEF Fresh, LifeStatus, Live

LEMMA LifeFrame ==
    ASSUME UNCHANGED <<subscribers, issued>>
    PROVE  LifeStatus' = LifeStatus
BY DEF LifeStatus, Live

LEMMA LifeEdit ==
    ASSUME TypeInv, Fresh, NEW id \in Ids, NEW r \in Row,
           subscribers' = [subscribers EXCEPT ![id] = r],
           issued' = issued \cup {id}
    PROVE  LifeStatus' = [LifeStatus EXCEPT ![id] = r.status]
<1>1. r # None
  BY NoneAssumption
<1>2. \A k \in Ids : LifeStatus'[k] = IF k = id THEN r.status ELSE LifeStatus[k]
  BY <1>1 DEF LifeStatus, Live, TypeInv, TypeOK
<1> QED BY <1>2 DEF LifeStatus

LEMMA LifeDelete ==
    ASSUME TypeInv, Fresh, NEW id \in Live,
           subscribers' = [subscribers EXCEPT ![id] = None],
           issued' = issued
    PROVE  LifeStatus' = [LifeStatus EXCEPT ![id] = "deleted"]
<1>1. id \in Ids /\ id \in issued
  BY DEF Fresh, Live
<1>2. \A k \in Ids : LifeStatus'[k] = IF k = id THEN "deleted" ELSE LifeStatus[k]
  BY <1>1 DEF LifeStatus, Live, TypeInv, TypeOK
<1> QED BY <1>2 DEF LifeStatus

LEMMA DecidingIs ==
    ASSUME NEW h, Handlers = {h}
    PROVE  Deciding = IF At(h, "write", {"adminConfirm"})
                      THEN {id \in Ids : id = job[h].id} ELSE {}
BY DEF Deciding

LEMMA DecidingGone ==
    ASSUME NEW h, Handlers = {h}, pc'[h] # "write" \/ job'[h].op # "adminConfirm"
    PROVE  Deciding' = {}
BY DEF Deciding, At

LifeStep == [Life!Next]_(Life!vars)

(* A quiet step changes at most what the owner is deciding about.          *)
LEMMA QuietLife ==
    ASSUME NEW h, Handlers = {h}, TypeInv, Fresh, Current(h), QuietStep(h)
    PROVE  LifeStep
<1>1. UNCHANGED <<subscribers, issued, notices>> /\ LifeStatus' = LifeStatus
  BY QuietFrame, LifeFrame
<1>2. CASE pc'[h] # "write" \/ job'[h].op # "adminConfirm"
  BY <1>1, <1>2, DecidingGone DEF LifeStep, Life!Next, Life!Leave
<1>3. CASE pc'[h] = "write" /\ job'[h].op = "adminConfirm"
  <2>1. job'[h].id \in Live
    BY <1>1, <1>3, QuietCurrent DEF Current, Live
  <2>2. Deciding' = {job'[h].id}
    BY <1>3, <2>1 DEF Deciding, At, Live
  <2>3. pc[h] # "write"
    <3>1. WriteFails(h) => pc'[h] = "failed"
      BY Gone DEF WriteFails, Answer
    <3>2. InvalidEmail(h) \/ SendConfirmation(h) => pc[h] # "write"
      BY DEF InvalidEmail, SendConfirmation, At
    <3>3. Arrive(h) => pc[h] \in Replies
      BY DEF Arrive, Reject, AcceptCreate, AcceptMutation, AcceptLink, AcceptAdmin, Accept
    <3> QED BY <1>3, <3>1, <3>2, <3>3, FindPlaces DEF QuietStep, Replies
  <2>4. Deciding = {}
    BY <2>3 DEF Deciding, At
  <2>5. job'[h].id \in Life!Listed
    BY <2>1, LifeValues DEF Life!Listed, TypeInv, TypeOK, Live, Row, Status
  <2>6. Life!Open(job'[h].id)
    BY <1>1, <2>2, <2>4, <2>5 DEF Life!Open
  <2> QED BY <2>1, <2>6 DEF LifeStep, Life!Next, Live
<1> QED BY <1>2, <1>3

-----------------------------------------------------------------------------
SerialStep(h) == Current(h)' /\ OncePerConsent' /\ LifeStep

LEMMA QuietSerial ==
    ASSUME NEW h, Handlers = {h}, SInv(h), QuietStep(h)
    PROVE  SerialStep(h)
BY QuietFrame, QuietOnce, QuietCurrent, QuietLife DEF SInv, IInv, SerialStep

(* Away from the owner's decision a step leaves the decision alone.        *)
LEMMA NotDeciding ==
    ASSUME NEW h, Handlers = {h}, ~At(h, "write", {"adminConfirm"}), pc'[h] # "write"
    PROVE  Deciding = {} /\ Deciding' = {}
BY DEF Deciding, At

LEMMA RowFacts ==
    ASSUME TypeInv, NEW id \in Live
    PROVE  /\ id \in Ids
           /\ subscribers[id] \in Row
           /\ subscribers[id].status \in Status
BY DEF TypeInv, TypeOK, Live, Row

LEMMA CreateSerial ==
    ASSUME NEW h, Handlers = {h}, SInv(h), Create(h)
    PROVE  SerialStep(h)
<1>1. TypeInv /\ Fresh /\ OncePerConsent
  BY DEF SInv, IInv
<1>2. PICK id \in FreshIds :
         /\ subscribers' = [subscribers EXCEPT ![id] = NewSubscriber(job[h])]
         /\ issued' = issued \cup {id}
         /\ notices' = [notices EXCEPT ![id] = 0]
         /\ Goto(h, "mail", [job[h] EXCEPT !.id = id, !.email = Lower[@]])
  BY Zenon DEF Create
<1>3. pc[h] = "create" /\ pc'[h] = "mail"
  BY <1>1, <1>2, Gone DEF Create, At
<1>4. NewSubscriber(job[h]) \in Row /\ NewSubscriber(job[h]).status = "pending"
  <2>1. job[h] \in Job /\ job[h].email \in RawEmails
    BY <1>1, <1>3 DEF TypeInv, JobOK, Busy
  <2> QED BY <2>1, LowerFacts DEF NewSubscriber, Row, Status, Job
<1>5. id \in Ids \ issued
  BY <1>2 DEF FreshIds
<1>6. Current(h)'
  BY <1>3, NothingToHold DEF Current
<1>7. OncePerConsent'
  <2>1. \A k \in Ids \ {id} : subscribers'[k] = subscribers[k] /\ notices'[k] = notices[k]
    BY <1>1, <1>2 DEF TypeInv, TypeOK
  <2>2. notices'[id] = 0
    BY <1>1, <1>2, <1>5 DEF TypeInv, TypeOK
  <2> QED BY <1>1, <2>1, <2>2 DEF OncePerConsent, Live
<1>8. Life!Submit(id)
  <2>1. LifeStatus' = [LifeStatus EXCEPT ![id] = "pending"]
    BY <1>1, <1>2, <1>4, <1>5, LifeEdit
  <2>2. LifeStatus[id] = "new"
    BY <1>1, <1>5, LifeValues
  <2>3. Deciding = {} /\ Deciding' = {}
    BY <1>3, NotDeciding DEF At
  <2> QED BY <1>2, <2>1, <2>2, <2>3 DEF Life!Submit, Life!Becomes
<1> QED BY <1>5, <1>6, <1>7, <1>8 DEF SerialStep, LifeStep, Life!Next

(* An UPDATE of the row that the handler holds.                            *)
LEMMA UpdateSerial ==
    ASSUME NEW h, Handlers = {h}, SInv(h), NEW r \in Row,
           NEW id \in Live, Update(id, r), UNCHANGED issued
    PROVE  /\ subscribers'[id] = r /\ id \in Live'
           /\ \A k \in Ids \ {id} : subscribers'[k] = subscribers[k]
           /\ LifeStatus' = [LifeStatus EXCEPT ![id] = r.status]
           /\ LifeStatus[id] = subscribers[id].status
           /\ id \in Life!Listed
<1>1. TypeInv /\ Fresh
  BY DEF SInv, IInv
<1>2. subscribers' = [subscribers EXCEPT ![id] = r] /\ id \in issued /\ id \in Ids
  BY <1>1 DEF Update, Live, Fresh
<1>3. LifeStatus' = [LifeStatus EXCEPT ![id] = r.status]
  BY <1>1, <1>2, LifeEdit
<1>4. subscribers'[id] = r /\ \A k \in Ids \ {id} : subscribers'[k] = subscribers[k]
  BY <1>1, <1>2 DEF TypeInv, TypeOK
<1>5. LifeStatus[id] = subscribers[id].status /\ id \in Life!Listed
  BY <1>1, <1>2, LifeValues, RowFacts DEF Life!Listed, Status
<1> QED BY <1>2, <1>3, <1>4, <1>5, NoneAssumption DEF Live

LEMMA ResubscribeSerial ==
    ASSUME NEW h, Handlers = {h}, SInv(h), Resubscribe(h)
    PROVE  SerialStep(h)
<1> DEFINE id == job[h].id
           r  == Reopened(subscribers[id])
<1>1. TypeInv /\ Fresh /\ OncePerConsent
  BY DEF SInv, IInv
<1>2. pc[h] = "resubscribe" /\ pc'[h] = "mail"
  BY <1>1, Gone DEF Resubscribe, At
<1>3. id \in Live /\ subscribers[id].status = "unsubscribed"
  BY <1>2 DEF SInv, Current
<1>4. r \in Row /\ r.status = "pending"
  <2>1. subscribers[id] \in Row
    BY <1>1, <1>3, RowFacts
  <2>2. r \in Row
    BY <2>1, UpdatesKeepRow
  <2>3. r.status = "pending"
    BY <2>1 DEF Reopened, Row
  <2> QED BY <2>2, <2>3
<1>5. /\ \A k \in Ids \ {id} : subscribers'[k] = subscribers[k]
      /\ LifeStatus' = [LifeStatus EXCEPT ![id] = "pending"]
      /\ LifeStatus[id] = "unsubscribed"
  BY <1>3, <1>4, UpdateSerial DEF Resubscribe
<1>6. /\ notices' = [notices EXCEPT ![id] = 0] /\ id \in Ids
      /\ notices'[id] = 0 /\ \A k \in Ids \ {id} : notices'[k] = notices[k]
  BY <1>1, <1>3 DEF Resubscribe, Live, TypeInv, TypeOK
<1>7. Current(h)'
  BY <1>2, NothingToHold DEF Current
<1>8. OncePerConsent'
  BY <1>1, <1>5, <1>6 DEF OncePerConsent, Live
<1>9. Life!Submit(id)
  BY <1>2, <1>5, <1>6, NotDeciding DEF Life!Submit, Life!Becomes, At
<1> QED BY <1>6, <1>7, <1>8, <1>9 DEF SerialStep, LifeStep, Life!Next

LEMMA WriteConfirmedSerial ==
    ASSUME NEW h, Handlers = {h}, SInv(h), WriteConfirmed(h)
    PROVE  SerialStep(h) /\ (job[h].op = "adminConfirm" => pc'[h] = "ok")
<1> DEFINE id == job[h].id
           r  == Confirmed(subscribers[id])
<1>1. TypeInv /\ Fresh /\ OncePerConsent
  BY DEF SInv, IInv
<1>2. pc[h] = "write" /\ job[h].op \in ConfirmOps
  BY DEF WriteConfirmed, At
<1>3. id \in Live
  BY <1>2 DEF SInv, Current
<1>4. r \in Row /\ r.status = "confirmed"
  <2>1. subscribers[id] \in Row
    BY <1>1, <1>3, RowFacts
  <2>2. r \in Row
    BY <2>1, UpdatesKeepRow
  <2>3. r.status = "confirmed"
    BY <2>1 DEF Confirmed, Row
  <2> QED BY <2>2, <2>3
<1>5. /\ subscribers'[id] = r /\ id \in Live'
      /\ \A k \in Ids \ {id} : subscribers'[k] = subscribers[k]
      /\ LifeStatus' = [LifeStatus EXCEPT ![id] = "confirmed"]
      /\ LifeStatus[id] = subscribers[id].status
      /\ id \in Life!Listed
  BY <1>3, <1>4, UpdateSerial DEF WriteConfirmed
<1>6. id \in Ids /\ notices' = notices
  BY <1>3 DEF Live, WriteConfirmed, world
<1>7. OncePerConsent'
  BY <1>1, <1>4, <1>5, <1>6 DEF OncePerConsent, Live
<1>8. CASE job[h].op = "adminConfirm"
  <2>1. pc'[h] = "ok"
    <3>1. Answer(h, "ok")
      BY <1>8 DEF WriteConfirmed
    <3> QED BY <1>1, <3>1, Gone DEF Answer
  <2>2. Current(h)'
    BY <2>1, NothingToHold DEF Current
  <2>3. Deciding = {id} /\ Deciding' = {}
    BY <1>2, <1>6, <1>8, <2>1 DEF Deciding, At
  <2>4. Life!Decide(id)
    BY <1>5, <1>6, <2>3 DEF Life!Decide, Life!Becomes
  <2> QED BY <1>6, <1>7, <2>1, <2>2, <2>4 DEF SerialStep, LifeStep, Life!Next
<1>9. CASE job[h].op # "adminConfirm"
  <2>1. subscribers[id].status = "pending"
    BY <1>2, <1>9 DEF SInv, Current, ConfirmOps
  <2>2. notices[id] = 0
    BY <1>1, <1>3, <1>6, <2>1 DEF OncePerConsent
  <2>3. pc'[h] = "ok" \/ (pc'[h] = "notify" /\ job'[h] = job[h])
    <3>1. Answer(h, "ok") \/ Goto(h, "notify", job[h])
      BY DEF WriteConfirmed
    <3>2. Answer(h, "ok") => pc'[h] = "ok"
      BY <1>1, Gone DEF Answer
    <3>3. Goto(h, "notify", job[h]) => pc'[h] = "notify" /\ job'[h] = job[h]
      BY <1>1, Gone
    <3> QED BY <3>1, <3>2, <3>3
  <2>4. Current(h)'
    BY <1>4, <1>5, <1>6, <2>2, <2>3 DEF Current
  <2>5. Life!Confirm(id)
    BY <1>5, <1>6, <1>9, <2>1, <2>3, NotDeciding DEF Life!Confirm, Life!Becomes, At
  <2> QED BY <1>6, <1>7, <1>9, <2>4, <2>5 DEF SerialStep, LifeStep, Life!Next
<1> QED BY <1>8, <1>9

LEMMA WriteUnsubscribedSerial ==
    ASSUME NEW h, Handlers = {h}, SInv(h), WriteUnsubscribed(h)
    PROVE  SerialStep(h)
<1> DEFINE id == job[h].id
           r  == Unsubscribed(subscribers[id])
<1>1. TypeInv /\ Fresh /\ OncePerConsent
  BY DEF SInv, IInv
<1>2. pc[h] = "write" /\ job[h].op \notin ConfirmOps /\ pc'[h] = "ok"
  BY <1>1, Gone DEF WriteUnsubscribed, At, Answer
<1>3. id \in Live
  BY <1>2 DEF SInv, Current
<1>4. r \in Row /\ r.status = "unsubscribed"
  <2>1. subscribers[id] \in Row
    BY <1>1, <1>3, RowFacts
  <2>2. r \in Row
    BY <2>1, UpdatesKeepRow
  <2>3. r.status = "unsubscribed"
    BY <2>1 DEF Unsubscribed, Row
  <2> QED BY <2>2, <2>3
<1>5. /\ subscribers'[id] = r
      /\ \A k \in Ids \ {id} : subscribers'[k] = subscribers[k]
      /\ LifeStatus' = [LifeStatus EXCEPT ![id] = "unsubscribed"]
      /\ LifeStatus[id] = subscribers[id].status
      /\ subscribers[id].status \in Status
  BY <1>1, <1>3, <1>4, UpdateSerial, RowFacts DEF WriteUnsubscribed
<1>6. id \in Ids /\ notices' = notices
  BY <1>3 DEF Live, WriteUnsubscribed, world
<1>7. Current(h)'
  BY <1>2, NothingToHold DEF Current
<1>8. OncePerConsent'
  BY <1>1, <1>4, <1>5, <1>6 DEF OncePerConsent, Live
<1>9. Deciding = {} /\ Deciding' = {}
  BY <1>2, NotDeciding DEF At, ConfirmOps
<1>10. CASE subscribers[id].status = "unsubscribed"
  <2>1. LifeStatus' = LifeStatus
    BY <1>5, <1>6, <1>10 DEF LifeStatus
  <2> QED BY <1>6, <1>7, <1>8, <1>9, <2>1 DEF SerialStep, LifeStep, Life!vars
<1>11. CASE subscribers[id].status # "unsubscribed"
  <2>1. Life!Unsubscribe(id)
    BY <1>5, <1>6, <1>9, <1>11 DEF Life!Unsubscribe, Life!Becomes, Status
  <2> QED BY <1>6, <1>7, <1>8, <2>1 DEF SerialStep, LifeStep, Life!Next
<1> QED BY <1>10, <1>11

LEMMA DeleteSerial ==
    ASSUME NEW h, Handlers = {h}, SInv(h), DeleteSubscriber(h)
    PROVE  SerialStep(h)
<1> DEFINE id == job[h].id
<1>1. TypeInv /\ Fresh /\ OncePerConsent
  BY DEF SInv, IInv
<1>2. pc[h] = "delete" /\ pc'[h] \in {"rejected", "ok"}
  BY <1>1, Gone DEF DeleteSubscriber, At, Answer
<1>3. UNCHANGED <<issued, notices>>
  BY DEF DeleteSubscriber, world
<1>4. \A k \in Ids : subscribers'[k] = IF k \in ById(job[h]) THEN None ELSE subscribers[k]
  BY DEF DeleteSubscriber
<1>5. Current(h)'
  BY <1>2, NothingToHold DEF Current
<1>6. OncePerConsent'
  BY <1>1, <1>3, <1>4 DEF OncePerConsent, Live
<1>7. Deciding = {} /\ Deciding' = {}
  BY <1>2, NotDeciding DEF At
<1>8. CASE ById(job[h]) = {}
  <2>1. subscribers' = subscribers
    BY <1>1, <1>8 DEF DeleteSubscriber, TypeInv, TypeOK
  <2>2. LifeStatus' = LifeStatus
    BY <1>3, <2>1, LifeFrame
  <2> QED BY <1>3, <1>5, <1>6, <1>7, <2>2 DEF SerialStep, LifeStep, Life!vars
<1>9. CASE ById(job[h]) # {}
  <2>1. ById(job[h]) = {id} /\ id \in Live /\ id \in Ids
    BY <1>9 DEF ById, Live
  <2>2. subscribers' = [subscribers EXCEPT ![id] = None]
    BY <1>1, <2>1 DEF DeleteSubscriber, TypeInv, TypeOK
  <2>3. LifeStatus' = [LifeStatus EXCEPT ![id] = "deleted"]
    BY <1>1, <1>3, <2>1, <2>2, LifeDelete
  <2>4. id \in Life!Listed
    BY <1>1, <2>1, LifeValues, RowFacts DEF Life!Listed, Status
  <2>5. Life!Delete(id)
    BY <1>3, <1>7, <2>3, <2>4 DEF Life!Delete, Life!Becomes
  <2> QED BY <1>5, <1>6, <2>1, <2>5 DEF SerialStep, LifeStep, Life!Next
<1> QED BY <1>8, <1>9

LEMMA NotifySerial ==
    ASSUME NEW h, Handlers = {h}, SInv(h), NotifyOwner(h)
    PROVE  SerialStep(h)
<1> DEFINE id == job[h].id
<1>1. TypeInv /\ Fresh /\ OncePerConsent
  BY DEF SInv, IInv
<1>2. pc[h] = "notify" /\ pc'[h] = "ok"
  BY <1>1, Gone DEF NotifyOwner, At, Answer
<1>3. id \in Live /\ id \in Ids /\ subscribers[id].status = "confirmed" /\ notices[id] = 0
  BY <1>2 DEF SInv, Current, Live
<1>4. UNCHANGED <<subscribers, issued>>
  BY DEF NotifyOwner, tables
<1>5. notices' = notices \/ notices' = [notices EXCEPT ![id] = 1]
  <2>1. PICK delivered \in BOOLEAN :
           notices' = [notices EXCEPT ![id] = IF delivered /\ @ < 2 THEN @ + 1 ELSE @]
    BY DEF NotifyOwner, NoticeOutcomes, Delivered
  <2>2. CASE delivered
    BY <1>3, <2>1, <2>2
  <2>3. CASE ~delivered
    BY <1>1, <1>3, <2>1, <2>3 DEF TypeInv, TypeOK
  <2> QED BY <2>2, <2>3
<1>6. LifeStatus' = LifeStatus /\ LifeStatus[id] = "confirmed"
  BY <1>1, <1>3, <1>4, LifeFrame, LifeValues
<1>7. Current(h)'
  BY <1>2, NothingToHold DEF Current
<1>8. OncePerConsent'
  BY <1>1, <1>3, <1>4, <1>5 DEF OncePerConsent, Live, TypeInv, TypeOK
<1>9. Deciding = {} /\ Deciding' = {}
  BY <1>2, NotDeciding DEF At
<1>10. LifeStep
  <2>1. CASE notices' = notices
    BY <1>6, <1>9, <2>1 DEF LifeStep, Life!vars
  <2>2. CASE notices' = [notices EXCEPT ![id] = 1]
    BY <1>3, <1>6, <1>9, <2>2 DEF LifeStep, Life!Next, Life!Tell
  <2> QED BY <1>5, <2>1, <2>2
<1> QED BY <1>7, <1>8, <1>10 DEF SerialStep

(* The world around the handlers.                                          *)
LEMMA WorldSerial ==
    ASSUME NEW h, Handlers = {h}, SInv(h),
           (\E s \in Sites : DeleteSite(s)) \/ Crash \/ Tick \/ UNCHANGED vars
    PROVE  SerialStep(h) /\ UNCHANGED <<subscribers, issued>>
<1>1. UNCHANGED <<subscribers, issued, notices>>
  BY DEF DeleteSite, Crash, Tick, world, tables, vars
<1>2. OncePerConsent' /\ LifeStatus' = LifeStatus
  BY <1>1, QuietOnce, LifeFrame DEF SInv
<1>3. CASE Crash
  <2>1. pc'[h] = "idle"
    BY <1>3 DEF Crash
  <2>2. Current(h)' /\ Deciding' = {}
    BY <2>1, NothingToHold DEF Current, Deciding, At
  <2> QED BY <1>1, <1>2, <2>2 DEF SerialStep, LifeStep, Life!Next, Life!Leave
<1>4. CASE UNCHANGED <<pc, job>>
  <2>1. Current(h)' /\ Deciding' = Deciding
    BY <1>1, <1>4 DEF SInv, Current, Live, Deciding, At
  <2> QED BY <1>1, <1>2, <2>1 DEF SerialStep, LifeStep, Life!vars
<1>5. (\E s \in Sites : DeleteSite(s)) \/ Tick \/ UNCHANGED vars => UNCHANGED <<pc, job>>
  BY DEF DeleteSite, Tick, vars
<1> QED BY <1>1, <1>3, <1>4, <1>5

LEMMA SerialSteps ==
    ASSUME NEW h, Handlers = {h}, SInv(h), [Next]_vars
    PROVE  SerialStep(h)
BY QuietSerial, CreateSerial, ResubscribeSerial, WriteConfirmedSerial,
   WriteUnsubscribedSerial, DeleteSerial, NotifySerial, WorldSerial
   DEF Next, Write, Call, QuietStep

LEMMA SerialInvariance ==
    ASSUME NEW h, Handlers = {h}
    PROVE  Spec => []SInv(h)
<1>1. Init => SInv(h)
  <2> SUFFICES ASSUME Init PROVE SInv(h)
    OBVIOUS
  <2>1. IInv
    BY Inductive
  <2>2. Current(h) /\ OncePerConsent
    BY DEF Init, Current, OncePerConsent, Live
  <2> QED BY <2>1, <2>2 DEF SInv
<1>2. SInv(h) /\ [Next]_vars => SInv(h)'
  <2> SUFFICES ASSUME SInv(h), [Next]_vars PROVE SInv(h)'
    OBVIOUS
  <2>1. IInv'
    BY Inductive DEF SInv
  <2> QED BY <2>1, SerialSteps DEF SInv, SerialStep
<1> QED BY <1>1, <1>2, PTL DEF Spec

(* When requests do not overlap, the owner is told at most once of each    *)
(* consent.                                                                *)
THEOREM OneNotice ==
    ASSUME NEW h, Handlers = {h}
    PROVE  Spec => []OneNoticePerConsent
<1>1. SInv(h) => OneNoticePerConsent
  BY DEF SInv, OncePerConsent, OneNoticePerConsent
<1> QED BY <1>1, SerialInvariance, PTL

(* When requests do not overlap, every behaviour of the store leads each   *)
(* subscriber through the life that SubscriberLife allows.                 *)
THEOREM LifeImplemented ==
    ASSUME NEW h, Handlers = {h}
    PROVE  Spec => ImplementsSubscriberLife
<1>1. Init => Life!Init
  <2> SUFFICES ASSUME Init PROVE Life!Init
    OBVIOUS
  <2>1. LifeStatus = [id \in Ids |-> "new"]
    BY DEF Init, LifeStatus
  <2>2. Deciding = {}
    BY DEF Init, Deciding, At
  <2> QED BY <2>1, <2>2 DEF Init, Life!Init
<1>2. SInv(h) /\ [Next]_vars => [Life!Next]_(Life!vars)
  BY SerialSteps DEF SerialStep, LifeStep
<1> QED BY <1>1, <1>2, SerialInvariance, PTL DEF Spec, ImplementsSubscriberLife, Life!Spec

(* When requests do not overlap, who unsubscribed is confirmed again by    *)
(* nobody but the owner.                                                   *)
THEOREM UnsubscribedStays ==
    ASSUME NEW h, Handlers = {h}
    PROVE  Spec => NoConfirmAfterUnsubscribe
<1> DEFINE Reconfirmed(id) == /\ StatusOf(subscribers, id) = "unsubscribed"
                              /\ StatusOf(subscribers', id) = "confirmed"
<1>1. ASSUME SInv(h), [Next]_vars, NEW id \in Ids, Reconfirmed(id)
      PROVE  OwnerConfirms(id)
  <2>1. TypeInv /\ Fresh /\ id \in Live /\ id \in Live'
    BY <1>1 DEF SInv, IInv, StatusOf, Live
  <2>2. LifeStatus[id] = "unsubscribed"
    BY <1>1, <2>1, LifeValues DEF StatusOf, Live
  <2>3. LifeStatus'[id] = "confirmed"
    <3>1. Fresh'
      BY <1>1, Inductive DEF SInv, IInv
    <3> QED BY <1>1, <2>1, <3>1 DEF LifeStatus, StatusOf, Fresh, Live
  <2>4. id \in Deciding
    <3>1. LifeStep
      BY <1>1, SerialSteps DEF SerialStep
    <3> QED
      BY <2>2, <2>3, <3>1 DEF LifeStep, Life!Next, Life!vars, Life!Submit, Life!Confirm,
         Life!Tell, Life!Unsubscribe, Life!Delete, Life!Open, Life!Decide, Life!Leave,
         Life!Becomes, LifeStatus
  <2>5. At(h, "write", {"adminConfirm"}) /\ job[h].id = id
    BY <2>4 DEF Deciding
  <2>6. subscribers' # subscribers
    BY <1>1 DEF StatusOf
  <2>7. WriteConfirmed(h)
    <3>1. ~QuietStep(h)
      BY <2>6, QuietFrame
    <3>2. ~Create(h) /\ ~Resubscribe(h) /\ ~WriteUnsubscribed(h) /\ ~DeleteSubscriber(h)
          /\ ~NotifyOwner(h)
      BY <2>5 DEF Create, Resubscribe, WriteUnsubscribed, DeleteSubscriber, NotifyOwner,
         At, ConfirmOps
    <3> QED
      BY <1>1, <2>6, <3>1, <3>2, WorldSerial DEF Next, Write, Call, QuietStep
  <2> QED BY <1>1, <2>5, <2>7, WriteConfirmedSerial DEF At, OwnerConfirms
<1> HIDE DEF Reconfirmed
<1>2. SInv(h) /\ [Next]_vars =>
        [\A id \in Ids :
            StatusOf(subscribers, id) = "unsubscribed"
               /\ StatusOf(subscribers', id) = "confirmed"
            => OwnerConfirms(id)]_vars
  BY <1>1 DEF Reconfirmed, OwnerConfirms
<1>3. Spec => []SInv(h)
  BY SerialInvariance, PTL
<1> QED BY <1>2, <1>3, PTL DEF Spec, NoConfirmAfterUnsubscribe

=============================================================================
