---------------------------- MODULE Subscriptions ----------------------------
(***************************************************************************)
(* The subscriber life cycle of LoopAware: double opt-in subscription,     *)
(* confirmation, unsubscription and administration of the rows of table    *)
(* `subscribers`.                                                          *)
(*                                                                         *)
(* Every request is served by a goroutine (a handler) that runs a fixed    *)
(* sequence of SQL statements and gRPC calls.  No handler opens a          *)
(* transaction around its read and its later write, so the statements of   *)
(* concurrent requests interleave: one action of this module is one        *)
(* statement or call, with the local computation up to the next one.  A    *)
(* statement is atomic by itself.                                          *)
(***************************************************************************)
EXTENDS Integers, FiniteSets

CONSTANTS
    Handlers,        \* request goroutines that may run at the same time
    Sites,           \* identifiers of the sites that exist at the beginning
    Ids,             \* subscriber identifiers uuid.NewString can return
    RawEmails,       \* addresses as typed into the form
    Lower,           \* strings.ToLower(strings.TrimSpace(_)) on RawEmails
    TTL,             \* lifetime of a confirmation token, in clock units
    MaxClock,        \* bound on the clock of a run
    MailOn,          \* sender, PUBLIC_BASE_URL and SESSION_SECRET all present
    NotificationsOn, \* subscription notifications enabled, notifier present
    None             \* no row, no identifier, no address, no request

Emails == {Lower[e] : e \in RawEmails}

Status == {"pending", "confirmed", "unsubscribed"}

(* A row of `subscribers`.  Of the two time stamps only zero (FALSE) and   *)
(* non-zero (TRUE) are told apart.                                         *)
Row == [site : Sites, email : Emails, status : Status,
        confirmedAt : BOOLEAN, unsubscribedAt : BOOLEAN]

(* The signed payload of a confirmation token.                             *)
Token == [id : Ids, site : Sites, email : Emails, exp : Nat]

CreateOps == {"subscribe", "testSubscribe"}
MutateOps == {"confirm", "unsubscribe"}
LinkOps   == {"confirmLink", "unsubscribeLink"}
AdminOps  == {"adminConfirm", "adminUnsubscribe"}
Ops       == CreateOps \cup MutateOps \cup LinkOps \cup AdminOps \cup {"adminDelete"}

ConfirmOps == {"confirm", "confirmLink", "adminConfirm"}

(* What a handler keeps in local variables between two statements: the     *)
(* payload it was sent, the identifier of the row it loaded, and whether   *)
(* the site it loaded is a real one (`known`) or the empty model.Site{}.   *)
Job == [op : Ops, site : Sites, email : RawEmails \cup {None},
        id : Ids \cup {None}, known : BOOLEAN]

Busy    == {"find", "loadSite", "create", "resubscribe", "write", "mail",
            "notify", "delete"}
Replies == {"idle", "rejected", "conflict", "failed", "ok"}

EventTypes == {"submission", "confirmation", "notification"}
Outcomes   == {"none", "ok", "error", "skipped"}
Nothing    == [type \in EventTypes |-> "none"]

ASSUME LowerAssumption ==
    /\ Lower \in [RawEmails -> RawEmails]
    /\ \A e \in RawEmails : Lower[Lower[e]] = Lower[e]

ASSUME NoneAssumption == None \notin Row \cup Ids \cup RawEmails \cup Job

ASSUME ParameterAssumption ==
    /\ TTL \in Nat \ {0}
    /\ MaxClock \in Nat
    /\ MailOn \in BOOLEAN
    /\ NotificationsOn \in BOOLEAN

VARIABLES
    sites,        \* rows of table `sites`
    subscribers,  \* table `subscribers`, by primary key
    issued,       \* identifiers ever inserted (a uuid is never drawn twice)
    mailed,       \* tokens in e-mails that Pinguin sent
    clock,
    pc,           \* next statement of each handler, or its last reply
    job,          \* local variables of each handler
    shown,        \* test-panel events broadcast by the handler's request
    notices       \* owner notifications sent since the row's last consent

vars == <<sites, subscribers, issued, mailed, clock, pc, job, shown, notices>>

-----------------------------------------------------------------------------
Init ==
    /\ sites = Sites
    /\ subscribers = [id \in Ids |-> None]
    /\ issued = {}
    /\ mailed = {}
    /\ clock = 0
    /\ pc = [h \in Handlers |-> "idle"]
    /\ job = [h \in Handlers |-> None]
    /\ shown = [h \in Handlers |-> Nothing]
    /\ notices = [id \in Ids |-> 0]

Goto(h, label, j) ==
    /\ pc' = [pc EXCEPT ![h] = label]
    /\ job' = [job EXCEPT ![h] = j]

Answer(h, reply) == Goto(h, reply, None)

(* recordSubscriptionTestEvent: broadcast to the subscribe-test panel.     *)
Show(h, type, outcome) == shown' = [shown EXCEPT ![h][type] = outcome]

tables == <<sites, subscribers, issued>>
world  == <<mailed, clock, notices>>

-----------------------------------------------------------------------------
(* Arrival of a request, up to the first read of table `subscribers`.  The *)
(* early returns that depend only on the request itself (rate limit, JSON, *)
(* missing fields, origin, session) are the choice to reject it.           *)

Reject(h) ==
    /\ pc[h] \in Replies
    /\ Answer(h, "rejected")
    /\ shown' = [shown EXCEPT ![h] = Nothing]
    /\ UNCHANGED <<tables, world>>

Accept(h, label, j) ==
    /\ pc[h] \in Replies
    /\ Goto(h, label, j)
    /\ shown' = [shown EXCEPT ![h] = Nothing]
    /\ UNCHANGED <<tables, world>>

(* POST /public/subscriptions and the dashboard's subscribe test.          *)
AcceptCreate(h) ==
    \E op \in CreateOps, s \in sites, e \in RawEmails :
        Accept(h, "find", [op |-> op, site |-> s, email |-> e,
                           id |-> None, known |-> TRUE])

(* POST /public/subscriptions/confirm and .../unsubscribe.                 *)
AcceptMutation(h) ==
    \E op \in MutateOps, s \in sites, e \in RawEmails :
        Accept(h, "find", [op |-> op, site |-> s, email |-> Lower[e],
                           id |-> None, known |-> TRUE])

Expired(t) == clock > t.exp

(* The confirm and unsubscribe links: the token is parsed, the site is not *)
(* looked up yet.                                                          *)
AcceptLink(h) ==
    \E op \in LinkOps, t \in mailed :
        /\ ~Expired(t)
        /\ Accept(h, "find", [op |-> op, site |-> t.site, email |-> t.email,
                              id |-> t.id, known |-> FALSE])

(* PATCH and DELETE of a subscriber, after resolveAuthorizedSite.          *)
AcceptAdmin(h) ==
    \E s \in sites, id \in Ids :
        \/ \E op \in AdminOps :
              Accept(h, "find", [op |-> op, site |-> s, email |-> None,
                                 id |-> id, known |-> TRUE])
        \/ Accept(h, "delete", [op |-> "adminDelete", site |-> s,
                                email |-> None, id |-> id, known |-> TRUE])

-----------------------------------------------------------------------------
(* First read of table `subscribers`.                                      *)

At(h, label, ops) == pc[h] = label /\ job[h].op \in ops

Live == {id \in Ids : subscribers[id] # None}

(* findSubscriber: WHERE site_id = ? AND email = ?                         *)
ByEmail(j) == {id \in Live : /\ subscribers[id].site = j.site
                             /\ subscribers[id].email = Lower[j.email]}

(* WHERE id = ? AND site_id = ?                                            *)
ById(j) == {id \in Live : id = j.id /\ subscribers[id].site = j.site}

(* CreateSubscription looks for an earlier row of the address: an          *)
(* unsubscribed one is reopened, any other is a duplicate.                 *)
ReopensConfirmed(status) == status # "pending"  \* faulty variant
Reopens(status) == status = "unsubscribed"

SilentDuplicate(h) == Answer(h, "conflict") /\ UNCHANGED shown  \* faulty variant
Duplicate(h) == Answer(h, "conflict") /\ Show(h, "submission", "error")

FindForCreate(h) ==
    /\ At(h, "find", CreateOps)
    /\ LET found == ByEmail(job[h]) IN
       \/ found = {} /\ Goto(h, "create", job[h]) /\ UNCHANGED shown
       \/ \E id \in found :
             /\ Reopens(subscribers[id].status)
             /\ Goto(h, "resubscribe",
                     [job[h] EXCEPT !.id = id, !.email = subscribers[id].email])
             /\ UNCHANGED shown
       \/ \E id \in found :
             /\ ~Reopens(subscribers[id].status)
             /\ Duplicate(h)
       \/ Answer(h, "failed") /\ UNCHANGED shown
    /\ UNCHANGED <<tables, world>>

(* What the row's status makes of a confirm or unsubscribe request: a      *)
(* public confirm of an unsubscribed row conflicts, a row already in the   *)
(* wanted status is left alone.                                            *)
Target(op) == IF op \in ConfirmOps THEN "confirmed" ELSE "unsubscribed"

RefusesNothing(op, status) == FALSE  \* faulty variant
Refused(op, status) == op \in ConfirmOps /\ status = "unsubscribed"

RepeatsAll(op, status) == FALSE  \* faulty variant
AlreadyDone(op, status) == status = Target(op)

Decide(h, id, next) ==
    LET status == subscribers[id].status
        op     == job[h].op
    IN  \/ Refused(op, status) /\ Answer(h, "conflict")
        \/ ~Refused(op, status) /\ AlreadyDone(op, status) /\ Answer(h, "ok")
        \/ /\ ~Refused(op, status) /\ ~AlreadyDone(op, status)
           /\ Goto(h, next, [job[h] EXCEPT !.id = id])

FindForMutation(h) ==
    /\ At(h, "find", MutateOps)
    /\ \/ ByEmail(job[h]) = {} /\ Answer(h, "rejected")
       \/ \E id \in ByEmail(job[h]) : Decide(h, id, "write")
       \/ Answer(h, "failed")
    /\ UNCHANGED <<tables, world, shown>>

(* The link handlers also compare the row's address with the token's; a    *)
(* failed query is answered like an unknown row.                           *)
FindForLink(h) ==
    /\ At(h, "find", LinkOps)
    /\ LET found == {id \in ById(job[h]) : subscribers[id].email = job[h].email} IN
       \/ Answer(h, "rejected")
       \/ \E id \in found : Decide(h, id, "loadSite")
    /\ UNCHANGED <<tables, world, shown>>

(* A site that is gone by now, or cannot be loaded, is replaced by the     *)
(* empty model.Site{}.                                                     *)
NeedsSiteForLink(h) ==  \* faulty variant: a link of a deleted site is refused
    /\ At(h, "loadSite", LinkOps)
    /\ IF job[h].site \in sites
       THEN Goto(h, "write", [job[h] EXCEPT !.known = TRUE])
       ELSE Answer(h, "rejected")
    /\ UNCHANGED <<tables, world, shown>>
LoadSiteForLink(h) ==
    /\ At(h, "loadSite", LinkOps)
    /\ \E found \in BOOLEAN :
          /\ found => job[h].site \in sites
          /\ Goto(h, "write", [job[h] EXCEPT !.known = found])
    /\ UNCHANGED <<tables, world, shown>>

(* UpdateSubscriberStatus writes whatever the row's status is; a failed    *)
(* query is a 404.                                                         *)
FindForAdmin(h) ==
    /\ At(h, "find", AdminOps)
    /\ \/ Answer(h, "rejected")
       \/ ById(job[h]) # {} /\ Goto(h, "write", job[h])
    /\ UNCHANGED <<tables, world, shown>>

-----------------------------------------------------------------------------
(* Writes.  gorm's Model(&row).Updates(map) is UPDATE ... WHERE id = ?: it *)
(* sets only the named columns, and matching no row is not an error.       *)

Update(id, row) ==
    subscribers' = IF subscribers[id] = None THEN subscribers
                   ELSE [subscribers EXCEPT ![id] = row]

StaleStamp(r) == [r EXCEPT !.status = "confirmed", !.confirmedAt = TRUE]  \* faulty variant
Confirmed(r)    == [r EXCEPT !.status = "confirmed", !.confirmedAt = TRUE,
                             !.unsubscribedAt = FALSE]
Unsubscribed(r) == [r EXCEPT !.status = "unsubscribed", !.unsubscribedAt = TRUE]
Reopened(r)     == [r EXCEPT !.status = "pending", !.confirmedAt = FALSE,
                             !.unsubscribedAt = FALSE]

(* model.NewSubscriber: the address is stored in lower case.               *)
AsTyped(j) == [site |-> j.site, email |-> j.email,  \* faulty variant
               status |-> "pending", confirmedAt |-> FALSE,
               unsubscribedAt |-> FALSE]
NewSubscriber(j) == [site |-> j.site, email |-> Lower[j.email],
                     status |-> "pending", confirmedAt |-> FALSE,
                     unsubscribedAt |-> FALSE]

(* Unique index idx_subscribers_site_email.                                *)
NoIndex(r) == TRUE  \* faulty variant
IndexAllows(r) == \A id \in Live : \/ subscribers[id].site # r.site
                                   \/ subscribers[id].email # r.email

(* A UUID, unlike a row number, is not drawn again after a DELETE.         *)
ReusedIds == Ids \ Live  \* faulty variant
FreshIds  == Ids \ issued

WriteFails(h) ==
    /\ pc[h] \in {"create", "resubscribe", "write", "delete"}
    /\ Answer(h, "failed")
    /\ UNCHANGED <<tables, world, shown>>

(* An invalid address is refused by NewSubscriber before the INSERT.       *)
InvalidEmail(h) ==
    /\ pc[h] = "create"
    /\ Answer(h, "rejected")
    /\ UNCHANGED <<tables, world, shown>>

Create(h) ==
    /\ At(h, "create", CreateOps)
    /\ IndexAllows(NewSubscriber(job[h]))
    /\ \E id \in FreshIds :
          /\ subscribers' = [subscribers EXCEPT ![id] = NewSubscriber(job[h])]
          /\ issued' = issued \cup {id}
          /\ notices' = [notices EXCEPT ![id] = 0]
          /\ Goto(h, "mail", [job[h] EXCEPT !.id = id, !.email = Lower[@]])
    /\ Show(h, "submission", "ok")
    /\ UNCHANGED <<sites, mailed, clock>>

Resubscribe(h) ==
    /\ At(h, "resubscribe", CreateOps)
    /\ Update(job[h].id, Reopened(subscribers[job[h].id]))
    /\ notices' = [notices EXCEPT ![job[h].id] = 0]
    /\ Goto(h, "mail", job[h])
    /\ Show(h, "submission", "ok")
    /\ UNCHANGED <<sites, issued, mailed, clock>>

(* Only a public confirm with a real site goes on to notify the owner.     *)
WriteConfirmed(h) ==
    /\ At(h, "write", ConfirmOps)
    /\ Update(job[h].id, Confirmed(subscribers[job[h].id]))
    /\ IF job[h].op # "adminConfirm" /\ job[h].known
       THEN Goto(h, "notify", job[h])
       ELSE Answer(h, "ok")
    /\ UNCHANGED <<sites, issued, world, shown>>

SavesUnsubscribed(h) ==  \* faulty variant: gorm's Save of the row that was loaded
    /\ At(h, "write", Ops \ ConfirmOps)
    /\ \E r \in Row :
          subscribers' = [subscribers EXCEPT ![job[h].id] =
                             Unsubscribed(IF @ = None THEN r ELSE @)]
    /\ Answer(h, "ok")
    /\ UNCHANGED <<sites, issued, world, shown>>
WriteUnsubscribed(h) ==
    /\ At(h, "write", Ops \ ConfirmOps)
    /\ Update(job[h].id, Unsubscribed(subscribers[job[h].id]))
    /\ Answer(h, "ok")
    /\ UNCHANGED <<sites, issued, world, shown>>

DeleteSubscriber(h) ==
    /\ At(h, "delete", {"adminDelete"})
    /\ subscribers' = [id \in Ids |-> IF id \in ById(job[h]) THEN None
                                                             ELSE subscribers[id]]
    /\ Answer(h, IF ById(job[h]) = {} THEN "rejected" ELSE "ok")
    /\ UNCHANGED <<sites, issued, world, shown>>

-----------------------------------------------------------------------------
(* Calls to Pinguin.  Their failure is logged and shown on the test panel; *)
(* it changes neither the row nor the reply, and nothing retries it.  A    *)
(* call that timed out may have been carried out all the same.             *)

Delivered(outcome) ==
    CASE outcome = "ok" -> {TRUE}
      [] outcome = "error" -> BOOLEAN
      [] OTHER -> {FALSE}

MailOutcomes == IF MailOn THEN {"ok", "error"} ELSE {"skipped"}

ConfirmationToken(j) ==
    [id |-> j.id, site |-> j.site, email |-> j.email, exp |-> clock + TTL]

SendConfirmation(h) ==
    /\ At(h, "mail", CreateOps)
    /\ \E outcome \in MailOutcomes : \E delivered \in Delivered(outcome) :
          /\ mailed' = mailed \cup {t \in {ConfirmationToken(job[h])} : delivered}
          /\ Show(h, "confirmation", outcome)
    /\ Answer(h, "ok")
    /\ UNCHANGED <<tables, clock, notices>>

NoticeOutcomes == IF NotificationsOn THEN {"ok", "error"} ELSE {"skipped"}

(* The counter stops at 2: one and more than one are all that matters.     *)
NotifyOwner(h) ==
    /\ At(h, "notify", ConfirmOps)
    /\ \E outcome \in NoticeOutcomes : \E delivered \in Delivered(outcome) :
          /\ notices' = [notices EXCEPT ![job[h].id] =
                            IF delivered /\ @ < 2 THEN @ + 1 ELSE @]
          /\ Show(h, "notification", outcome)
    /\ Answer(h, "ok")
    /\ UNCHANGED <<tables, mailed, clock>>

-----------------------------------------------------------------------------
(* DeleteSite removes the site and its feedback; subscribers keep their    *)
(* rows.                                                                   *)
DeleteSite(s) ==
    /\ s \in sites
    /\ sites' = sites \ {s}
    /\ UNCHANGED <<subscribers, issued, world, pc, job, shown>>

(* The process is killed and started again: running requests are lost,    *)
(* the database and the e-mails already sent are not.                      *)
Crash ==
    /\ \E h \in Handlers : pc[h] \in Busy
    /\ pc' = [h \in Handlers |-> "idle"]
    /\ job' = [h \in Handlers |-> None]
    /\ shown' = [h \in Handlers |-> Nothing]
    /\ UNCHANGED <<tables, world>>

Tick ==
    /\ clock < MaxClock
    /\ clock' = clock + 1
    /\ UNCHANGED <<tables, mailed, notices, pc, job, shown>>

Arrive(h) ==
    Reject(h) \/ AcceptCreate(h) \/ AcceptMutation(h) \/ AcceptLink(h)
              \/ AcceptAdmin(h)

Find(h) ==
    FindForCreate(h) \/ FindForMutation(h) \/ FindForLink(h)
                     \/ LoadSiteForLink(h) \/ FindForAdmin(h)

Write(h) ==
    WriteFails(h) \/ InvalidEmail(h) \/ Create(h) \/ Resubscribe(h)
                  \/ WriteConfirmed(h) \/ WriteUnsubscribed(h)
                  \/ DeleteSubscriber(h)

Call(h) == SendConfirmation(h) \/ NotifyOwner(h)

Next ==
    \/ \E h \in Handlers : Arrive(h) \/ Find(h) \/ Write(h) \/ Call(h)
    \/ \E s \in Sites : DeleteSite(s)
    \/ Crash
    \/ Tick

Spec == Init /\ [][Next]_vars

(* A goroutine that has a statement to run runs it, and every gRPC call    *)
(* ends at the operation timeout at the latest.  Nothing is promised of    *)
(* the arrival of requests, of deletions, crashes or the clock.            *)
FairSpec == Spec /\ \A h \in Handlers : WF_vars(Find(h) \/ Write(h) \/ Call(h))

-----------------------------------------------------------------------------
(* Every variable stays in its domain: rows, jobs and tokens are complete, *)
(* notices stop at the cap.                                                *)
TypeOK ==
    /\ sites \subseteq Sites
    /\ subscribers \in [Ids -> Row \cup {None}]
    /\ issued \subseteq Ids
    /\ mailed \subseteq Token
    /\ clock \in 0..MaxClock
    /\ pc \in [Handlers -> Busy \cup Replies]
    /\ job \in [Handlers -> Job \cup {None}]
    /\ shown \in [Handlers -> [EventTypes -> Outcomes]]
    /\ notices \in [Ids -> 0..2]

(* A site has at most one row per address, whatever the letter case of the *)
(* submissions and however two CreateSubscription requests interleave      *)
(* between findSubscriber and the INSERT.                                  *)
UniqueSiteEmail ==
    \A i, k \in Live :
        /\ subscribers[i].site = subscribers[k].site
        /\ subscribers[i].email = subscribers[k].email
        => i = k

(* The time stamps always tell the story of the status, after any order of *)
(* the column-wise UPDATEs of concurrent handlers: a pending row has       *)
(* neither stamp, a confirmed one was confirmed and is not unsubscribed,   *)
(* an unsubscribed one carries its unsubscription time.                    *)
StampsMatchStatus ==
    \A id \in Live :
        LET r == subscribers[id] IN
        /\ r.status = "pending" => ~r.confirmedAt /\ ~r.unsubscribedAt
        /\ r.status = "confirmed" => r.confirmedAt /\ ~r.unsubscribedAt
        /\ r.status = "unsubscribed" => r.unsubscribedAt

(* A token that was mailed can only ever act on the address it was mailed  *)
(* to: as long as its row exists, the row belongs to the token's site and  *)
(* address, so the e-mail comparison of the link handlers never fails.     *)
MailBoundToRow ==
    \A t \in mailed :
        t.id \in Live => /\ subscribers[t.id].site = t.site
                         /\ subscribers[t.id].email = t.email

(* When a request is answered, the subscribe-test panel has been told what  *)
(* the visitor is told, whatever interleaves and fails: nothing of a request *)
(* answered with an error, except that a duplicate submission (409) has     *)
(* shown its failure; and of a submission answered 200 its success and what *)
(* became of the confirmation e-mail.                                      *)
Announced(op, reply, events) ==
    /\ reply \in {"failed", "rejected"} => events = Nothing
    /\ reply = "conflict" =>
          events = IF op \in CreateOps THEN [Nothing EXCEPT !["submission"] = "error"] ELSE Nothing
    /\ reply = "ok" => /\ events["submission"] = IF op \in CreateOps THEN "ok" ELSE "none"
                       /\ events["confirmation"] # "none" <=> op \in CreateOps

Answered(h) == pc[h] \in Busy /\ pc'[h] \in Replies \ {"idle"}

PanelMatchesReply ==
    [][\A h \in Handlers : Answered(h) => Announced(job[h].op, pc'[h], shown'[h])]_vars

(* A subscriber that the owner deleted is never written back by a handler  *)
(* that loaded the row before the DELETE.                                  *)
DeletedStaysDeleted ==
    [][\A id \in issued : subscribers[id] = None => subscribers'[id] = None]_vars

StatusOf(table, id) == IF table[id] = None THEN "absent" ELSE table[id].status

OwnerConfirms(id) == \E h \in Handlers : /\ At(h, "write", {"adminConfirm"})
                                         /\ job[h].id = id
                                         /\ pc'[h] = "ok"

(* An unsubscribed row becomes confirmed only by the owner's decision      *)
(* (PATCH), never by a confirm request of the public endpoints.            *)
NoConfirmAfterUnsubscribe ==
    [][\A id \in Ids :
          StatusOf(subscribers, id) = "unsubscribed"
             /\ StatusOf(subscribers', id) = "confirmed"
          => OwnerConfirms(id)]_vars

(* The owner is told of a subscriber at most once per consent, however the *)
(* confirmation is repeated by POST or by link.                            *)
OneNoticePerConsent == \A id \in Ids : notices[id] <= 1

(* Requests that do not overlap lead each subscriber through the life that *)
(* SubscriberLife allows: no consent without a pending request or the      *)
(* owner's decision, no double opt-in asked twice of who is confirmed, no  *)
(* second notice, no row that is written back.                             *)
LifeStatus ==
    [id \in Ids |-> CASE id \notin issued -> "new"
                      [] id \in issued \ Live -> "deleted"
                      [] OTHER -> subscribers[id].status]

Deciding == {id \in Ids : \E h \in Handlers :
                At(h, "write", {"adminConfirm"}) /\ job[h].id = id}

Life == INSTANCE SubscriberLife WITH
            status <- LifeStatus, told <- notices, deciding <- Deciding

ImplementsSubscriberLife == Life!Spec

(* A link whose subscriber was found pending (or not unsubscribed yet)      *)
(* takes effect, also when the owner deletes the site while the request is  *)
(* under way: only a failing UPDATE or a crash keeps it from its status.    *)
LinkTakesEffect ==
    \A h \in Handlers, id \in Ids, op \in LinkOps :
        pc[h] \in {"loadSite", "write"} /\ job[h].op = op /\ job[h].id = id
            ~> \/ StatusOf(subscribers, id) \in {Target(op), "absent"}
               \/ pc[h] \in {"failed", "idle"}

=============================================================================
