----------------------------- MODULE SiteRegistry -----------------------------
(***************************************************************************)
(* CreateSite, UpdateSite and DeleteSite over table `sites`, with the      *)
(* feedback that is deleted along with a site.  One action is one SQL      *)
(* statement (for DeleteSite its transaction) and the computation up to    *)
(* the next one; pc[h] names the next statement of request h, or is its    *)
(* reply.  An address stands for its trimmed lower-case form, to which     *)
(* every handler brings it first.                                          *)
(***************************************************************************)
CONSTANTS
    Handlers,    \* request goroutines
    Sites,       \* site identifiers
    Users,       \* addresses of dashboard users and owners
    Admins,      \* the users whose role is admin
    Lists,       \* values of allowed_origin
    Origins,
    OriginsOf,   \* the lower-case origins a list names
    Folded,      \* the lower-case form of a list's text
    None

Row == [owner : Users, creator : Users, list : Lists]

Ops  == {"create", "update", "delete", "post"}
Busy == {"find", "check", "insert", "save", "delete", "add"}
Replies == {"free", "ok", "notFound", "forbidden", "conflict", "error"}

NoJob == [op |-> None, user |-> None, site |-> None, owner |-> None,
          list |-> None, row |-> None]

ASSUME NoneAssumption ==
    None \notin Row \cup Sites \cup Users \cup Lists \cup Ops
ASSUME ListsAssumption ==
    /\ Admins \subseteq Users
    /\ OriginsOf \in [Lists -> SUBSET Origins]
    /\ DOMAIN Folded = Lists
    /\ \A k, l \in Lists : Folded[k] = Folded[l] => OriginsOf[k] = OriginsOf[l]

VARIABLES
    rows,       \* table `sites`
    maker,      \* history: the user whose request inserted each site
    editor,     \* history: the user whose request wrote a row of `sites` last
    messages,   \* the sites table `feedbacks` has rows of
    pc,
    job,        \* parameters of each request and the row it has loaded
    overlapped  \* history: a request has arrived while another was served

vars == <<rows, maker, editor, messages, pc, job, overlapped>>

Init ==
    /\ rows = [s \in Sites |-> None]
    /\ maker = [s \in Sites |-> None]
    /\ editor = None
    /\ messages = {}
    /\ pc = [h \in Handlers |-> "free"]
    /\ job = [h \in Handlers |-> NoJob]
    /\ overlapped = FALSE

Goto(h, p) == pc' = [pc EXCEPT ![h] = p]

(* The request ends; its parameters are of no use any more.                *)
Reply(h, p) == Goto(h, p) /\ job' = [job EXCEPT ![h] = NoJob]

-----------------------------------------------------------------------------
(* Requests that are well-formed and whose user is known.  A PATCH may     *)
(* leave out the owner, the list or both; CreateSite puts the user for a   *)
(* missing owner.                                                          *)
Requests ==
    [op : {"create"}, user : Users, site : {None}, owner : Users, list : Lists,
     row : {None}]
    \cup
    [op : {"update"}, user : Users, site : Sites, owner : Users \cup {None},
     list : Lists \cup {None}, row : {None}]
    \cup
    [op : {"delete", "post"}, user : Users, site : Sites, owner : {None},
     list : {None}, row : {None}]

Arrive(h) ==
    /\ pc[h] \notin Busy
    /\ \E r \in Requests :
          /\ job' = [job EXCEPT ![h] = r]
          /\ Goto(h, IF r.op = "create" THEN "check" ELSE "find")
    /\ overlapped' = (overlapped \/ \E g \in Handlers : pc[g] \in Busy)
    /\ UNCHANGED <<rows, maker, editor, messages>>

EveryUser(u, row) == TRUE  \* faulty variant
CanManageSite(u, row) == u \in Admins \cup {row.owner, row.creator}

(* The edited copy of the row; a missing field of the request leaves the   *)
(* column alone.                                                           *)
AsSent(row, owner, list) ==  \* faulty variant
    [row EXCEPT !.owner = owner, !.list = IF list = None THEN @ ELSE list]
HandsOver(row, owner, list) ==  \* faulty variant
    [owner   |-> IF owner = None THEN row.owner ELSE owner,
     creator |-> IF owner = None THEN row.creator ELSE owner,
     list    |-> IF list = None THEN row.list ELSE list]
Edited(row, owner, list) ==
    [row EXCEPT !.owner = IF owner = None THEN @ ELSE owner,
                !.list  = IF list = None THEN @ ELSE list]

ChecksOrigins(row, list) == list # None /\ Folded[row.list] # Folded[list]

(* First; a failing query is answered like a missing row.  Posting         *)
(* feedback asks for an allowed origin instead of a user.                  *)
Find(h) ==
    LET j   == job[h]
        row == rows[j.site]
    IN  /\ pc[h] = "find"
        /\ \/ Reply(h, "notFound")
           \/ /\ row # None
              /\ \/ /\ j.op = "post" \/ ~CanManageSite(j.user, row)
                    /\ Reply(h, "forbidden")
                 \/ /\ j.op = "post"
                    /\ Goto(h, "add") /\ UNCHANGED job
                 \/ /\ j.op = "delete" /\ CanManageSite(j.user, row)
                    /\ Goto(h, "delete") /\ UNCHANGED job
                 \/ /\ j.op = "update" /\ CanManageSite(j.user, row)
                    /\ job' = [job EXCEPT ![h].row = Edited(row, j.owner, j.list)]
                    /\ Goto(h, IF ChecksOrigins(row, j.list) THEN "check" ELSE "save")
        /\ UNCHANGED <<rows, maker, editor, messages>>

(* allowedOriginConflictExists: the origins of the list, one by one,       *)
(* against those of every other site.                                      *)
SameList(list, s) == \E t \in Sites \ {s} : rows[t] # None /\ rows[t].list = list  \* faulty variant
AllowedOriginConflictExists(list, s) ==
    \E t \in Sites \ {s} :
        rows[t] # None /\ OriginsOf[rows[t].list] \cap OriginsOf[list] # {}

Check(h) ==
    LET conflict == AllowedOriginConflictExists(job[h].list, job[h].site)
    IN  /\ pc[h] = "check"
        /\ \/ Reply(h, "error")
           \/ conflict /\ Reply(h, "conflict")
           \/ /\ ~conflict
              /\ Goto(h, IF job[h].op = "create" THEN "insert" ELSE "save")
              /\ UNCHANGED job
        /\ UNCHANGED <<rows, maker, editor, messages>>

(* The INSERT of CreateSite, under a new identifier.                       *)
Insert(h) ==
    LET j == job[h]
    IN  /\ pc[h] = "insert"
        /\ \/ Reply(h, "error") /\ UNCHANGED <<rows, maker, editor>>
           \/ \E s \in Sites :
                 /\ maker[s] = None
                 /\ maker' = [maker EXCEPT ![s] = j.user]
                 /\ editor' = j.user
                 /\ rows' = [rows EXCEPT ![s] = [owner |-> j.owner, creator |-> j.user,
                                                 list |-> j.list]]
                 /\ Reply(h, "ok")
        /\ UNCHANGED messages

(* gorm's Save writes every column of the copy, and inserts the row when   *)
(* it has been deleted meanwhile.                                          *)
Save(h) ==
    /\ pc[h] = "save"
    /\ \/ Reply(h, "error") /\ UNCHANGED <<rows, editor>>
       \/ /\ rows' = [rows EXCEPT ![job[h].site] = job[h].row]
          /\ editor' = job[h].user
          /\ Reply(h, "ok")
    /\ UNCHANGED <<maker, messages>>

(* The transaction of DeleteSite: all or nothing.                          *)
KeepsMessages(s) == rows' = [rows EXCEPT ![s] = None] /\ UNCHANGED messages  \* faulty variant
Removed(s) == rows' = [rows EXCEPT ![s] = None] /\ messages' = messages \ {s}

Delete(h) ==
    /\ pc[h] = "delete"
    /\ \/ Reply(h, "error") /\ UNCHANGED <<rows, editor, messages>>
       \/ Reply(h, "ok") /\ Removed(job[h].site) /\ editor' = job[h].user
    /\ UNCHANGED maker

(* The INSERT of CreateFeedback.                                           *)
AddMessage(h) ==
    /\ pc[h] = "add"
    /\ \/ Reply(h, "error") /\ UNCHANGED messages
       \/ Reply(h, "ok") /\ messages' = messages \cup {job[h].site}
    /\ UNCHANGED <<rows, maker, editor>>

(* The process ends; the database remains.                                 *)
Crash ==
    /\ \E h \in Handlers : pc[h] \in Busy
    /\ pc' = [h \in Handlers |-> "free"]
    /\ job' = [h \in Handlers |-> NoJob]
    /\ UNCHANGED <<rows, maker, editor, messages>>

Serve(h) ==
    \/ Find(h) \/ Check(h)
    \/ Insert(h) \/ Save(h) \/ Delete(h) \/ AddMessage(h)

Next ==
    \/ \E h \in Handlers : Arrive(h)
    \/ (Crash \/ \E h \in Handlers : Serve(h)) /\ UNCHANGED overlapped

Spec == Init /\ [][Next]_vars

-----------------------------------------------------------------------------
Job == [op : Ops \cup {None}, user : Users \cup {None}, site : Sites \cup {None},
        owner : Users \cup {None}, list : Lists \cup {None}, row : Row \cup {None}]

(* Rows and requests are complete and in their domains.                    *)
TypeOK ==
    /\ rows \in [Sites -> Row \cup {None}]
    /\ maker \in [Sites -> Users \cup {None}]
    /\ editor \in Users \cup {None}
    /\ messages \subseteq Sites
    /\ pc \in [Handlers -> Busy \cup Replies]
    /\ job \in [Handlers -> Job]
    /\ overlapped \in BOOLEAN

(* Whatever requests interleave, a site keeps the creator who inserted it, *)
(* on whom the access of the creator rests, even when a stale copy is      *)
(* saved or a deleted site inserted again.                                 *)
CreatorPermanent == \A s \in Sites : rows[s] # None => rows[s].creator = maker[s]

(* No two sites share an origin, also when a list names several or a       *)
(* list's case is changed.  Requests that overlap in time can break this.  *)
OriginsDisjoint ==
    \A s, t \in Sites :
        s # t /\ rows[s] # None /\ rows[t] # None
        => OriginsOf[rows[s].list] \cap OriginsOf[rows[t].list] = {}

SerialOriginsDisjoint == ~overlapped => OriginsDisjoint

(* When a site is deleted its feedback is gone as well; none is kept for a *)
(* site that nobody can list.  A post that overlaps a deletion can leave   *)
(* some.                                                                   *)
NoOrphanedFeedback == ~overlapped => \A s \in messages : rows[s] # None

(* Until two requests overlap, the handlers behave as the abstract list of *)
(* sites: who edits or deletes a site manages it as it is then, the        *)
(* origins stay disjoint, and a deleted site does not come back.           *)
Registry == INSTANCE SiteList WITH taken <- {s \in Sites : maker[s] # None}

ImplementsSiteList ==
    /\ Registry!Init
    /\ [][overlapped' \/ Registry!Next \/ UNCHANGED Registry!vars]_vars

=============================================================================
