---------------------------- MODULE FaviconManager ----------------------------
(***************************************************************************)
(* SiteFaviconManager: one worker goroutine fetches site icons from a      *)
(* bounded queue.  Requests (ListSites, CreateSite, UpdateSite) and the    *)
(* hourly scan ask for fetches with a copy of the site row they read       *)
(* earlier; a map of in-flight sites keeps a site from being queued twice. *)
(* One action is one SQL statement, one channel operation or one map       *)
(* operation; LoadOrStore and the send that follows it in scheduleFetch    *)
(* are one action, as nothing can tell them apart.                         *)
(***************************************************************************)
EXTENDS Naturals, Sequences

CONSTANTS
    Sites,       \* site identifiers
    Origins,     \* primary origins a site can be configured with
    Clients,     \* request goroutines
    Scanner,     \* the scheduler goroutine running performScheduledRefresh
    QCap,        \* capacity of workQueue
    Results,     \* how fetching the icon of each origin may end
    MaxUpdates,  \* bound on the UpdateSite requests of a run
    None         \* no row, no icon, no task

Agents == Clients \cup {Scanner}

(* Age of a time stamp: zero, within its interval, or past it.  For        *)
(* favicon_fetched_at the interval is the refresh interval, for            *)
(* favicon_last_attempt_at the retry interval.                             *)
Ages == {"never", "fresh", "old"}

(* The columns of `sites` the manager works with.  `icon` is the origin    *)
(* whose icon is stored in favicon_data.                                   *)
Row == [origin : Origins, favOrigin : Origins, icon : Origins \cup {None},
        fetched : Ages, attempted : Ages]

Task == [site : Sites, force : BOOLEAN]

Phases == {"idle", "load", "collect", "done", "exited"}
Busy   == {"load", "collect", "done"}

ASSUME ScannerAssumption == Scanner \notin Clients
ASSUME NoneAssumption == None \notin Row \cup Origins \cup Task
ASSUME ParameterAssumption ==
    /\ QCap \in Nat \ {0}
    /\ MaxUpdates \in Nat
    /\ Results \in [Origins -> SUBSET {"asset", "nothing", "error", "dbError"}]

VARIABLES
    rows,      \* table `sites`
    born,      \* identifiers given to CreateSite so far
    held,      \* row copies an agent still has to pass to scheduleFetch
    editing,   \* the row a client's UpdateSite is about to Save, and its site
    updates,   \* number of UpdateSite requests so far
    inFlight,  \* keys of the inFlight map
    queue,     \* workQueue
    waiting,   \* tasks of the enqueueTask goroutines
    worker,    \* phase of the worker, its task and its copy of the row
    running    \* the context of the worker and the scheduler is not cancelled

vars == <<rows, born, held, editing, updates, inFlight, queue, waiting,
          worker, running>>

requests == <<held, editing, updates>>
fetches  == <<inFlight, queue, waiting, worker>>

-----------------------------------------------------------------------------
NothingHeld == [s \in Sites |-> None]
IdleWorker  == [phase |-> "idle", task |-> None, row |-> None]

Init ==
    /\ rows = [s \in Sites |-> None]
    /\ born = {}
    /\ held = [a \in Agents |-> NothingHeld]
    /\ editing = [c \in Clients |-> None]
    /\ updates = 0
    /\ inFlight = {}
    /\ queue = <<>>
    /\ waiting = {}
    /\ worker = IdleWorker
    /\ running = TRUE

Free(a) == held[a] = NothingHeld /\ (a \in Clients => editing[a] = None)

Hold(a, s, row) == held' = [held EXCEPT ![a][s] = row]

-----------------------------------------------------------------------------
(* Requests.                                                               *)

(* The favicon columns of a site with a new list of allowed origins, the   *)
(* first of which is o.                                                    *)
NewOrigin(o) == [origin |-> o, favOrigin |-> o, icon |-> None,
                 fetched |-> "never", attempted |-> "never"]

(* CreateSite inserts the row, then asks for its icon.                     *)
CreateSite(c, s, o) ==
    /\ Free(c)
    /\ s \notin born
    /\ born' = born \cup {s}
    /\ rows' = [rows EXCEPT ![s] = NewOrigin(o)]
    /\ Hold(c, s, NewOrigin(o))
    /\ UNCHANGED <<editing, updates, fetches, running>>

(* ListSites loads the sites its user may see, then asks for the icon of   *)
(* each.                                                                   *)
ListSites(c) ==
    /\ Free(c)
    /\ \E visible \in SUBSET Sites :
          held' = [held EXCEPT ![c] = [s \in Sites |-> IF s \in visible THEN rows[s] ELSE None]]
    /\ UNCHANGED <<rows, born, editing, updates, fetches, running>>

(* UpdateSite: a changed list of allowed origins, even if the primary one  *)
(* stays, forgets the icon.  Other edits leave the favicon columns alone.  *)
ReadForUpdate(c, s) ==
    /\ Free(c)
    /\ rows[s] # None
    /\ updates < MaxUpdates
    /\ updates' = updates + 1
    /\ \E row \in {rows[s]} \cup {NewOrigin(o) : o \in Origins} :
          editing' = [editing EXCEPT ![c] = [site |-> s, row |-> row]]
    /\ UNCHANGED <<rows, born, held, fetches, running>>

(* gorm's Save writes every column of the copy, and inserts the row when   *)
(* it has been deleted meanwhile.                                          *)
SaveUpdate(c) ==
    /\ editing[c] # None
    /\ \/ /\ rows' = [rows EXCEPT ![editing[c].site] = editing[c].row]
          /\ Hold(c, editing[c].site, editing[c].row)
       \/ UNCHANGED <<rows, held>>
    /\ editing' = [editing EXCEPT ![c] = None]
    /\ UNCHANGED <<born, updates, fetches, running>>

DeleteSite(s) ==
    /\ rows[s] # None
    /\ rows' = [rows EXCEPT ![s] = None]
    /\ UNCHANGED <<born, requests, fetches, running>>

(* performScheduledRefresh loads all sites.                                *)
ScanSites ==
    /\ running
    /\ Free(Scanner)
    /\ held' = [held EXCEPT ![Scanner] = rows]
    /\ UNCHANGED <<rows, born, editing, updates, fetches, running>>

(* It looks at the context before each site and drops the rest of the scan *)
(* when it is cancelled.                                                   *)
AbortScan ==
    /\ ~running
    /\ held[Scanner] # NothingHeld
    /\ held' = [held EXCEPT ![Scanner] = NothingHeld]
    /\ UNCHANGED <<rows, born, editing, updates, fetches, running>>

-----------------------------------------------------------------------------
(* scheduleFetch with the copy of the row an agent holds.                  *)

ShouldForceFetch(row) ==
    \/ row.icon = None
    \/ row.fetched = "never"
    \/ row.favOrigin # row.origin

ShouldFetch(row) ==
    \/ row.favOrigin # row.origin
    \/ row.icon = None /\ row.attempted # "fresh"
    \/ row.icon # None /\ row.fetched # "fresh"

IgnoresCapacity(task) == queue' = Append(queue, task) /\ UNCHANGED waiting  \* faulty variant
Enqueue(task) ==
    IF Len(queue) < QCap
    THEN queue' = Append(queue, task) /\ UNCHANGED waiting
    ELSE waiting' = waiting \cup {task} /\ UNCHANGED queue

ScheduleFetch(a, s) ==
    LET row   == held[a][s]
        force == a # Scanner /\ ShouldForceFetch(row)
    IN  /\ row # None
        /\ Hold(a, s, None)
        /\ \/ /\ ~(force \/ ShouldFetch(row)) \/ s \in inFlight
              /\ UNCHANGED <<inFlight, queue, waiting>>
           \/ /\ force \/ ShouldFetch(row)
              /\ s \notin inFlight
              /\ inFlight' = inFlight \cup {s}
              /\ Enqueue([site |-> s, force |-> force])
        /\ UNCHANGED <<rows, born, editing, updates, worker, running>>

(* enqueueTask, started when the queue was full, sends as soon as there is *)
(* room; after a second it may give up, even if there is room by then.     *)
EnqueueTask(t) ==
    /\ t \in waiting
    /\ Len(queue) < QCap
    /\ queue' = Append(queue, t)
    /\ waiting' = waiting \ {t}
    /\ UNCHANGED <<rows, born, requests, inFlight, worker, running>>

GivesUpInFlight(t) ==  \* faulty variant
    /\ t \in waiting
    /\ waiting' = waiting \ {t}
    /\ UNCHANGED <<rows, born, requests, inFlight, queue, worker, running>>
EnqueueTimeout(t) ==
    /\ t \in waiting
    /\ waiting' = waiting \ {t}
    /\ inFlight' = inFlight \ {t.site}
    /\ UNCHANGED <<rows, born, requests, queue, worker, running>>

-----------------------------------------------------------------------------
(* The worker.                                                             *)

TakeTask ==
    /\ worker.phase = "idle"
    /\ queue # <<>>
    /\ worker' = [phase |-> "load", task |-> Head(queue), row |-> None]
    /\ queue' = Tail(queue)
    /\ UNCHANGED <<rows, born, requests, inFlight, waiting, running>>

StatementsFail == \E o \in Origins : "dbError" \in Results[o]

(* processFetch up to Collect; all early returns run the deferred Delete.  *)
LoadSite ==
    /\ worker.phase = "load"
    /\ LET row  == rows[worker.task.site]
           due  == row # None /\ (worker.task.force \/ ShouldFetch(row))
           next == (IF due THEN {"collect"} ELSE {"done"})
                     \cup (IF StatementsFail THEN {"done"} ELSE {})
       IN  \E phase \in next :
              worker' = [worker EXCEPT !.phase = phase,
                                       !.row = IF phase = "collect" THEN row ELSE None]
    /\ UNCHANGED <<rows, born, requests, inFlight, queue, waiting, running>>

(* Service.Collect: the columns set on `row`, given the worker's earlier   *)
(* copy of it.  The origin and the attempt are recorded whatever the       *)
(* outcome; unchanged data are not written again.                          *)
OnlyOnSuccess(row, copy, result) ==  \* faulty variant
    IF result = "asset"
    THEN [row EXCEPT !.favOrigin = copy.origin, !.attempted = "fresh",
                     !.icon = copy.origin, !.fetched = "fresh"]
    ELSE row
NeverReplaced(row, copy, result) ==  \* faulty variant
    LET attempt == [row EXCEPT !.favOrigin = copy.origin, !.attempted = "fresh"]
    IN  CASE result # "asset" -> attempt
          [] result = "asset" /\ copy.fetched # "never" -> [attempt EXCEPT !.fetched = "fresh"]
          [] OTHER -> [attempt EXCEPT !.icon = copy.origin, !.fetched = "fresh"]
Collected(row, copy, result) ==
    LET attempt == [row EXCEPT !.favOrigin = copy.origin, !.attempted = "fresh"]
    IN  CASE result = "dbError" -> row
          [] result \in {"nothing", "error"} -> attempt
          [] result = "asset" /\ copy.fetched # "never" /\ copy.icon = copy.origin ->
                [attempt EXCEPT !.fetched = "fresh"]
          [] OTHER -> [attempt EXCEPT !.icon = copy.origin, !.fetched = "fresh"]

(* The UPDATE; a row deleted meanwhile is not matched.                     *)
Persist ==
    /\ worker.phase = "collect"
    /\ \E result \in Results[worker.row.origin] :
          rows' = IF rows[worker.task.site] = None THEN rows
                  ELSE [rows EXCEPT ![worker.task.site] =
                           Collected(@, worker.row, result)]
    /\ worker' = [worker EXCEPT !.phase = "done", !.row = None]
    /\ UNCHANGED <<born, requests, inFlight, queue, waiting, running>>

LeavesInFlight == inFlight  \* faulty variant
Cleared == inFlight \ {worker.task.site}

Finish ==
    /\ worker.phase = "done"
    /\ inFlight' = Cleared
    /\ worker' = IdleWorker
    /\ UNCHANGED <<rows, born, requests, queue, waiting, running>>

(* When the server returns, main cancels the context of both; Stop then    *)
(* waits for both.  The worker looks at the context only between two tasks *)
(* and may take another task instead.                                      *)
Stop ==
    /\ running
    /\ running' = FALSE
    /\ UNCHANGED <<rows, born, requests, fetches>>

BreaksSelectOnly == ~running /\ worker.phase = "idle" /\ UNCHANGED vars  \* faulty variant
Exit ==
    /\ ~running
    /\ worker.phase = "idle"
    /\ worker' = [worker EXCEPT !.phase = "exited"]
    /\ UNCHANGED <<rows, born, requests, inFlight, queue, waiting, running>>

(* Time passes: the retry interval for favicon_last_attempt_at, the        *)
(* refresh interval for favicon_fetched_at.                                *)
AttemptOlder(s) ==
    /\ rows[s] # None
    /\ rows[s].attempted = "fresh"
    /\ rows' = [rows EXCEPT ![s].attempted = "old"]
    /\ UNCHANGED <<born, requests, fetches, running>>

FetchOlder(s) ==
    /\ rows[s] # None
    /\ rows[s].fetched = "fresh"
    /\ rows' = [rows EXCEPT ![s].fetched = "old"]
    /\ UNCHANGED <<born, requests, fetches, running>>

-----------------------------------------------------------------------------
Request(c) ==
    \/ \E s \in Sites, o \in Origins : CreateSite(c, s, o)
    \/ \E s \in Sites : ReadForUpdate(c, s)
    \/ ListSites(c)
    \/ SaveUpdate(c)

Sender == \E t \in waiting : EnqueueTask(t) \/ EnqueueTimeout(t)

Work == TakeTask \/ LoadSite \/ Persist \/ Finish

Next ==
    \/ \E c \in Clients : Request(c)
    \/ ScanSites \/ AbortScan
    \/ \E a \in Agents, s \in Sites : ScheduleFetch(a, s)
    \/ Sender
    \/ Work
    \/ Stop
    \/ Exit
    \/ \E s \in Sites : DeleteSite(s) \/ AttemptOlder(s) \/ FetchOlder(s)

Spec == Init /\ [][Next]_vars

(* Goroutines that can run do run, the timer keeps the scan going, and a   *)
(* select between a cancelled context and a filled queue does not choose   *)
(* the queue for ever; the retry and refresh intervals pass.               *)
Fairness ==
    /\ \A c \in Clients : WF_vars(SaveUpdate(c))
    /\ \A a \in Agents, s \in Sites : WF_vars(ScheduleFetch(a, s))
    /\ WF_vars(ScanSites)
    /\ WF_vars(AbortScan)
    /\ WF_vars(Sender)
    /\ WF_vars(Work)
    /\ SF_vars(Exit)
    /\ \A s \in Sites : WF_vars(AttemptOlder(s)) /\ WF_vars(FetchOlder(s))

FairSpec == Spec /\ Fairness

-----------------------------------------------------------------------------
(* Every variable stays in its domain; the queue never exceeds its         *)
(* capacity.                                                               *)
TypeOK ==
    /\ rows \in [Sites -> Row \cup {None}]
    /\ born \subseteq Sites
    /\ held \in [Agents -> [Sites -> Row \cup {None}]]
    /\ editing \in [Clients -> [site : Sites, row : Row] \cup {None}]
    /\ updates \in 0..MaxUpdates
    /\ inFlight \subseteq Sites
    /\ queue \in Seq(Task) /\ Len(queue) <= QCap
    /\ waiting \subseteq Task
    /\ worker \in [phase : Phases, task : Task \cup {None}, row : Row \cup {None}]
    /\ running \in BOOLEAN

Queued == {queue[i] : i \in DOMAIN queue}

InHand == IF worker.phase \in Busy THEN {worker.task} ELSE {}

(* The in-flight map is exact: a site is marked if and only if one and     *)
(* only one task for it exists, in the queue, with a waiting sender or in  *)
(* the hands of the worker.  A site without a task could never be fetched  *)
(* again; two tasks would fetch it twice.                                  *)
InFlightExact ==
    /\ inFlight = {t.site : t \in Queued \cup waiting \cup InHand}
    /\ \A i, k \in DOMAIN queue : queue[i].site = queue[k].site => i = k
    /\ \A t, u \in waiting : t.site = u.site => t = u
    /\ \A t \in Queued : \A u \in waiting \cup InHand : t.site # u.site
    /\ \A t \in waiting : \A u \in InHand : t.site # u.site

(* A site does not stay marked as in flight: its task is processed or      *)
(* given up.                                                               *)
NoSiteStuck == \A s \in Sites : s \in inFlight ~> (s \notin inFlight \/ ~running)

(* When updates cease, the manager settles on the configured origin: every *)
(* site's stored favicon_origin becomes the one of its allowed_origin,     *)
(* even though requests made during a fetch are dropped and the fetch then *)
(* writes the origin it was started for.                                   *)
FaviconOriginSettles ==
    \A s \in Sites :
        <>[](~running \/ rows[s] = None \/ rows[s].favOrigin = rows[s].origin)

(* A site that keeps an origin whose icon can always be resolved shows it  *)
(* in the end.  An update that changes the row while the worker finds its  *)
(* copy of the icon unchanged leaves a row with a missing or a wrong icon  *)
(* and a recent fetch: the retry or the daily refresh must repair it.      *)
Reliable == {o \in Origins : Results[o] = {"asset"}}

IconSettles ==
    \A s \in Sites :
        <>[](\/ ~running \/ rows[s] = None
             \/ rows[s].origin \notin Reliable
             \/ rows[s].icon = rows[s].origin)

(* Stop returns: the scan is dropped and the worker leaves its loop, even  *)
(* if requests keep adding tasks.                                          *)
StopCompletes == ~running ~> (worker.phase = "exited" /\ held[Scanner] = NothingHeld)

(* A fetch requested by an origin change is carried out right away: when   *)
(* UpdateSite's request for the new origin has been handled, a task that   *)
(* will read the new origin is on its way.                                 *)
WillRead(s, o) ==
    \/ \E t \in Queued \cup waiting : t.site = s
    \/ worker.phase = "load" /\ worker.task.site = s
    \/ worker.phase = "collect" /\ worker.task.site = s /\ worker.row.origin = o

FetchedAfterUpdate ==
    [][\A c \in Clients, s \in Sites :
          /\ held[c][s] # None /\ held'[c][s] = None
          /\ rows[s] = held[c][s]
          /\ held[c][s].icon = None /\ held[c][s].attempted = "never"
          => \E o \in Origins : o = held[c][s].origin /\ WillRead(s, o)']_vars

=============================================================================
