# Formal models of LoopAware

LoopAware is a Go service that lets site owners collect feedback, e-mail
subscriptions and visits from widgets embedded in their sites. This directory
holds TLA+ modules translated from its source, configurations that TLC
model-checks, and theorems checked by TLAPS. `PROJECT.json` maps every
definition to the lines it models.

## 1. Inventory

| Component | State | Operations | What is hard | What makes it correct | Module |
|---|---|---|---|---|---|
| Subscriber life cycle (`public.go`, `site_subscribe_test_handlers.go`, `subscription_confirmation*.go`, `subscriber.go`, parts of `admin.go`) | table `subscribers`, mailed tokens | submit, re-submit, confirm, unsubscribe (POST and link), PATCH, DELETE, dashboard test | no transaction spans a read and the write that relies on it; mails fail; the process may end between two statements; tokens outlive rows | one row per site and address, stamps agree with status, links act on the address they were mailed to, consent is not restored against the subscriber's will | `Subscriptions`, `SubscriberLife` |
| Site favicon manager (`site_favicon_manager.go`, `pkg/favicon/service.go`) | in-flight map, bounded queue, enqueue goroutines, worker, favicon columns of `sites` | schedule (list, create, update, hourly scan), enqueue or give up, fetch, store, stop | stale row copies, dropped requests, full queue, shutdown | exact in-flight map, no site locked out, favicon follows the configured origin, `Stop` returns | `FaviconManager` |
| Live broadcasters (`feedback_events.go`, `subscription_test_events.go`) | subscribers map, channels, closed flag, mutex | subscribe, broadcast, receive, remove, close | channel close against send, slow readers, shutdown | no panic, ordered stream, publishers never blocked, streams end | `EventBroadcaster`, `EventStream` |
| Site registry (`admin.go`) | table `sites` | create, list, update, delete | check-then-act on origins, whole-row `Save` | no two sites for one origin, no lost or resurrected row, a fixed creator | `SiteRegistry`, `SiteList` |
| Feedback (`public.go`, `feedback_notifier.go`, `site_widget_test_handlers.go`) | table `feedbacks` | create, notify, mark delivery, count, broadcast | crash between insert, send and mark; counts out of order | a delivery mark is true, an announced message is final, every message is announced | `FeedbackDelivery` |
| Rate limiter (`public.go`, `isRateLimited`) | counters by address and window | count a request | window boundary, growth of the map | at most the limit per window | `FeedbackDelivery` |
| Scheduler (`internal/task/scheduler.go`) | cancel, done, trigger channel | start, trigger, stop, run | stop during a run, two stops, a start during a stop | no loop is lost, stop waits for its loop | `Scheduler` |
| Visits (`visit_collector.go`, `visit_rollup.go`) | tables of visits and roll-ups | collect, aggregate a day, prune | visits around midnight, failing statements, runs that are repeated, delayed, cancelled or overlap | a roll-up counts the visits of its day, a day summed up is accounted for at every site, pruning does not show | `VisitRollup` |
| Statistics (`site_stats.go`) | none | counts, top pages, trend, attribution, engagement | boundaries of intervals, days as texts, spellings | the statistics of one table agree with each other | `VisitStatistics` |
| Sessions and users (`auth.go`) | table `users` with stored avatars, sessions | authenticate, persist user, hand out the avatar | two first requests, a fetch between the read and the write, sessions with different profiles | the avatar is the one its URL names, is not lost, and settles | `UserAccounts` |
| Pinguin client (`internal/notifications`) | gRPC connection | send | time-outs after delivery | – | outcomes only |
| Server wiring (`cmd/server`) | – | start, shut down | order of the shutdown | every goroutine ends | the steps that meet the modules above |

What is left out, and why, is listed in section 5.

Interaction. Public and dashboard handlers run in one goroutine per request and
share the database. `CreateSite`, `ListSites` and `UpdateSite` hand copies of
rows to the favicon manager. `CreateFeedback` and the subscription handlers
publish to the two broadcasters, whose channels feed the streaming handlers of
the dashboard. `DeleteSite` removes a site under all of them. When the server's
runner returns, the deferred calls of `main` cancel the context of the manager's
worker and scheduler, wait for them, and close the broadcasters; requests may
still be running then.

`main` constructs neither a `VisitRollupJob` nor a scheduler for it: at this commit
the job runs only in the package's tests, and
`docs/LA-101-visit-analytics.md:44-46` plans its use. `VisitRollup` models the job
as its package offers it, as the runner of a `Scheduler`, together with the handler
that fills its table.

## 2. Modules

### Subscriptions and SubscriberLife

One action is one SQL statement or one gRPC call, with the local computation up
to the next; `pc[h]` is the next statement of request goroutine `h`, or its last
reply, and `job[h]` its local variables. The row identifier in `job` is what the
handler loaded, so a later write acts on a possibly stale decision.

| Action | Code |
|---|---|
| `Reject`, `Accept*` | arrival, early returns, site lookup, token parsing |
| `FindForCreate`, `Create`, `Resubscribe`, `SendConfirmation` | `CreateSubscription` of the public and the subscribe-test handlers |
| `FindForMutation`, `WriteConfirmed`, `WriteUnsubscribed`, `NotifyOwner` | `updateSubscriptionStatus` |
| `FindForLink`, `LoadSiteForLink` and the same writes | the two link handlers |
| `FindForAdmin` and the same writes, `DeleteSubscriber` | `UpdateSubscriberStatus`, `DeleteSubscriber` |
| `DeleteSite`, `Crash`, `Tick` | site deletion, end of the process, the clock |

gorm's `Updates` is modelled as an UPDATE by primary key that sets only its own
columns and may match nothing. Identifiers are UUIDs: `issued` keeps those drawn
so far. Time stamps are zero or not zero; a token's expiry is compared with the
clock. A gRPC call that failed may have delivered. `notices` counts what the owner
was told since the last consent, for `OneNoticePerConsent` and
`ImplementsSubscriberLife`, and stops at 2. `shown` holds the events that a request
has sent to the subscribe-test panel; `PanelMatchesReply` compares them with the reply
in the step that answers: a duplicate (409) has shown its failure, every other refusal
nothing, a submission answered 200 its success and the fate of the e-mail.
`LinkTakesEffect` says that a link handler which found its subscriber in a status to
change changes it, also when the site is deleted meanwhile: only a failing UPDATE or a
crash may prevent it.

`SubscriberLife` is the promise, without requests, tokens or statements: a subscriber
is new, pending, confirmed, unsubscribed or deleted, the owner is told once per
consent, and an unsubscribed one is confirmed again by nobody but the owner, who
opened the row while it was listed. `ImplementsSubscriberLife` maps the rows to it,
and to `deciding` the rows that an owner's request has loaded to confirm them.

### FaviconManager

`rows` holds the favicon columns; `held` are the row copies handed to
`scheduleFetch`, `editing` the copy an `UpdateSite` is about to `Save`. A time
stamp is never, within its interval, or past it. Results of a fetch are an icon,
none, an error, or a failing SQL statement.

| Action | Code |
|---|---|
| `CreateSite`, `ListSites`, `ReadForUpdate`, `SaveUpdate`, `DeleteSite` | the handlers of `admin.go` |
| `ScanSites`, `AbortScan` | `performScheduledRefresh` |
| `ScheduleFetch`, `EnqueueTask`, `EnqueueTimeout` | `scheduleFetch`, `enqueueTask` |
| `TakeTask`, `LoadSite`, `Persist`, `Finish`, `Exit` | `runWorker`, `processFetch`, `Service.Collect` |
| `Stop` | cancellation at shutdown |

### SiteRegistry and SiteList

`pc[h]` is the next statement of a request, as in `Subscriptions`; `job[h].row` is
the edited copy that `UpdateSite` saves. A list of allowed origins is a value with
two attributes, its lower-case text (`Folded`, what `EqualFold` compares) and the
set of origins it names (`OriginsOf`, what `parseAllowedOrigins` yields).
`messages` are the sites that have feedback. Three history variables: `maker`
remembers whose request inserted a site, and with it which identifiers are used;
`editor` remembers whose request wrote a row last, so that the abstract list can
say that this very user managed the site; `overlapped` remembers whether a request
ever arrived while another was served. What holds whatever overlaps
(`CreatorPermanent`) does not mention it; what an overlap can break, as finding 3
shows, is stated until the first one.

| Action | Code |
|---|---|
| `Arrive`, `Find`, `Check`, `Save` | `UpdateSite` |
| `Arrive`, `Check`, `Insert` | `CreateSite` |
| `Arrive`, `Find`, `Delete` | `DeleteSite` with its transaction |
| `Arrive`, `Find`, `AddMessage` | `CreateFeedback`, as far as it adds a row of a site |
| `Crash` | end of the process |

`SiteList` is the promise: one step per request, an edit only by someone who
manages the site at that moment, disjoint origins, identifiers never used again.
`ImplementsSiteList` says that every step before the first overlap is a step of it.
The transaction of `DeleteSite` is one step; that a failure inside it undoes the first
of its two statements is the work of the database.

### FeedbackDelivery

`pc[h]` is again the next statement or call of a request; a reply leaves it
"free", since no property tells replies apart. A row's `from` is the address and
the window it was admitted for. The window a request belongs to is read at its
arrival, before the mutex is taken. `After` is the order of the statements that
follow the insert, which both handlers share. The number of messages that an
announcement carries is left out.

| Action | Code |
|---|---|
| `ArrivePublic`, `IsRateLimited`, `FindSite`, `Insert` | `CreateFeedback` |
| `ArriveWidgetTest`, `FindSite`, `Insert` | `SubmitWidgetTestFeedback` |
| `Notify`, `Mark` | `NotifyFeedback`, `applyFeedbackNotification` |
| `Announce` | `broadcastFeedbackEvent` |
| `DeleteSite`, `Crash`, `Tick` | site deletion, end of the process, the clock |

### EventBroadcaster and EventStream

The mutex is explicit and the loops of `Broadcast` and `Close` take one step per
channel, since receives do not take the mutex. A send on, or a close of, a closed
channel sets `panicked`. `EventStream` is what a dashboard is promised: events in
order of publication, each at most once, none from before its subscription,
possibly with gaps, and no new stream after the shutdown. `ImplementsStream`
maps `broadcast`, `closed` and the handlers' last event to it.

### Scheduler

`handle` stands for the pair `cancel` and `done`; the members of `Loops` are the
goroutines that successive calls of `Start` launch. The mutex makes each of `Start`
and the first part of `Stop` one step; what `Stop` does after the unlock is a step
of its own.

| Action | Code |
|---|---|
| `Start`, `Trigger` | the methods; a refused `Start` changes nothing |
| `StopTakesHandle`, `StopCancels`, `StopReturnsNow` | `Stop`: under the mutex, `cancel()`, `<-done` |
| `End`, `RunsOnTrigger`, `RunsOnTimer` | the cases of the loop's `select` |
| `Finish` | the run returns, the timer is drained and set again |
| `ParentEnds` | the context given to `Start` ends |

### VisitStatistics

Operators only, one per method of the statistics provider, on a table `V` of
visits. Times are ticks and a day is `DayLength` of them. Paths are a text and a
number of trailing slashes; hosts, UTM values and visitors are numbers that compare
as their texts do; `Normal` is what trimming, lower-casing and cutting make of a
value. A list of values is ordered by rank: in place `i` stands the entry with `i - 1`
entries before it, which is what `sort.Slice` with that order yields. `DayForm` is the form in which the driver returns `DATE(...)`, which
`normalizeVisitTrendMapKey` brings to the form of the code. Percentages and means are
integers in hundredths. The code's limits are constants: `PagesDefault`,
`AttributionDefault` and `AttributionMax` are the 10, 10 and 50 of `TopPages` and
`normalizeVisitAttributionLimit`, `TrendDefault` and the like those of the windows. A
limit of 0 or less asks for the default.

`WindowsAgree` and `ListsAgree` say how the statistics of one table agree with each
other. A list accounts for every visit if its limit leaves room for all values, and
otherwise shows the most frequent ones. Their sums are sizes of sets of pairs (`Total`), so that facts about bijections
suffice to prove them.

### VisitRollup

Extends `Scheduler` and `VisitStatistics`. `request` says where each `CollectVisit`
is and, as history, whether its visit was stored after its day; `job` is the run
under way in each loop. `aggregated` and `missed` are history as well: the days whose
SELECT succeeded in time, and the sums whose INSERT failed.

| Action | Code |
|---|---|
| `Accept`, `Insert` | `CollectVisit`: lookups and checks, INSERT |
| `BeginRun` | the loop calls `Run`, after the timer or a trigger; it reads the clock, which fixes the previous day |
| `Aggregate` | the SELECT of that day, by site |
| `Save` | `NewSiteVisitRollup` and `FirstOrCreate` for one site |
| `Cutoff`, `Prune`, `EndRun` | `pruneOldVisits`: the clock is read again, the DELETE; the return to the loop |
| `Tick` | the clock |

The clock is read before the SELECT and before the DELETE, in steps of their own. So
when two runs overlap and `RetentionDays` midnights pass between the clock of one and
its SELECT, the other may have deleted the day in between, and the first sums up what
is left. `overlapped` holds the runs that met another, and a SELECT is `Timely` if its
run met none or the day cannot have been pruned yet; the lower bounds of
`RollupBracketed`, and `AggregatedIsAccounted`, speak of timely SELECTs. No document
of the repository promises more (two runs of one job overlap only around a `Stop` and a
new `Start`), so the rest is a limitation of the code and not a finding.

Two details of the code that a reader may not expect. `FirstOrCreate` gets a struct
with a fresh primary key, which gorm adds to the query, so it never finds an earlier
row: a second run on a day inserts second rows. The properties hold for each row.
And the roll-up counts the visits without a visitor identifier together as one
visitor more, the statistics do not count them; the model keeps the difference.
`docs/LA-101-visit-analytics.md:46` plans to trim rows "once rolled up", whereas the
job prunes by age alone; hence `AggregatedIsAccounted` speaks of days that a run has
summed up, not of all days.

### UserAccounts

One action is one statement or one fetch of `persistUser`; `req[h]` holds the profile
from the session cookie, the row that was read and the outcome of the fetch. Avatar
data is told apart by the picture it was fetched from. `typed` says whether a content
type is stored, not which: the type that a delayed request writes beside a newer
avatar is beyond the model.

| Action | Code |
|---|---|
| `LogIn`, `SessionEnds` | which profiles valid cookies carry |
| `Arrive`, `Answered` | a request passes the session check; the handler proper has run |
| `Load` | `First`, the decision to fetch |
| `Fetch` | `fetchAvatar` |
| `Create`, `Update` | INSERT or UPDATE of the differing columns, the avatar path |

## 3. Runs

| Run | Question | Bounds, and why they are enough |
|---|---|---|
| `subs_serial` | Do requests in any order, one at a time, ask for, grant and withdraw consent correctly, do they implement the abstract life of a subscriber, and does a link take effect although its site is gone? | 1 handler, 1 site, 2 identifiers, 2 spellings of one address, TTL 1, clock to 2, crashes and failing statements: tokens expire, links meet re-created rows, the site is deleted under its links, also between two statements of a link's handler. Overlapping requests are the matter of the next two runs. That a link never reaches a row of another site is proved for any number of sites |
| `subs_concurrent` | What holds when two requests interleave? | 2 handlers, 1 site, 2 identifiers, 3 spellings of two addresses, clock stopped. All properties concern one or two rows and at most two writers; expiry only removes behaviour |
| `subs_race` | finding 1 | the smallest instance: 2 handlers, 1 identifier |
| `favicon_queue` | Is the in-flight map exact? | 2 sites and a queue of 1, so that a task must wait and may time out; queries and updates of the worker that fail: a path that forgets to release its site would leave it marked without a task |
| `favicon_liveness` | Does every fetch end, do origin and icon settle, does `Stop` return? | 1 site, 2 origins of which one always resolves and the other also fails, 2 updates, which may name the old origin again and save a stale copy. Waiting senders and failing statements are in `favicon_queue` |
| `favicon_update` | finding 2 | 1 site, 2 origins, 1 update |
| `registry` | Does a site keep its creator whatever overlaps, and do the requests implement the atomic list of sites until two overlap? | 2 handlers, 2 sites (a conflict concerns two), an admin and an ordinary user, the texts `a`, `A`, `b` and `a b`; symmetric in the handlers and the sites. After an overlap only owner and creator are of interest: the constraint `Explored` then lets requests go on that use one list, including saves of stale copies and of deleted rows, and no feedback |
| `registry_race` | finding 3 | 2 handlers, 1 user |
| `feedback` | Do the limit, the delivery mark and the announcement hold when requests overlap and anything may fail? | 2 requests, 1 site, 2 messages, 1 address, a limit of 1 (two messages exceed it), 2 windows, all faults |
| `broadcaster` | Are panics, disorder, blocking and lingering streams excluded? | 2 publishers, 2 dashboards of which one never has to read, 3 subscriptions (one is renewed), buffers of 2, 4 events so that buffers overflow. Deadlock is not checked because all actors may stop for good |
| `visits` | Are no loop and no day lost, and do roll-ups, pruning and statistics agree with the visits? | 2 sites and 2 visits, of one visitor to two spellings of a page, or anonymous, or of a bot, or invalid; 2 ticks a day and a clock from 1 to 4, so that visits fall before, on and after midnight; a retention of 1 day; 2 runs, 2 loops and 1 caller of `Stop`, so that a run may be repeated, delayed or overlap. The constraint `Explored` keeps calls of `Stop` and a second `Start`, hence overlapping runs, at any time as long as only the first visit was sent; `Trigger` and the end of the parent context as long as nothing was sent, on the first day; all visits with one loop on its timer. An overlapped SELECT that finds its day pruned is reached with the one visit; that it finds late visits only would take a second one, and is covered by the proof. Lists of 0 (the default) and of 2 entries are asked for, with defaults and a maximum of 1, so that the cap cuts. Deadlock is not checked: clock and runs end |
| `accounts` | Does the stored avatar stay true and settle? | 1 user (rows of users are independent), 2 requests, 2 names, 2 pictures of which one may fail and one may be empty, 2 logins, a row of an earlier version. Deadlock is not checked: all sessions may end |

These two runs do not list `TypeOK`: that of `UserAccounts` is proved, and the types
of `VisitRollup` that matter are the part `Types` of its inductive invariant.

Symmetry is used only in runs without liveness properties, over handlers,
identifiers or sites that the module treats alike.

Fairness. A goroutine that has a statement, call, send or receive to perform
performs it (weak fairness per goroutine): the Go scheduler starves nobody,
statements and calls end with a result or an error, and gRPC calls have a
time-out. No fairness is assumed of arriving requests, updates, deletions,
crashes, connecting, disconnecting or a shutdown, nor that a client in `Stalled`
reads. In `FaviconManager` the hourly timer keeps the scan going and the
intervals pass. `Exit` has strong fairness: between a cancelled context and a
filled queue Go's `select` chooses at random, so it does not choose the queue for
ever. For the same reason the end of a scheduler's loop has strong fairness in
`VisitRollup`; a run under way goes on and a `Stop` that has begun goes on (weak),
while nothing is assumed of calls of `Start` or `Trigger`, of the timer or the clock.
In `UserAccounts` a request that has arrived goes on (weak).

`ProfileSettles` carries its assumption itself: it speaks of users whose sessions
are down to one profile and whose requests go through again and again. Without
requests nothing is written, and a fetch or statement may fail for ever.

`IconSettles` speaks of sites whose origin always resolves (`Reliable`); where
fetches fail an old icon may stay, as `Collect` leaves the data alone.

### Findings

1. **A confirmation can overwrite an unsubscription** (`subs_race`). A confirm
   request reads a pending row, an unsubscribe request writes `unsubscribed`, the
   confirm request then writes `confirmed`: its UPDATE has no condition on the
   status. The tests expect a confirmation after an unsubscription to be refused
   (`internal/api/public_test.go:479`).
2. **A changed origin is not fetched immediately** (`favicon_update`). A fetch
   asked for while the site is in flight is dropped, even if the running fetch
   read the old origin. `ARCHITECTURE.md:59-60` says favicons are refreshed
   immediately after updates. `FaviconOriginSettles` shows that a later listing
   or scan repairs it.

3. **Two sites can share an origin** (`registry_race`). The conflict check and the
   insert are separate statements and no index backs them; of two requests that
   both check first, both succeed. The archive of issues
   (`issues.md/ISSUES_ARCHIVE.md:60`) and the tests (`internal/api/admin_test.go:1061`)
   expect the second one to be refused.

## 4. Proofs

`SubscriptionsProofs` (for any number of handlers, sites, identifiers and
addresses, any TTL and clock bound), from `LowerAssumption` (lowering a lowered
address changes nothing), `NoneAssumption` and `ParameterAssumption`. The
inductive invariant `IInv` adds to the type invariant and the properties that a
row's identifier has been issued (`Fresh`: a new row cannot meet an old token or
job), and that a handler about to send a token works for the row it names
(`JobBoundToRow`: a row that is still there has the job's site and address).
Without the first, `MailBoundToRow` and `NoResurrection` are not inductive;
without the second, a token could be mailed for another address.

- `TypeCorrect`, `AtMostOneRow`, `StampsAgree`, `LinksStayBound`:
  `Spec => []TypeOK`, `[]UniqueSiteEmail`, `[]StampsMatchStatus`,
  `[]MailBoundToRow`.
- `PanelTellsTheReply`: `Spec => PanelMatchesReply`, by the invariant `Panel`: a
  handler that does not yet know how its request ends has broadcast nothing, unless
  it is about to mail.
- `NoResurrection`: `Spec => DeletedStaysDeleted`.

Its last part assumes in addition a single handler, `Handlers = {h}`: requests follow
each other, while statements fail and the process ends at any point. For two handlers
the statements are false, as finding 1 shows. `SInv` adds to `IInv` that what the
request has read is still so (`Current`: its row is there, with the status the next
statement was decided on, and an owner about to be told has not been told yet) and
that an owner was told at most once since the last consent, and not at all of a row
that is pending (`OncePerConsent`).

- `OneNotice`: `Spec => []OneNoticePerConsent`.
- `UnsubscribedStays`: `Spec => NoConfirmAfterUnsubscribe`.
- `LifeImplemented`: `Spec => ImplementsSubscriberLife`, one case per statement.

`FaviconManagerProofs` (any number of sites, origins and clients and any capacity
of the queue), from `ScannerAssumption`, `NoneAssumption` and
`ParameterAssumption`. `InFlightExact` says more than that the map is right: the
tasks of the queue, of the waiting senders and of the worker are of different
sites. That makes it inductive together with the type invariant and
`WorkerHasTask` (a busy worker has a task, a collecting one a row).

- `TypeCorrect`, `MapExact`: `Spec => []TypeOK`, `[]InFlightExact`.

`EventBroadcasterProofs` (any number of publishers, streams, events and any
buffer length), from `BufferAssumption`, `BoundsAssumption` and
`GoroutineAssumption`. `IInv` says that channels of registered subscriptions are
open and those the loop of a publisher still has to visit are registered
(`Registered`, hence no panic), that a buffer is increasing and ends before or at
the event under way (`BuffersOrdered`), and that a handler's last event precedes
its buffer (`HandlersBehind`).

- `TypeCorrect`, `NeverPanics`: `Spec => []TypeOK`, `[]NoPanic`.
- `StreamImplemented`: `Spec => ImplementsStream`; every step is a step of
  `EventStream` or leaves its variables unchanged.
- `CloseReachesAll`: once `Close` has returned, every channel that was handed out is
  closed. Its invariant `Shutting` says that an open channel is registered and that
  the loop of `Close` still has to visit whatever is registered.

`FeedbackDeliveryProofs` (any number of requests, sites, messages and addresses,
any limit and faults), from `ParameterAssumption` and `NoneAssumption`. `IInv`
adds what a request knows (`Knows`: its message is stored and not announced
before it announces it, and the owner has been notified before the UPDATE) and
that no two requests work on one message (`Apart`).

- `TypeCorrect`, `MarksAreTrue`: `Spec => []TypeOK`, `[]DeliveryTruthful`.
- `AnnouncedStaysFinal`: `Spec => AnnouncedIsFinal`.
- `LimitHolds`: `Spec => []WindowBound`. The messages of an address and window that
  are stored and the admitted requests on their way to the INSERT are together no
  more than the counter, and no more than the limit (`Room`). The proof needs both
  sets finite, hence the cited facts of `FiniteSetTheorems`.
- `NoMessageForgotten`: a message stored since the start of the server is announced,
  or held by a request that is on its way there.

`SiteRegistryProofs` (any number of requests, sites, users, lists and origins),
from `NoneAssumption` and `ListsAssumption`. `IInv` adds to types and
`CreatorPermanent` what each request knows at each statement (`Knows`): the copy
`UpdateSite` carries has the creator recorded for its site, even if the row is
deleted before the copy is saved.

- `TypeCorrect`, `CreatorStays`: `Spec => []TypeOK`, `[]CreatorPermanent`.

Its second part is about the time until two requests overlap, again for any number of
handlers; without that limit the statements are false (finding 3). `OInv` adds to
`IInv`: unless requests have overlapped, at most one is served, what it has read still
holds (`Current`: the site is there, its user manages it, and no other site claims an
origin of the list about to be written), origins are disjoint and no feedback is
orphaned. `TableStep` sums up what a step does to the tables.

- `OriginsStayDisjoint`, `FeedbackHasSite`: `Spec => []SerialOriginsDisjoint`,
  `[]NoOrphanedFeedback`.
- `SerialImplements`: `Spec => ImplementsSiteList`.

`VisitRollupProofs` (any number of loops, callers, sites and visits, any beacons,
retention, length of a day and bounds), from `NoLoopAssumption`,
`StatisticsAssumption`, `VisitAssumption` and `BeaconAssumption`. It has four parts.

First the scheduler by itself: `Owned` adds to `LoopsOwned` that the loop of the
handle, and every loop that a call of `Stop` holds, was started, so that the loop the
next `Start` launches is another one.

- `SchedulerOwnsLoops`: `SchedulerSpec => [](SchedulerTypeOK /\ LoopsOwned)`.
- `ImplementsScheduler`: `Spec => SchedulerSpec`: every action of the job is a step
  of the scheduler or leaves its variables alone; `NoLoopLost` follows.

Then the job. `IInv` says where a run is and that runs which are under way together
have been recorded as overlapped (`Runs`), that the day about to be summed up is over
and a cutoff lies far enough back (`Days`), and that the visits of a `Safe` day which
were stored are in the table (`Table`): a day within the retention of the clock, or one
that a run which met no other is still about to sum up. A timely SELECT reads a safe
day, so its sums count what a roll-up must count (`Bracketed`, also of sums about to be
saved: `RollupBracketed` by itself is not inductive, it says nothing of a run between
its SELECT and its INSERTs). A day summed up is over, so no visit of it can still be
stored in time (`Accounted`).

- `RollupsAreBracketed`, `DaysAreAccounted`: `Spec => []RollupBracketed`,
  `[]AggregatedIsAccounted`; the upper bounds for every run, the lower bounds for timely
  ones.
- `NoRunAfterStop`: when all calls of `Stop` have returned and `Start` was not called
  again, no loop and no run of the job is left.

Then an action property about operators: a deletion is a `Prune`, a `Prune` deletes
nothing of the window of `RetentionDays + 1` days, and trend and engagement depend on
that window alone.

- `PruningIsInvisible`: `Spec => PruneKeepsStatistics`.

Last, the statistics. `Sends` adds to the invariant that no visit is from after now and
that its values are those of a beacon; the rest is a fact about any finite table.

- `StatisticsAlwaysAgree`: `Spec => []StatisticsAgree`.

`VisitStatisticsProofs` proves that fact: `ListsAlwaysAgree` and `WindowsAlwaysAgree`
hold of every finite table whose times and values are in their domains (`Readable`), for
any window, number of entries, limit, day form and bounds of the distributions. No step needs an induction: a
classification of the rows makes pairs of a class and a row, which correspond one to one
to the pairs that `Total` counts (`TotalOfClasses`), and covers by overlapping sets only
make more (`TotalCovers`). That the entries of a list have the ranks from 0 on, each
once, follows from the injection of the entries into as many ranks (`RankTaken`). The
texts of days do not collide, because `DayKey` leaves the day alone. It assumes of
`Normal` that its values are numbers, which stands for the code comparing texts, and of
the bounds of a distribution that they ascend.

`UserAccountsProofs` (any number of users, requests, names and pictures, any
outcomes), from `AccountsAssumption`. `IInv` adds to `TypeOK` and `AvatarTruthful`
that source and data of a row belong together (`Tied`), and what a request knows of
the current row from the one it read (`Knows`): the row is still there, and an avatar
that could be loaded still can be, unless an empty picture replaced it (`Loadable`).

- `AvatarStaysTruthful`: `Spec => [](TypeOK /\ AvatarTruthful)`.
- `AvatarIsKept`: `Spec => AvatarKept`.
- `SettledForGood`: a user whose row matches the one profile that his sessions and
  requests carry stays so, and no request fetches or writes any more.

Only model-checked: the liveness properties (`LinkTakesEffect`, `NoSiteStuck`,
`FaviconOriginSettles`, `IconSettles`, `StopCompletes`, `BroadcastReturns`,
`StreamsEnd`, `EveryMessageAnnounced`, `StopReturns`, `ProfileSettles`), which are
out of the prover's reach. Of some, the part that is a matter of safety is proved:
`MapExact` (a site in flight has a task), `CloseReachesAll`, `NoMessageForgotten`,
`SchedulerOwnsLoops`, `SettledForGood`; what remains is that whoever can go on does.

## 5. Not modelled, and what could come next

- The favicon resolver's HTML and HTTP work, fetching a picture, sending through
  Pinguin: their outcomes are inputs of the models.
- The fan-out of favicon events (`Subscribe`, `broadcast`): it resembles
  `EventBroadcaster`, but its `Subscribe` does not look at the stop, so a late stream
  ends only with its client. A module of its own could compose it with `FaviconManager`.
- The number of messages that an announcement of feedback carries. It is queried
  before the broadcast takes the mutex, so the counts may arrive out of order; no
  promise of the repository speaks of it.
- The validation of session cookies, which a library does, and the choice of the
  recipients of notifications.
- Feedback and subscriber counts of the statistics, which are single COUNT queries,
  and the handlers that format the statistics.
- Opening and migrating the database, the configuration audit command, the scripts
  that run in the browser, generated gRPC code, static pages: no state to explore.

## 6. Running

    tlc -workers 2 -config SubscriptionsConcurrent.cfg MCSubscriptions
    tlapm SubscriptionsProofs.tla

The operators marked "faulty variant" are not part of the specifications. Each is
a plausible error in the operator that follows it, and shows that the property
named in `PROJECT.json` under "mutants" would notice it.
