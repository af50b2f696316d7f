------------------------------- MODULE VisitRollup -------------------------------
(* The visits of a site: internal/api/visit_collector.go records them, the  *)
(* statistics of VisitStatistics read them, and the job of                  *)
(* internal/task/visit_rollup.go sums up the previous day and deletes the   *)
(* old rows.  The job runs in the loops of Scheduler, the runner of the     *)
(* package it belongs to.                                                   *)
(*                                                                          *)
(* A handler and the job are cut into one action per database statement;    *)
(* the clock may move on between any two of them.                           *)
EXTENDS Scheduler, VisitStatistics

CONSTANTS
    None,            \* stands for no beacon
    Sites,           \* identifiers of the sites that exist
    Requests,        \* calls of CollectVisit, each made at most once
    Beacons,         \* Beacons[q]: what call q may send
    RetentionDays,   \* VisitRollupConfig.RetentionDays
    Limits,          \* numbers of entries that callers of the statistics ask for
    FirstTick, MaxNow, \* bounds of the clock
    MaxRuns          \* bound on the runs of the job

VARIABLES
    now,             \* time.Now(), in ticks
    request,         \* where each call is, what it sent, the time at which it
                     \* was accepted, and whether that day was over when the
                     \* visit was stored
    visits,          \* table site_visits
    rollups,         \* table site_visit_rollups
    job,             \* the run under way in each loop
    runs,            \* number of runs begun
    overlapped,      \* history: loops whose run met another run
    aggregated,      \* history: days whose visits a run has summed up in time
    missed           \* history: sums <<site, day>> that could not be saved

history == <<overlapped, aggregated, missed>>
visitVars == <<now, request, visits, rollups, job, runs, history>>
tables == <<visits, rollups>>
vars == <<schedulerVars, visitVars>>

ASSUME VisitAssumption ==
    /\ RetentionDays \in Nat /\ Limits \subseteq Int
    /\ FirstTick \in Nat /\ MaxNow \in Nat /\ FirstTick <= MaxNow
    /\ \A q \in Requests : None \notin Beacons[q]

ASSUME BeaconAssumption ==
    \A q \in Requests : \A b \in Beacons[q] :
        /\ b.path.name \in Nat
        /\ {b.referrer, b.utm.source, b.utm.medium, b.utm.campaign} \subseteq DOMAIN Normal

Today == Day(now)
Sum == [site : Sites, views : Nat, uniques : Nat]
Call(pc, b, t) == [pc |-> pc, beacon |-> b, at |-> t, late |-> FALSE]
Rejected == Call("rejected", None, FirstTick)
NoRun == [pc |-> "idle", day |-> 0, sums |-> {}, timely |-> FALSE]

Init ==
    /\ SchedulerInit
    /\ now = FirstTick
    /\ request = [q \in Requests |-> Call("new", None, FirstTick)]
    /\ visits = {}
    /\ rollups = {}
    /\ job = [l \in Loops |-> NoRun]
    /\ runs = 0
    /\ overlapped = {}
    /\ aggregated = {}
    /\ missed = {}

Tick ==
    /\ now < MaxNow
    /\ now' = now + 1
    /\ UNCHANGED <<schedulerVars, tables, request, job, runs, history>>

------------------------------------------------------------------------------
(* CollectVisit: the site is looked up, the origin checked, the row built   *)
(* with the current time; then the row is inserted.                         *)
Acceptable(b) == /\ b.site \in Sites
                 /\ b.originAllowed
                 /\ b.urlValid
                 /\ b.visitorValid

Accept(q) ==
    /\ request[q].pc = "new"
    /\ \E b \in Beacons[q] :
          request' = [request EXCEPT ![q] =
              IF Acceptable(b) THEN Call("insert", b, now) ELSE Rejected]
    /\ UNCHANGED <<schedulerVars, tables, now, job, runs, history>>

NewSiteVisit(q) ==
    LET b == request[q].beacon
    IN  [id |-> q, site |-> b.site, path |-> b.path, visitor |-> b.visitor, bot |-> b.bot,
         at |-> request[q].at, utm |-> b.utm, referrer |-> b.referrer]

Insert(q) ==
    /\ request[q].pc = "insert"
    /\ \/ /\ request' = [request EXCEPT ![q].pc = "stored",
                                            ![q].late = Today # Day(request[q].at)]
          /\ visits' = visits \cup {NewSiteVisit(q)}
       \/ /\ request' = [request EXCEPT ![q] = Rejected]
          /\ UNCHANGED visits
    /\ UNCHANGED <<schedulerVars, now, rollups, job, runs, history>>

------------------------------------------------------------------------------
(* VisitRollupJob.Run as the runner of a loop.  It reads the clock first:   *)
(* the previous day is fixed before anything is read from the table.        *)
PreviousDay == Today - 1
UnderWay == {l \in Loops : job[l].pc # "idle"}

BeginRun(l) ==
    /\ runs < MaxRuns
    /\ RunsOnTrigger(l) \/ RunsOnTimer(l)
    /\ job' = [job EXCEPT ![l] =
           [pc |-> "aggregate", day |-> PreviousDay, sums |-> {}, timely |-> FALSE]]
    /\ runs' = runs + 1
    /\ overlapped' = IF UnderWay = {} THEN overlapped ELSE overlapped \cup UnderWay \cup {l}
    /\ UNCHANGED <<now, request, tables, aggregated, missed>>

(* A statement may fail; one that starts under a cancelled context does.    *)
MaySucceed(l) == ~ContextDone(l)

(* SELECT site_id, COUNT of visits, COUNT of distinct visitors ... GROUP BY *)
(* of the previous day in UTC.  Visits without an identifier count as one   *)
(* more visitor here.                                                       *)
DayAndMore(d) == {v \in visits : ~v.bot /\ Day(v.at) \in {d, d + 1}}  \* faulty variant: no upper end
OfDay(d) == {v \in visits : ~v.bot /\ Day(v.at) = d}
SumsOf(d) ==
    {[site |-> s,
      views |-> Cardinality({v \in OfDay(d) : v.site = s}),
      uniques |-> Cardinality({v.visitor : v \in {w \in OfDay(d) : w.site = s}})] :
        s \in {v.site : v \in OfDay(d)}}

(* What comes after the sums are saved: Run prunes if it has a retention.   *)
AfterSums(sums) == IF sums # {} THEN "save" ELSE IF RetentionDays > 0 THEN "cutoff" ELSE "done"

(* Whether the rows of the run's day may not have been deleted meanwhile by *)
(* another run with a later clock: history, decided at the SELECT.          *)
Timely(l) ==
    \/ RetentionDays = 0
    \/ l \notin overlapped
    \/ job[l].day >= Today - RetentionDays

Aggregate(l) ==
    LET d == job[l].day
    IN  /\ job[l].pc = "aggregate"
        /\ \/ /\ MaySucceed(l)
              /\ job' = [job EXCEPT ![l] =
                     [pc |-> AfterSums(SumsOf(d)), day |-> d, sums |-> SumsOf(d),
                      timely |-> Timely(l)]]
              /\ aggregated' = IF Timely(l) THEN aggregated \cup {d} ELSE aggregated
           \/ /\ job' = [job EXCEPT ![l].pc = "done"]
              /\ UNCHANGED aggregated
        /\ UNCHANGED <<schedulerVars, now, request, tables, runs, overlapped, missed>>

(* NewSiteVisitRollup and FirstOrCreate.  The row carries a fresh           *)
(* identifier, which gorm adds to the query, so no earlier row of the day   *)
(* is ever found: the row is always inserted.  A failure is logged and the  *)
(* run goes on with the next site.  `timely` is history, not a column.      *)
RollupRow(l, s) ==
    [id |-> Cardinality(rollups) + 1, site |-> s.site, day |-> job[l].day,
     views |-> s.views, uniques |-> s.uniques, timely |-> job[l].timely]

StopsAtFailure(l, s, saved) == IF saved THEN job[l].sums \ {s} ELSE {}  \* faulty variant
Remaining(l, s, saved) == job[l].sums \ {s}

Save(l) ==
    /\ job[l].pc = "save"
    /\ \E s \in job[l].sums, saved \in BOOLEAN :
          /\ saved => MaySucceed(l)
          /\ IF saved
             THEN rollups' = rollups \cup {RollupRow(l, s)} /\ UNCHANGED missed
             ELSE missed' = missed \cup {<<s.site, job[l].day>>} /\ UNCHANGED rollups
          /\ job' = [job EXCEPT ![l].sums = Remaining(l, s, saved),
                                ![l].pc = AfterSums(Remaining(l, s, saved))]
    /\ UNCHANGED <<schedulerVars, now, request, visits, runs, overlapped, aggregated>>

(* pruneOldVisits: the cutoff is midnight, RetentionDays before the clock;  *)
(* then everything before it is deleted.  From here on `day` is the cutoff. *)
Cutoff(l) ==
    /\ job[l].pc = "cutoff"
    /\ job' = [job EXCEPT ![l].pc = "prune", ![l].day = Today - RetentionDays]
    /\ UNCHANGED <<schedulerVars, now, request, tables, runs, history>>

KeepsLessThanADay(v, cutoff) == Day(v.at) > cutoff  \* faulty variant: one day too many
Kept(v, cutoff) == Day(v.at) >= cutoff

Prune(l) ==
    /\ job[l].pc = "prune"
    /\ \/ MaySucceed(l) /\ visits' = {v \in visits : Kept(v, job[l].day)}
       \/ UNCHANGED visits
    /\ job' = [job EXCEPT ![l].pc = "done"]
    /\ UNCHANGED <<schedulerVars, now, request, rollups, runs, history>>

EndRun(l) ==
    /\ job[l].pc = "done"
    /\ Finish(l)
    /\ job' = [job EXCEPT ![l] = NoRun]
    /\ overlapped' = overlapped \ {l}
    /\ UNCHANGED <<now, request, tables, runs, aggregated, missed>>

RunStep(l) == Aggregate(l) \/ Save(l) \/ Cutoff(l) \/ Prune(l) \/ EndRun(l)

------------------------------------------------------------------------------
Next ==
    \/ Control /\ UNCHANGED visitVars
    \/ Tick
    \/ \E q \in Requests : Accept(q) \/ Insert(q)
    \/ \E l \in Loops : BeginRun(l) \/ RunStep(l)

Spec == Init /\ [][Next]_vars

(* A loop whose context is done leaves its select in the end, whatever else *)
(* is ready: select picks among the ready cases at random.                  *)
Fairness ==
    /\ \A c \in Callers : WF_vars((StopCancels(c) \/ StopReturnsNow(c)) /\ UNCHANGED visitVars)
    /\ \A l \in Loops : SF_vars(End(l) /\ UNCHANGED visitVars) /\ WF_vars(RunStep(l))

FairSpec == Spec /\ Fairness
------------------------------------------------------------------------------
(* Every variable stays in its domain.                                      *)
TypeOK ==
    /\ SchedulerTypeOK
    /\ now \in FirstTick..MaxNow
    /\ request \in [Requests -> [pc : {"new", "insert", "rejected", "stored"},
                                 beacon : (UNION {Beacons[q] : q \in Requests}) \cup {None},
                                 at : FirstTick..MaxNow, late : BOOLEAN]]
    /\ visits \subseteq {NewSiteVisit(q) : q \in {p \in Requests : request[p].pc = "stored"}}
    /\ \A r \in rollups : r.site \in Sites /\ r.day < Today /\ r.views > 0
    /\ \A l \in Loops :
          /\ job[l].pc \in {"idle", "aggregate", "save", "cutoff", "prune", "done"}
          /\ job[l].pc # "idle" <=> loop[l] = "running"
          /\ job[l].sums \subseteq Sum
          /\ job[l].sums # {} => job[l].pc = "save"
    /\ runs \in 0..MaxRuns
    /\ overlapped \subseteq UnderWay

(* The human visits of a site that occurred on a day: all that were ever    *)
(* stored, and those that were stored before the day was over.              *)
Recorded(s, d) ==
    {q \in Requests : /\ request[q].pc = "stored"
                      /\ request[q].beacon.site = s /\ ~request[q].beacon.bot
                      /\ Day(request[q].at) = d}
InTime(s, d) == {q \in Recorded(s, d) : ~request[q].late}
VisitorsOf(Q) == {request[q].beacon.visitor : q \in Q}

(* A roll-up counts no visit of another day, site or bot, and each one once *)
(* (upper bounds); and it counts every human visit of its site and day that *)
(* was stored before midnight (lower bounds), in a repeated and in a late   *)
(* run too, since the pruning of earlier runs leaves the day alone.  Visits *)
(* accepted before midnight and stored after it may or may not be counted.  *)
(* The lower bounds need a timely run: when runs overlap and RetentionDays  *)
(* midnights pass between the clock of one and its SELECT, the other may    *)
(* have deleted the rows in between.                                        *)
RollupBracketed ==
    \A r \in rollups :
        LET sure == InTime(r.site, r.day)
            all  == Recorded(r.site, r.day)
        IN  /\ r.views <= Cardinality(all)
            /\ r.uniques <= Cardinality(VisitorsOf(all))
            /\ r.timely => /\ r.views >= Cardinality(sure)
                           /\ r.uniques >= Cardinality(VisitorsOf(sure))

(* Once a timely run has summed up a day, every site with visits of that    *)
(* day has a roll-up of it, or one that a run is still about to save, or    *)
(* one whose failed save was logged: the failure of one site costs no other *)
(* its sums.                                                                *)
AggregatedIsAccounted ==
    \A d \in aggregated, s \in Sites : InTime(s, d) # {} =>
        \/ \E r \in rollups : r.site = s /\ r.day = d
        \/ \E l \in Loops : job[l].day = d /\ \E x \in job[l].sums : x.site = s
        \/ <<s, d>> \in missed

(* Pruning is invisible in the statistics of as many days as the retention  *)
(* keeps: today and RetentionDays days before it.                           *)
PruneKeepsStatistics ==
    [][ \A s \in Sites, n \in 1..RetentionDays + 1 : visits \ visits' # {} =>
          /\ VisitTrend(visits', s, n, Today) = VisitTrend(visits, s, n, Today)
          /\ VisitEngagement(visits', s, n, Today) = VisitEngagement(visits, s, n, Today)
      ]_vars

(* The statistics of the visits agree with each other, as WindowsAgree and  *)
(* ListsAgree of VisitStatistics say, whatever was collected and pruned and *)
(* for every number of days and of entries that is asked for.               *)
StatisticsAgree ==
    \A s \in {v.site : v \in visits} :
        /\ \A n \in Limits : ListsAgree(visits, s, n)
        /\ \A n \in 1..Min({TrendMax, EngagementMax}) : WindowsAgree(visits, s, n, Today)

=================================================================================
