--------------------------- MODULE VisitRollupProofs ---------------------------
(* Proofs about the scheduler and the visits of a site, for any number of   *)
(* loops, callers, sites, requests and runs and any length of a day: no     *)
(* loop is lost, also when its runs are those of VisitRollup; a run that    *)
(* summed up a day accounts for every site; pruning is invisible; the       *)
(* statistics of the visits agree with each other.                          *)
EXTENDS VisitRollup, VisitStatisticsProofs, FiniteSetTheorems, TLAPS

------------------------------------------------------------------------------
(* The scheduler alone.  Why LoopsOwned needs strengthening: a call of Stop *)
(* holds a loop that was started, so the one the next Start launches is     *)
(* another.                                                                 *)
Stopping(c) == stopping[c] \in [step : {"cancel", "join"}, loop : Loops]
Owned ==
    /\ SchedulerTypeOK
    /\ handle # NoLoop => loop[handle] # "unborn"
    /\ \A c \in Callers : stopping[c] = Idle \/ Stopping(c)
    /\ \A c \in Callers : Stopping(c) =>
          /\ loop[stopping[c].loop] # "unborn"
          /\ stopping[c].loop # handle
    /\ \A l \in Loops : loop[l] \in {"waiting", "running"} =>
          l = handle \/ \E c \in Callers : Stopping(c) /\ stopping[c].loop = l

LEMMA IdleIsNotStopping == \A c \in Callers : stopping[c] = Idle => ~Stopping(c)
BY DEF Idle, Stopping

LEMMA OwnedInit == SchedulerInit => Owned
<1> SUFFICES ASSUME SchedulerInit PROVE Owned
  OBVIOUS
<1>1. SchedulerTypeOK
  BY DEF SchedulerInit, SchedulerTypeOK, Places, Steps, Idle
<1>2. \A c \in Callers : stopping[c] = Idle /\ ~Stopping(c)
  BY DEF SchedulerInit, Idle, Stopping
<1> QED
  BY <1>1, <1>2 DEF SchedulerInit, Owned

(* A step that leaves the handle and the callers alone and moves one loop   *)
(* between places other than "unborn" keeps the ownership.                  *)
LEMMA OwnedMove ==
    ASSUME Owned, NEW l \in Loops, NEW from \in Places \ {"unborn"}, NEW to \in Places \ {"unborn"},
           from = "waiting" \/ to = "waiting", from # "ended",
           Moves(l, from, to), UNCHANGED <<handle, cancelled, parentDone, stopping>>,
           trigger' \in BOOLEAN
    PROVE  Owned'
<1>1. loop' \in [Loops -> Places] /\ loop'[l] = to /\ loop[l] = from
  BY DEF Owned, SchedulerTypeOK, Moves
<1>2. \A k \in Loops \ {l} : loop'[k] = loop[k]
  BY DEF Owned, SchedulerTypeOK, Moves
<1>3. from \in {"waiting", "running"}
  BY DEF Places
<1>4. SchedulerTypeOK'
  BY <1>1 DEF Owned, SchedulerTypeOK
<1>5. \A c \in Callers : Stopping(c)' <=> Stopping(c)
  BY DEF Stopping
<1>6. \A k \in Loops : loop'[k] = "unborn" <=> loop[k] = "unborn"
  BY <1>1, <1>2
<1>7. \A c \in Callers : Stopping(c) => stopping[c].loop \in Loops
  BY DEF Stopping
<1>8. (handle # NoLoop => loop[handle] # "unborn")'
  BY <1>6 DEF Owned, SchedulerTypeOK
<1>9. \A c \in Callers : Stopping(c)' =>
          (loop[stopping[c].loop] # "unborn" /\ stopping[c].loop # handle)'
  BY <1>5, <1>6, <1>7 DEF Owned
<1>10. \A k \in Loops : loop'[k] \in {"waiting", "running"} =>
          k = handle' \/ \E c \in Callers : Stopping(c)' /\ stopping'[c].loop = k
  BY <1>1, <1>2, <1>3, <1>5 DEF Owned
<1> QED
  BY <1>4, <1>8, <1>9, <1>10, <1>5 DEF Owned, Idle

LEMMA OwnedStep == Owned /\ [SchedulerNext]_schedulerVars => Owned'
<1> SUFFICES ASSUME Owned, [SchedulerNext]_schedulerVars PROVE Owned'
  OBVIOUS
<1> USE NoLoopAssumption
<1>1. CASE Start
  <2>1. PICK l \in Loops : Moves(l, "unborn", "waiting") /\ handle' = l /\ handle = NoLoop
    BY <1>1 DEF Start, StartRefused
  <2>2. UNCHANGED <<cancelled, parentDone, trigger, stopping>>
    BY <1>1 DEF Start
  <2>3. /\ loop' \in [Loops -> Places] /\ loop'[l] = "waiting" /\ loop[l] = "unborn"
        /\ \A k \in Loops \ {l} : loop'[k] = loop[k]
    BY <2>1 DEF Owned, SchedulerTypeOK, Moves, Places
  <2>4. SchedulerTypeOK'
    BY <2>1, <2>2, <2>3 DEF Owned, SchedulerTypeOK
  <2>5. \A c \in Callers : Stopping(c)' <=> Stopping(c)
    BY <2>2 DEF Stopping
  <2>6. \A c \in Callers : Stopping(c) => stopping[c].loop \in Loops \ {l}
    BY <2>3 DEF Owned, Stopping
  <2>7. \A c \in Callers : Stopping(c)' =>
          (loop[stopping[c].loop] # "unborn" /\ stopping[c].loop # handle)'
    BY <2>1, <2>2, <2>3, <2>5, <2>6 DEF Owned
  <2>8. \A k \in Loops : loop'[k] \in {"waiting", "running"} =>
          k = handle' \/ \E c \in Callers : Stopping(c)' /\ stopping'[c].loop = k
    BY <2>1, <2>2, <2>3, <2>5 DEF Owned
  <2> QED
    BY <2>1, <2>2, <2>3, <2>4, <2>5, <2>7, <2>8 DEF Owned, Idle
<1>2. CASE Trigger
  BY <1>2 DEF Trigger, Owned, SchedulerTypeOK, Stopping, Idle
<1>3. CASE ParentEnds
  BY <1>3 DEF ParentEnds, Owned, SchedulerTypeOK, Stopping, Idle
<1>4. ASSUME NEW c \in Callers, StopTakesHandle(c) PROVE Owned'
  <2>1. /\ stopping[c] = Idle /\ handle \in Loops /\ handle' = NoLoop
        /\ stopping' = [stopping EXCEPT ![c] = [step |-> "cancel", loop |-> handle]]
        /\ UNCHANGED <<loop, cancelled, parentDone, trigger>>
    BY <1>4 DEF StopTakesHandle, Owned, SchedulerTypeOK
  <2>2. /\ stopping'[c] = [step |-> "cancel", loop |-> handle]
        /\ \A d \in Callers \ {c} : stopping'[d] = stopping[d]
        /\ SchedulerTypeOK'
    BY <2>1 DEF Owned, SchedulerTypeOK, Steps
  <2>3. Stopping(c)' /\ ~Stopping(c)
    BY <2>1, <2>2, IdleIsNotStopping DEF Stopping
  <2>4. \A d \in Callers \ {c} : Stopping(d)' <=> Stopping(d)
    BY <2>2 DEF Stopping
  <2>5. \A d \in Callers : stopping'[d] = Idle \/ Stopping(d)'
    BY <2>2, <2>3, <2>4 DEF Owned
  <2>6. \A d \in Callers : Stopping(d)' => stopping'[d].loop \in Loops
    BY DEF Stopping
  <2>7. \A d \in Callers : Stopping(d)' =>
          (loop[stopping[d].loop] # "unborn" /\ stopping[d].loop # handle)'
    BY <2>1, <2>2, <2>4, <2>6 DEF Owned
  <2>8. \A k \in Loops : loop'[k] \in {"waiting", "running"} =>
          k = handle' \/ \E d \in Callers : Stopping(d)' /\ stopping'[d].loop = k
    <3> SUFFICES ASSUME NEW k \in Loops, loop[k] \in {"waiting", "running"}
                 PROVE  \E d \in Callers : Stopping(d)' /\ stopping'[d].loop = k
      BY <2>1
    <3>1. CASE k = handle
      BY <3>1, <2>2, <2>3
    <3>2. CASE k # handle
      <4>1. PICK d \in Callers : Stopping(d) /\ stopping[d].loop = k
        BY <3>2 DEF Owned
      <4> QED
        BY <4>1, <2>2, <2>3, <2>4
    <3> QED
      BY <3>1, <3>2
  <2> QED
    BY <2>1, <2>2, <2>5, <2>7, <2>8 DEF Owned, Idle
<1>5. ASSUME NEW c \in Callers, StopCancels(c) PROVE Owned'
  <2>1. Stopping(c)
    BY <1>5 DEF StopCancels, Owned, Idle
  <2>2. /\ stopping'[c] = [step |-> "join", loop |-> stopping[c].loop]
        /\ \A d \in Callers \ {c} : stopping'[d] = stopping[d]
        /\ stopping' \in [Callers -> [step : Steps, loop : Loops \cup {NoLoop}]]
    BY <1>5, <2>1 DEF StopCancels, Owned, SchedulerTypeOK, Steps, Stopping
  <2>3. cancelled' \subseteq Loops /\ UNCHANGED <<handle, loop, parentDone, trigger>>
    BY <1>5, <2>1 DEF StopCancels, Owned, SchedulerTypeOK, Stopping
  <2>4. SchedulerTypeOK'
    BY <2>2, <2>3 DEF Owned, SchedulerTypeOK
  <2>5. \A d \in Callers : Stopping(d)' <=> Stopping(d)
    BY <2>1, <2>2 DEF Stopping
  <2>6. \A d \in Callers : Stopping(d) => stopping'[d].loop = stopping[d].loop
    BY <2>2
  <2> QED
    BY <2>1, <2>2, <2>3, <2>4, <2>5, <2>6 DEF Owned, Idle
<1>6. ASSUME NEW c \in Callers, StopReturnsNow(c) PROVE Owned'
  <2>1. /\ Stopping(c) /\ loop[stopping[c].loop] = "ended"
        /\ stopping' = [stopping EXCEPT ![c] = Idle]
        /\ UNCHANGED <<handle, loop, cancelled, parentDone, trigger>>
    BY <1>6 DEF StopReturnsNow, Joined, Owned, Idle
  <2>2. /\ stopping'[c] = Idle
        /\ \A d \in Callers \ {c} : stopping'[d] = stopping[d]
        /\ SchedulerTypeOK'
    BY <2>1 DEF Owned, SchedulerTypeOK, Steps, Idle
  <2>3. ~Stopping(c)'
    BY <2>2 DEF Stopping, Idle
  <2>4. \A d \in Callers \ {c} : Stopping(d)' <=> Stopping(d)
    BY <2>2 DEF Stopping
  <2> QED
    BY <2>1, <2>2, <2>3, <2>4 DEF Owned, Idle
<1>7. ASSUME NEW l \in Loops, End(l) PROVE Owned'
  BY <1>7, OwnedMove DEF End, Places, Owned, SchedulerTypeOK
<1>8. ASSUME NEW l \in Loops, RunsOnTrigger(l) \/ RunsOnTimer(l) \/ Finish(l) PROVE Owned'
  BY <1>8, OwnedMove DEF RunsOnTrigger, RunsOnTimer, Finish, Places, Owned, SchedulerTypeOK
<1>9. CASE UNCHANGED schedulerVars
  BY <1>9 DEF schedulerVars, Owned, SchedulerTypeOK, Stopping, Idle
<1> QED
  BY <1>1, <1>2, <1>3, <1>4, <1>5, <1>6, <1>7, <1>8, <1>9 DEF SchedulerNext, Control

LEMMA OwnedImplies == Owned => LoopsOwned
<1> SUFFICES ASSUME Owned PROVE LoopsOwned
  OBVIOUS
<1>1. \A c \in Callers : Stopping(c) => StoppedBy(c) = {stopping[c].loop}
  BY IdleIsNotStopping DEF StoppedBy
<1>2. \A c \in Callers : stopping[c] = Idle => StoppedBy(c) = {}
  BY DEF StoppedBy
<1>3. Alive \subseteq {handle} \cup UNION {StoppedBy(c) : c \in Callers}
  BY <1>1 DEF Alive, Owned
<1>4. handle \notin UNION {StoppedBy(c) : c \in Callers}
  BY <1>1, <1>2 DEF Owned
<1> QED
  BY <1>3, <1>4 DEF LoopsOwned

(* Whatever calls of Start, Stop and Trigger interleave, every loop that    *)
(* has not ended is owned: the handle is its, or a Stop waits for it.       *)
THEOREM SchedulerOwnsLoops == SchedulerSpec => [](SchedulerTypeOK /\ LoopsOwned)
<1>1. Owned => SchedulerTypeOK /\ LoopsOwned
  BY OwnedImplies DEF Owned
<1> QED
  BY OwnedInit, OwnedStep, <1>1, PTL DEF SchedulerSpec

------------------------------------------------------------------------------
(* The job and the requests use the scheduler as it is: every behaviour of  *)
(* VisitRollup is one of Scheduler.                                         *)
LEMMA NextIsScheduled == [Next]_vars => [SchedulerNext]_schedulerVars
<1> SUFFICES ASSUME [Next]_vars PROVE [SchedulerNext]_schedulerVars
  OBVIOUS
<1>1. CASE Control
  BY <1>1 DEF SchedulerNext
<1>2. CASE Tick
  BY <1>2 DEF Tick
<1>3. ASSUME NEW q \in Requests, Accept(q) \/ Insert(q) PROVE UNCHANGED schedulerVars
  BY <1>3 DEF Accept, Insert
<1>4. ASSUME NEW l \in Loops, BeginRun(l) PROVE SchedulerNext
  BY <1>4 DEF BeginRun, SchedulerNext
<1>5. ASSUME NEW l \in Loops, Aggregate(l) \/ Save(l) \/ Cutoff(l) \/ Prune(l)
      PROVE  UNCHANGED schedulerVars
  BY <1>5 DEF Aggregate, Save, Cutoff, Prune
<1>6. ASSUME NEW l \in Loops, EndRun(l) PROVE SchedulerNext
  BY <1>6 DEF EndRun, SchedulerNext
<1>7. CASE UNCHANGED vars
  BY <1>7 DEF vars
<1> QED
  BY <1>1, <1>2, <1>3, <1>4, <1>5, <1>6, <1>7 DEF Next, RunStep

(* The roll-up job drives its scheduler as task.Scheduler allows: each of   *)
(* its actions starts, runs or ends a loop, or leaves the loops alone.      *)
THEOREM ImplementsScheduler == Spec => SchedulerSpec
<1>1. Init => SchedulerInit
  BY DEF Init
<1> QED
  BY <1>1, NextIsScheduled, PTL DEF Spec, SchedulerSpec

(* No loop of the roll-up is ever lost.                                     *)
THEOREM NoLoopLost == Spec => []LoopsOwned
BY ImplementsScheduler, SchedulerOwnsLoops, PTL

------------------------------------------------------------------------------
(* Days.                                                                    *)
LEMMA DayType == \A t \in Nat : Day(t) \in Nat
BY StatisticsAssumption DEF Day

LEMMA DayGrows == \A t, u \in Nat : t <= u => Day(t) <= Day(u)
<1> SUFFICES ASSUME NEW t \in Nat, NEW u \in Nat, t <= u PROVE Day(t) <= Day(u)
  OBVIOUS
<1> DEFINE a == t \div DayLength
           b == u \div DayLength
<1>1. DayLength \in Nat \ {0}
  BY StatisticsAssumption
<1>2. a \in Int /\ b \in Int /\ DayLength * a <= t /\ u < DayLength * b + DayLength
  BY <1>1
<1> HIDE DEF a, b
<1>3. /\ DayLength * b \in Int /\ DayLength * a \in Int
      /\ DayLength * (b + 1) = DayLength * b + DayLength
  BY <1>1, <1>2
<1>4. b + 1 <= a => DayLength * (b + 1) <= DayLength * a
  BY <1>1, <1>2
<1>5. ~(b + 1 <= a)
  BY <1>1, <1>2, <1>3, <1>4
<1> QED
  BY <1>2, <1>5 DEF Day, a, b

------------------------------------------------------------------------------
(* The invariant.  A run misses no visit as long as the rows of its day are *)
(* safe: no pruning can have deleted them.  The rows of the retention are,  *)
(* since a cutoff is computed from an earlier clock; and so are those of    *)
(* the day of a run that waits for its SELECT and has met no other run.     *)
(* The sums a run holds bracket the visits of their day like the roll-ups   *)
(* saved from them, and go on doing so, since no visit that arrives later   *)
(* counts as stored in time.                                                *)
RunPlaces == {"idle", "aggregate", "save", "cutoff", "prune", "done"}
Run == [pc : RunPlaces, day : Int, sums : SUBSET Sum, timely : BOOLEAN]
Sent == (UNION {Beacons[q] : q \in Requests}) \cup {None}
Calls == [pc : {"new", "insert", "rejected", "stored"}, beacon : Sent,
         at : Nat, late : BOOLEAN]

Stored == {q \in Requests : request[q].pc = "stored"}

Safe(d) ==
    \/ RetentionDays = 0
    \/ d >= Today - RetentionDays
    \/ \E l \in Loops : job[l].pc = "aggregate" /\ l \notin overlapped /\ d >= job[l].day

Fits(timely, s, d, views, uniques) ==
    /\ d < Today
    /\ views \in 0..Cardinality(Recorded(s, d))
    /\ uniques \in 0..Cardinality(VisitorsOf(Recorded(s, d)))
    /\ timely => /\ views >= Cardinality(InTime(s, d))
                 /\ uniques >= Cardinality(VisitorsOf(InTime(s, d)))

Types ==
    /\ now \in Nat
    /\ request \in [Requests -> Calls]
    /\ job \in [Loops -> Run]
    /\ aggregated \subseteq Int
    /\ \A r \in rollups : r.day \in Int
    /\ IsFiniteSet(visits) /\ IsFiniteSet(Stored)

Runs ==
    /\ \A l \in Loops : /\ job[l].pc = "idle" <=> loop[l] # "running"
                        /\ job[l].sums # {} => job[l].pc = "save"
                        /\ job[l].pc \in {"cutoff", "prune"} => RetentionDays > 0
    /\ \A l, k \in Loops : l # k /\ job[l].pc # "idle" /\ job[k].pc # "idle" => l \in overlapped

Days ==
    \A l \in Loops : /\ job[l].pc = "aggregate" => job[l].day < Today
                     /\ job[l].pc = "prune" => job[l].day <= Today - RetentionDays

Table ==
    /\ \A q \in Requests : request[q].pc \in {"insert", "stored"} => request[q].beacon.site \in Sites
    /\ visits \subseteq {NewSiteVisit(q) : q \in Stored}
    /\ \A q \in Stored : Safe(Day(request[q].at)) => NewSiteVisit(q) \in visits

Bracketed ==
    /\ \A r \in rollups : Fits(r.timely, r.site, r.day, r.views, r.uniques)
    /\ \A l \in Loops : \A x \in job[l].sums :
          Fits(job[l].timely, x.site, job[l].day, x.views, x.uniques)

Accounted ==
    /\ \A d \in aggregated : d < Today
    /\ AggregatedIsAccounted

IInv == Owned /\ Types /\ Runs /\ Days /\ Table /\ Bracketed /\ Accounted

LEMMA TodayType == Types => Today \in Nat
BY DayType DEF Types, Today

LEMMA InvInit == Init => IInv
<1> SUFFICES ASSUME Init PROVE IInv
  OBVIOUS
<1> USE VisitAssumption
<1>1. Owned
  BY OwnedInit DEF Init
<1>2. request \in [Requests -> Calls] /\ \A q \in Requests : request[q].pc = "new"
  <2>1. None \in Sent
    BY DEF Sent
  <2> QED
    BY <2>1 DEF Init, Call, Calls
<1>3. Stored = {}
  BY <1>2 DEF Stored
<1>4. /\ job = [l \in Loops |-> NoRun] /\ NoRun \in Run /\ NoRun.pc = "idle" /\ NoRun.sums = {}
      /\ \A l \in Loops : loop[l] = "unborn"
  BY DEF Init, NoRun, Run, RunPlaces, SchedulerInit
<1>5. now \in Nat /\ visits = {} /\ rollups = {} /\ aggregated = {}
  BY DEF Init
<1>6. Types
  BY <1>2, <1>3, <1>4, <1>5, FS_EmptySet DEF Types
<1>7. Runs /\ Days
  BY <1>4 DEF Runs, Days
<1>8. Table
  BY <1>2, <1>3, <1>5 DEF Table
<1> QED
  BY <1>1, <1>4, <1>5, <1>6, <1>7, <1>8 DEF IInv, Bracketed, Accounted, AggregatedIsAccounted

------------------------------------------------------------------------------
(* Steps that may change the calls and the clock.  A call that is newly     *)
(* stored is late for every day before today; so for a day that is over the *)
(* visits stored in time stay the same, and no recorded one is forgotten.   *)
CallsGoOn ==
    /\ request' \in [Requests -> Calls]
    /\ IsFiniteSet(Stored')
    /\ Today' \in Nat /\ Today <= Today'
    /\ \A q \in Stored : request'[q] = request[q]
    /\ \A q \in Stored' \ Stored : request'[q].late \/ Day(request'[q].at) = Today

LEMMA DayOver ==
    ASSUME Types, CallsGoOn
    PROVE  \A s, d : d < Today /\ d \in Int =>
               /\ InTime(s, d)' = InTime(s, d)
               /\ Recorded(s, d) \subseteq Recorded(s, d)'
               /\ VisitorsOf(InTime(s, d))' = VisitorsOf(InTime(s, d))
               /\ VisitorsOf(Recorded(s, d)) \subseteq VisitorsOf(Recorded(s, d))'
<1> SUFFICES ASSUME NEW s, NEW d \in Int, d < Today
             PROVE  /\ InTime(s, d)' = InTime(s, d)
                    /\ Recorded(s, d) \subseteq Recorded(s, d)'
                    /\ VisitorsOf(InTime(s, d))' = VisitorsOf(InTime(s, d))
                    /\ VisitorsOf(Recorded(s, d)) \subseteq VisitorsOf(Recorded(s, d))'
  OBVIOUS
<1>1. Recorded(s, d) \subseteq Stored /\ Recorded(s, d)' \subseteq Stored'
  BY DEF Recorded, Stored
<1>2. Stored \subseteq Stored'
  BY DEF CallsGoOn, Stored
<1>3. \A q \in Stored : q \in Recorded(s, d)' <=> q \in Recorded(s, d)
  BY DEF CallsGoOn, Recorded
<1>4. \A q \in Stored : q \in InTime(s, d)' <=> q \in InTime(s, d)
  BY <1>3 DEF CallsGoOn, InTime
<1>5. \A q \in Stored' \ Stored : q \notin InTime(s, d)'
  BY TodayType DEF CallsGoOn, InTime, Recorded
<1>6. InTime(s, d)' = InTime(s, d)
  BY <1>1, <1>2, <1>4, <1>5 DEF InTime
<1>7. Recorded(s, d) \subseteq Recorded(s, d)'
  BY <1>1, <1>3
<1>8. \A q \in Recorded(s, d) : request'[q] = request[q]
  BY <1>1 DEF CallsGoOn
<1>9. VisitorsOf(InTime(s, d))' = VisitorsOf(InTime(s, d))
  BY <1>6, <1>8 DEF VisitorsOf, InTime
<1>10. VisitorsOf(Recorded(s, d)) \subseteq VisitorsOf(Recorded(s, d))'
  BY <1>7, <1>8 DEF VisitorsOf
<1> QED
  BY <1>6, <1>7, <1>9, <1>10

(* The visitors of a finite set of calls; g is the table of calls, before   *)
(* or after a step.                                                         *)
LEMMA FiniteVisitors ==
    ASSUME NEW g, NEW Q, IsFiniteSet(Q)
    PROVE  IsFiniteSet({g[q].beacon.visitor : q \in Q})
<1> DEFINE f == [q \in Q |-> g[q].beacon.visitor]
<1>1. f \in Surjection(Q, {g[q].beacon.visitor : q \in Q})
  BY DEF Surjection
<1> QED
  BY <1>1, FS_Surjection

LEMMA FiniteRecorded ==
    ASSUME IsFiniteSet(Stored), NEW s, NEW d
    PROVE  IsFiniteSet(Recorded(s, d)) /\ IsFiniteSet(VisitorsOf(Recorded(s, d)))
<1>1. Recorded(s, d) \in SUBSET Stored
  BY DEF Recorded, Stored
<1> QED
  <2>1. IsFiniteSet(Recorded(s, d))
    BY <1>1, FS_Subset
  <2>2. VisitorsOf(Recorded(s, d)) = {request[q].beacon.visitor : q \in Recorded(s, d)}
    BY DEF VisitorsOf
  <2> QED
    BY <2>1, <2>2, FiniteVisitors

LEMMA FiniteRecordedNext ==
    ASSUME IsFiniteSet(Stored'), NEW s, NEW d
    PROVE  IsFiniteSet(Recorded(s, d)') /\ IsFiniteSet(VisitorsOf(Recorded(s, d))')
<1>1. Recorded(s, d)' \in SUBSET Stored'
  BY DEF Recorded, Stored
<1>2. IsFiniteSet(Recorded(s, d)')
  BY <1>1, FS_Subset
<1>3. VisitorsOf(Recorded(s, d))' = {request'[q].beacon.visitor : q \in Recorded(s, d)'}
  BY DEF VisitorsOf
<1> QED
  BY <1>2, <1>3, FiniteVisitors

LEMMA InTimeBelow ==
    ASSUME IsFiniteSet(Stored), NEW s, NEW d
    PROVE  /\ Cardinality(InTime(s, d)) \in Nat
           /\ Cardinality(VisitorsOf(InTime(s, d))) \in Nat
           /\ Cardinality(InTime(s, d)) <= Cardinality(Recorded(s, d))
           /\ Cardinality(VisitorsOf(InTime(s, d))) <= Cardinality(VisitorsOf(Recorded(s, d)))
<1>1. IsFiniteSet(Recorded(s, d)) /\ IsFiniteSet(VisitorsOf(Recorded(s, d)))
  BY FiniteRecorded
<1>2. InTime(s, d) \in SUBSET Recorded(s, d)
  BY DEF InTime
<1>3. VisitorsOf(InTime(s, d)) \in SUBSET VisitorsOf(Recorded(s, d))
  BY <1>2 DEF VisitorsOf
<1> QED
  BY <1>1, <1>2, <1>3, FS_Subset, FS_CardinalityType

(* What brackets the visits of a day goes on doing so.                      *)
LEMMA FitsStays ==
    ASSUME Types, CallsGoOn
    PROVE  \A t, s, d, v, u : d \in Int /\ Fits(t, s, d, v, u) => Fits(t, s, d, v, u)'
<1> SUFFICES ASSUME NEW t, NEW s, NEW d \in Int, NEW v, NEW u, Fits(t, s, d, v, u)
             PROVE  Fits(t, s, d, v, u)'
  OBVIOUS
<1>1. d < Today /\ d < Today'
  BY TodayType DEF Fits, CallsGoOn
<1>2. /\ InTime(s, d)' = InTime(s, d)
      /\ Recorded(s, d) \in SUBSET Recorded(s, d)'
      /\ VisitorsOf(InTime(s, d))' = VisitorsOf(InTime(s, d))
      /\ VisitorsOf(Recorded(s, d)) \in SUBSET VisitorsOf(Recorded(s, d))'
  BY <1>1, DayOver
<1>3. IsFiniteSet(Recorded(s, d)') /\ IsFiniteSet(VisitorsOf(Recorded(s, d))')
  BY FiniteRecordedNext DEF CallsGoOn
<1>4. /\ Cardinality(Recorded(s, d)) \in Nat /\ Cardinality(Recorded(s, d)') \in Nat
      /\ Cardinality(Recorded(s, d)) <= Cardinality(Recorded(s, d)')
  BY <1>2, <1>3, FS_Subset, FS_CardinalityType
<1>5. /\ Cardinality(VisitorsOf(Recorded(s, d))) \in Nat /\ Cardinality(VisitorsOf(Recorded(s, d))') \in Nat
      /\ Cardinality(VisitorsOf(Recorded(s, d))) <= Cardinality(VisitorsOf(Recorded(s, d))')
  BY <1>2, <1>3, FS_Subset, FS_CardinalityType
<1>6. Cardinality(InTime(s, d)) \in Nat /\ Cardinality(VisitorsOf(InTime(s, d))) \in Nat
  BY InTimeBelow DEF Types
<1> QED
  BY <1>1, <1>2, <1>4, <1>5, <1>6 DEF Fits

(* A step of the calls or the clock leaves the job alone.                   *)
LEMMA CallStep ==
    ASSUME IInv, CallsGoOn, UNCHANGED <<rollups, job, aggregated, missed>>
    PROVE  Days' /\ Bracketed' /\ Accounted'
<1>1. Bracketed'
  <2>1. \A r \in rollups' : Fits(r.timely, r.site, r.day, r.views, r.uniques)'
    BY FitsStays DEF IInv, Types, Bracketed
  <2>2. ASSUME NEW l \in Loops, NEW x \in job'[l].sums
        PROVE  \E d \in Int, t \in BOOLEAN :
                   d = job'[l].day /\ t = job'[l].timely /\ Fits(t, x.site, d, x.views, x.uniques)'
    BY FitsStays DEF IInv, Types, Bracketed, Run
  <2> QED
    BY <2>1, <2>2 DEF Bracketed
<1>2. \A d \in aggregated' : d < Today'
  BY TodayType DEF IInv, Types, Accounted, CallsGoOn
<1>3. \A d \in aggregated, s \in Sites : InTime(s, d)' = InTime(s, d)
  BY DayOver DEF IInv, Types, Accounted
<1>4. AggregatedIsAccounted'
  BY <1>3 DEF IInv, Accounted, AggregatedIsAccounted
<1>5. Days'
  <2>1. RetentionDays \in Nat /\ Today \in Nat /\ \A l \in Loops : job[l].day \in Int
    BY VisitAssumption, TodayType DEF IInv, Types, Run
  <2> QED
    BY <2>1 DEF IInv, Days, CallsGoOn
<1> QED
  BY <1>1, <1>2, <1>4, <1>5 DEF Accounted

------------------------------------------------------------------------------
(* The sums of a day are those of its rows; none of them is missing when    *)
(* the day is safe.                                                         *)
Counted(s, d) == {q \in Recorded(s, d) : NewSiteVisit(q) \in visits}

LEMMA RowsOfDay ==
    ASSUME Types, Table, NEW s, NEW d
    PROVE  /\ {v \in OfDay(d) : v.site = s} = {NewSiteVisit(q) : q \in Counted(s, d)}
           /\ Safe(d) => Counted(s, d) = Recorded(s, d)
<1>1. \A q \in Stored : /\ NewSiteVisit(q).site = request[q].beacon.site
                        /\ NewSiteVisit(q).bot = request[q].beacon.bot
                        /\ NewSiteVisit(q).at = request[q].at
  BY DEF NewSiteVisit
<1>2. ASSUME NEW v \in OfDay(d), v.site = s
      PROVE  \E q \in Counted(s, d) : v = NewSiteVisit(q)
  <2>1. v \in visits /\ ~v.bot /\ Day(v.at) = d
    BY DEF OfDay
  <2>2. PICK q \in Stored : v = NewSiteVisit(q)
    BY <2>1 DEF Table
  <2>3. q \in Counted(s, d)
    BY <1>1, <1>2, <2>1, <2>2 DEF Counted, Recorded, Stored
  <2> QED
    BY <2>2, <2>3
<1>3. ASSUME NEW q \in Counted(s, d)
      PROVE  NewSiteVisit(q) \in OfDay(d) /\ NewSiteVisit(q).site = s
  <2>1. /\ q \in Stored /\ request[q].beacon.site = s /\ ~request[q].beacon.bot
        /\ Day(request[q].at) = d /\ NewSiteVisit(q) \in visits
    BY DEF Counted, Recorded, Stored
  <2> QED
    BY <1>1, <2>1 DEF OfDay
<1>4. ASSUME Safe(d), NEW q \in Recorded(s, d) PROVE q \in Counted(s, d)
  <2>1. q \in Stored /\ Day(request[q].at) = d
    BY DEF Recorded, Stored
  <2> QED
    BY <1>4, <2>1 DEF Table, Counted
<1>5. Counted(s, d) \subseteq Recorded(s, d)
  BY DEF Counted
<1> QED
  BY <1>2, <1>3, <1>4, <1>5

LEMMA VisitFields ==
    ASSUME NEW q \in Requests
    PROVE  /\ NewSiteVisit(q).id = q
           /\ NewSiteVisit(q).site = request[q].beacon.site
           /\ NewSiteVisit(q).visitor = request[q].beacon.visitor
BY DEF NewSiteVisit

(* Rows and calls correspond one to one, and so do their visitors.          *)
LEMMA RowsOfCalls ==
    ASSUME NEW R, R \subseteq Requests, IsFiniteSet(R), NEW W, W = {NewSiteVisit(q) : q \in R}
    PROVE  /\ Cardinality(W) = Cardinality(R)
           /\ {v.visitor : v \in W} = VisitorsOf(R)
<1> DEFINE f == [q \in R |-> NewSiteVisit(q)]
<1>1. f \in [R -> W] /\ \A v \in W : \E q \in R : f[q] = v
  OBVIOUS
<1>2. \A p, q \in R : f[p] = f[q] => p = q
  <2> SUFFICES ASSUME NEW p \in R, NEW q \in R, f[p] = f[q] PROVE p = q
    OBVIOUS
  <2>1. NewSiteVisit(p) = NewSiteVisit(q)
    OBVIOUS
  <2>2. NewSiteVisit(p).id = p /\ NewSiteVisit(q).id = q
    BY VisitFields
  <2> QED
    BY <2>1, <2>2
<1> HIDE DEF f
<1>3. f \in Bijection(R, W)
  BY <1>1, <1>2 DEF Bijection, Injection, Surjection, IsInjective
<1>4. \A q \in R : NewSiteVisit(q).visitor = request[q].beacon.visitor
  BY VisitFields
<1>5. {v.visitor : v \in W} = {NewSiteVisit(q).visitor : q \in R}
  OBVIOUS
<1>6. {NewSiteVisit(q).visitor : q \in R} = VisitorsOf(R)
  BY <1>4 DEF VisitorsOf
<1> QED
  BY <1>3, <1>5, <1>6, FS_Bijection DEF ExistsBijection

LEMMA SumsFit ==
    ASSUME Types, Table, NEW d \in Int, d < Today, NEW timely \in BOOLEAN, timely => Safe(d),
           NEW x \in SumsOf(d)
    PROVE  /\ x \in Sum
           /\ Fits(timely, x.site, d, x.views, x.uniques)
<1> DEFINE All == Recorded(x.site, d)
           R == Counted(x.site, d)
           W == {v \in OfDay(d) : v.site = x.site}
<1>1. PICK s \in {v.site : v \in OfDay(d)} :
          x = [site |-> s,
               views |-> Cardinality({v \in OfDay(d) : v.site = s}),
               uniques |-> Cardinality({v.visitor : v \in {w \in OfDay(d) : w.site = s}})]
  BY DEF SumsOf
<1>2. x.site = s /\ x.views = Cardinality(W) /\ x.uniques = Cardinality({v.visitor : v \in W})
  BY <1>1
<1>3. W = {NewSiteVisit(q) : q \in R} /\ (Safe(d) => R = All)
  BY RowsOfDay
<1>4. s \in Sites
  <2>1. PICK v \in OfDay(d) : v.site = s
    BY <1>1
  <2>2. v \in W
    BY <1>2, <2>1
  <2>3. PICK q \in R : v = NewSiteVisit(q)
    BY <1>3, <2>2
  <2> QED
    BY <2>1, <2>3 DEF Table, Counted, Recorded, NewSiteVisit
<1>5. /\ All \subseteq Requests /\ R \in SUBSET All /\ VisitorsOf(R) \in SUBSET VisitorsOf(All)
      /\ IsFiniteSet(All) /\ IsFiniteSet(VisitorsOf(All))
  <2>1. All \subseteq Requests /\ R \in SUBSET All
    BY DEF Recorded, Counted
  <2>2. VisitorsOf(R) \in SUBSET VisitorsOf(All)
    BY <2>1 DEF VisitorsOf
  <2> QED
    BY <2>1, <2>2, FiniteRecorded DEF Types
<1>6. IsFiniteSet(R)
  BY <1>5, FS_Subset
<1> HIDE DEF W, R, All
<1>7. Cardinality(W) = Cardinality(R) /\ {v.visitor : v \in W} = VisitorsOf(R)
  BY <1>3, <1>5, <1>6, RowsOfCalls
<1>8. /\ Cardinality(R) \in Nat /\ Cardinality(All) \in Nat
      /\ Cardinality(R) <= Cardinality(All)
  BY <1>5, FS_Subset, FS_CardinalityType
<1>9. /\ Cardinality(VisitorsOf(R)) \in Nat /\ Cardinality(VisitorsOf(All)) \in Nat
      /\ Cardinality(VisitorsOf(R)) <= Cardinality(VisitorsOf(All))
  BY <1>5, FS_Subset, FS_CardinalityType
<1>10. x.views = Cardinality(R)
  BY <1>2, <1>7
<1>11. x.uniques = Cardinality(VisitorsOf(R))
  BY <1>2, <1>7, Zenon
<1>12. x \in Sum
  <2>1. x = [site |-> s, views |-> x.views, uniques |-> x.uniques]
    BY <1>1
  <2> QED
    BY <2>1, <1>4, <1>8, <1>9, <1>10, <1>11 DEF Sum
<1>13. ASSUME timely
       PROVE  /\ x.views >= Cardinality(InTime(x.site, d))
              /\ x.uniques >= Cardinality(VisitorsOf(InTime(x.site, d)))
  <2>1. R = All
    BY <1>3, <1>13
  <2>2. /\ Cardinality(InTime(x.site, d)) \in Nat
        /\ Cardinality(VisitorsOf(InTime(x.site, d))) \in Nat
        /\ Cardinality(InTime(x.site, d)) <= Cardinality(All)
        /\ Cardinality(VisitorsOf(InTime(x.site, d))) <= Cardinality(VisitorsOf(All))
    BY InTimeBelow DEF Types, All
  <2> QED
    BY <1>8, <1>9, <1>10, <1>11, <2>1, <2>2
<1>14. Fits(timely, x.site, d, x.views, x.uniques)
  <2>1. x.views \in 0..Cardinality(All) /\ x.uniques \in 0..Cardinality(VisitorsOf(All))
    BY <1>8, <1>9, <1>10, <1>11
  <2> QED
    BY <1>13, <2>1 DEF Fits, All
<1> QED
  BY <1>12, <1>14

LEMMA SumsComplete ==
    ASSUME Types, Table, NEW d, Safe(d), NEW s, InTime(s, d) # {}
    PROVE  \E x \in SumsOf(d) : x.site = s
<1>1. PICK q : q \in Recorded(s, d)
  BY DEF InTime
<1>2. NewSiteVisit(q) \in {v \in OfDay(d) : v.site = s}
  BY <1>1, RowsOfDay
<1> DEFINE x(t) ==
        [site |-> t,
         views |-> Cardinality({v \in OfDay(d) : v.site = t}),
         uniques |-> Cardinality({v.visitor : v \in {w \in OfDay(d) : w.site = t}})]
<1>3. s \in {v.site : v \in OfDay(d)}
  BY <1>2
<1>4. x(s) \in SumsOf(d)
  BY <1>3, Zenon DEF SumsOf
<1>5. x(s).site = s
  OBVIOUS
<1> QED
  BY <1>4, <1>5

------------------------------------------------------------------------------
(* The steps of the calls and of the clock.                                 *)
LEMMA InvTick == ASSUME IInv, Tick PROVE IInv'
<1>1. /\ now' = now + 1
      /\ UNCHANGED <<schedulerVars, tables, request, job, runs, overlapped, aggregated, missed>>
  BY DEF Tick, history
<1>2. Today \in Nat /\ Today' \in Nat /\ Today <= Today'
  BY <1>1, DayType, DayGrows DEF IInv, Types, Today
<1>3. Stored' = Stored
  BY <1>1 DEF Stored
<1>4. CallsGoOn
  BY <1>1, <1>2, <1>3 DEF CallsGoOn, IInv, Types, Stored
<1>5. Types'
  BY <1>1, <1>3 DEF IInv, Types, tables
<1>6. Table'
  <2>1. \A q \in Requests : NewSiteVisit(q)' = NewSiteVisit(q)
    BY <1>1 DEF NewSiteVisit
  <2>2. RetentionDays \in Nat /\ \A q \in Stored : Day(request[q].at) \in Nat
    BY VisitAssumption, DayType DEF IInv, Types, Calls, Stored
  <2>3. \A q \in Stored : Safe(Day(request[q].at))' => Safe(Day(request[q].at))
    BY <1>1, <1>2, <2>2 DEF Safe
  <2> QED
    BY <1>1, <1>3, <2>1, <2>3 DEF IInv, Table, Stored, tables
<1>7. Owned' /\ Runs'
  <2>1. Owned'
    BY <1>1, OwnedStep DEF IInv
  <2> QED
    BY <1>1, <2>1 DEF IInv, Runs, schedulerVars
<1> QED
  BY <1>1, <1>4, <1>5, <1>6, <1>7, CallStep DEF IInv, tables

LEMMA InvAccept == ASSUME IInv, NEW q \in Requests, Accept(q) PROVE IInv'
<1>1. /\ request[q].pc = "new"
      /\ UNCHANGED <<schedulerVars, tables, now, job, runs, overlapped, aggregated, missed>>
  BY DEF Accept, history
<1>2. PICK b \in Beacons[q] :
          request' = [request EXCEPT ![q] =
              IF Acceptable(b) THEN Call("insert", b, now) ELSE Rejected]
  BY DEF Accept
<1>3. b \in Sent /\ None \in Sent /\ FirstTick \in Nat /\ now \in Nat
  BY VisitAssumption DEF Sent, IInv, Types
<1>4. /\ request' \in [Requests -> Calls]
      /\ \A p \in Requests \ {q} : request'[p] = request[p]
      /\ request'[q].pc \in {"insert", "rejected"}
      /\ request'[q].pc = "insert" => request'[q].beacon.site \in Sites
  <2>1. CASE Acceptable(b)
    <3>1. request' = [request EXCEPT ![q] =
              [pc |-> "insert", beacon |-> b, at |-> now, late |-> FALSE]]
      BY <1>2, <2>1 DEF Call
    <3>2. [pc |-> "insert", beacon |-> b, at |-> now, late |-> FALSE] \in Calls
      BY <1>3 DEF Call, Calls
    <3> QED
      BY <2>1, <3>1, <3>2 DEF IInv, Types, Acceptable
  <2>2. CASE ~Acceptable(b)
    <3>1. request' = [request EXCEPT ![q] =
              [pc |-> "rejected", beacon |-> None, at |-> FirstTick, late |-> FALSE]]
      BY <1>2, <2>2 DEF Call, Rejected
    <3>2. [pc |-> "rejected", beacon |-> None, at |-> FirstTick, late |-> FALSE] \in Calls
      BY <1>3 DEF Call, Calls
    <3> QED
      BY <3>1, <3>2 DEF IInv, Types
  <2> QED
    BY <2>1, <2>2
<1>5. Stored' = Stored /\ q \notin Stored
  BY <1>1, <1>4 DEF Stored
<1>6. CallsGoOn
  <2>1. Today' = Today /\ Today \in Nat
    BY <1>1, TodayType DEF Today, IInv
  <2>2. \A p \in Stored : request'[p] = request[p]
    BY <1>4, <1>5 DEF Stored
  <2>3. IsFiniteSet(Stored')
    BY <1>5 DEF IInv, Types
  <2> QED
    BY <1>4, <1>5, <2>1, <2>2, <2>3 DEF CallsGoOn
<1>7. Types'
  BY <1>1, <1>4, <1>5 DEF IInv, Types, tables
<1>8. Table'
  <2>1. \A p \in Stored : NewSiteVisit(p)' = NewSiteVisit(p) /\ request'[p] = request[p]
    BY <1>4, <1>5 DEF NewSiteVisit, Stored
  <2>2. visits' = visits /\ \A d : Safe(d)' <=> Safe(d)
    BY <1>1 DEF Safe, Today, tables
  <2>3. \A p \in Requests : request'[p].pc \in {"insert", "stored"} => request'[p].beacon.site \in Sites
    BY <1>4 DEF IInv, Table
  <2> QED
    BY <1>5, <2>1, <2>2, <2>3 DEF IInv, Table
<1>9. Owned' /\ Runs'
  <2>1. Owned'
    BY <1>1, OwnedStep DEF IInv
  <2> QED
    BY <1>1, <2>1 DEF IInv, Runs, schedulerVars
<1> QED
  BY <1>1, <1>6, <1>7, <1>8, <1>9, CallStep DEF IInv, tables

LEMMA InvInsert == ASSUME IInv, NEW q \in Requests, Insert(q) PROVE IInv'
<1>1. /\ request[q].pc = "insert"
      /\ UNCHANGED <<schedulerVars, now, rollups, job, runs, overlapped, aggregated, missed>>
  BY DEF Insert, history
<1>2. request[q] \in Calls /\ None \in Sent /\ FirstTick \in Nat /\ q \notin Stored
  BY <1>1, VisitAssumption DEF IInv, Types, Sent, Stored
<1>3. Today' = Today /\ Today \in Nat
  BY <1>1, TodayType DEF Today, IInv
<1>4. Owned' /\ Runs'
  <2>1. Owned'
    BY <1>1, OwnedStep DEF IInv
  <2> QED
    BY <1>1, <2>1 DEF IInv, Runs, schedulerVars
<1>5. CASE /\ request' = [request EXCEPT ![q].pc = "stored",
                                         ![q].late = Today # Day(request[q].at)]
           /\ visits' = visits \cup {NewSiteVisit(q)}
  <2>1. /\ request' \in [Requests -> Calls]
        /\ \A p \in Requests \ {q} : request'[p] = request[p]
        /\ request'[q].pc = "stored" /\ request'[q].at = request[q].at
        /\ request'[q].beacon = request[q].beacon
        /\ request'[q].late = (Today # Day(request[q].at))
    BY <1>2, <1>5 DEF IInv, Types, Calls
  <2>2. Stored' = Stored \cup {q}
    BY <2>1 DEF Stored
  <2>3. IsFiniteSet(Stored') /\ IsFiniteSet(visits')
    BY <1>5, <2>2, FS_AddElement DEF IInv, Types
  <2>4. \A p \in Stored : request'[p] = request[p]
    BY <1>2, <2>1 DEF Stored
  <2>5. CallsGoOn
    <3>1. \A p \in Stored' \ Stored : p = q
      BY <2>2
    <3>2. request'[q].late \/ Day(request'[q].at) = Today
      <4>1. Today # Day(request[q].at) => request'[q].late
        BY <2>1, Zenon
      <4> QED
        BY <2>1, <4>1
    <3> QED
      BY <1>3, <2>1, <2>3, <2>4, <3>1, <3>2 DEF CallsGoOn
  <2>6. Types'
    BY <1>1, <2>1, <2>3 DEF IInv, Types
  <2>7. \A p \in Stored' : NewSiteVisit(p)' = NewSiteVisit(p)
    BY <2>1, <2>2, <2>4 DEF NewSiteVisit
  <2>8. Table'
    <3>1. \A p \in Requests : request'[p].pc \in {"insert", "stored"} => request'[p].beacon.site \in Sites
      BY <1>1, <2>1 DEF IInv, Table
    <3>2. visits' \subseteq {NewSiteVisit(p)' : p \in Stored'}
      BY <1>5, <2>2, <2>7 DEF IInv, Table
    <3>3. \A p \in Stored' : Safe(Day(request[p].at))' => NewSiteVisit(p)' \in visits'
      <4>1. \A d : Safe(d)' <=> Safe(d)
        BY <1>1, <1>3 DEF Safe
      <4> QED
        BY <4>1, <1>5, <2>2, <2>4, <2>7 DEF IInv, Table
    <3> QED
      BY <3>1, <3>2, <3>3 DEF Table
  <2> QED
    BY <1>1, <1>4, <2>5, <2>6, <2>8, CallStep DEF IInv
<1>6. CASE /\ request' = [request EXCEPT ![q] = Rejected]
           /\ UNCHANGED visits
  <2>1. request' = [request EXCEPT ![q] =
              [pc |-> "rejected", beacon |-> None, at |-> FirstTick, late |-> FALSE]]
    BY <1>6 DEF Call, Rejected
  <2>2. [pc |-> "rejected", beacon |-> None, at |-> FirstTick, late |-> FALSE] \in Calls
    BY <1>2 DEF Call, Calls
  <2>3. /\ request' \in [Requests -> Calls]
        /\ \A p \in Requests \ {q} : request'[p] = request[p]
        /\ request'[q].pc = "rejected"
    BY <2>1, <2>2 DEF IInv, Types
  <2>4. Stored' = Stored
    BY <1>2, <2>3 DEF Stored
  <2>5. \A p \in Stored : request'[p] = request[p]
    BY <1>2, <2>3 DEF Stored
  <2>6. IsFiniteSet(Stored')
    BY <2>4 DEF IInv, Types
  <2>7. CallsGoOn
    BY <1>3, <2>3, <2>4, <2>5, <2>6 DEF CallsGoOn
  <2>8. Types'
    BY <1>1, <1>6, <2>3, <2>6 DEF IInv, Types
  <2>9. \A p \in Stored : NewSiteVisit(p)' = NewSiteVisit(p)
    BY <2>5 DEF NewSiteVisit
  <2>10. Table'
    <3>1. \A p \in Requests : request'[p].pc \in {"insert", "stored"} => request'[p].beacon.site \in Sites
      BY <2>3 DEF IInv, Table
    <3>2. \A d : Safe(d)' <=> Safe(d)
      BY <1>1, <1>3 DEF Safe
    <3> QED
      BY <1>6, <2>4, <2>5, <2>9, <3>1, <3>2 DEF IInv, Table
  <2> QED
    BY <1>1, <1>4, <2>7, <2>8, <2>10, CallStep DEF IInv
<1> QED
  BY <1>5, <1>6 DEF Insert

------------------------------------------------------------------------------
(* The steps of the scheduler and of the job leave the calls and the clock  *)
(* alone.                                                                   *)
Still == UNCHANGED <<now, request>>

LEMMA StillFacts ==
    ASSUME Still
    PROVE  /\ Today' = Today /\ Stored' = Stored
           /\ \A q : NewSiteVisit(q)' = NewSiteVisit(q)
           /\ \A s, d : InTime(s, d)' = InTime(s, d)
           /\ \A t, s, d, v, u : Fits(t, s, d, v, u)' <=> Fits(t, s, d, v, u)
<1>1. Today' = Today /\ Stored' = Stored
  BY DEF Still, Today, Stored
<1>2. \A q : NewSiteVisit(q)' = NewSiteVisit(q)
  BY DEF Still, NewSiteVisit
<1>3. \A s, d : Recorded(s, d)' = Recorded(s, d) /\ InTime(s, d)' = InTime(s, d)
  BY DEF Still, Recorded, InTime
<1>4. \A Q : VisitorsOf(Q)' = VisitorsOf(Q)
  BY DEF Still, VisitorsOf
<1>5. \A t, s, d, v, u : Fits(t, s, d, v, u)' <=> Fits(t, s, d, v, u)
  <2>1. \A s, d : /\ VisitorsOf(Recorded(s, d))' = VisitorsOf(Recorded(s, d))
                  /\ VisitorsOf(InTime(s, d))' = VisitorsOf(InTime(s, d))
    BY <1>3 DEF Still, VisitorsOf
  <2> QED
    BY <1>1, <1>3, <2>1 DEF Fits
<1> QED
  BY <1>1, <1>2, <1>3, <1>5

(* The table stays complete when no row is deleted and no day becomes safe. *)
LEMMA StillTable ==
    ASSUME IInv, Still, UNCHANGED visits, \A d \in Nat : Safe(d)' => Safe(d)
    PROVE  Table'
<1>1. \A q \in Stored : Day(request[q].at) \in Nat /\ Day(request'[q].at) = Day(request[q].at)
  BY DayType DEF IInv, Types, Calls, Stored, Still
<1>2. \A q \in Stored : Safe(Day(request[q].at))' => NewSiteVisit(q) \in visits
  BY <1>1 DEF IInv, Table
<1> QED
  BY <1>2, StillFacts DEF IInv, Table, Still

LEMMA InvControl == ASSUME IInv, Control, UNCHANGED visitVars PROVE IInv'
<1>1. Still /\ UNCHANGED <<visits, rollups, job, overlapped, aggregated, missed>>
  BY DEF visitVars, history, Still
<1>2. Owned'
  BY OwnedStep DEF IInv, SchedulerNext
<1>3. \A l \in Loops : loop'[l] = "running" <=> loop[l] = "running"
  <2> USE DEF IInv, Owned, SchedulerTypeOK
  <2>1. CASE Start
    BY <2>1 DEF Start, Moves
  <2>2. CASE UNCHANGED loop
    BY <2>2
  <2>3. ASSUME NEW k \in Loops, End(k) PROVE \A l \in Loops : loop'[l] = "running" <=> loop[l] = "running"
    BY <2>3 DEF End, Moves
  <2>4. Trigger \/ ParentEnds => UNCHANGED loop
    BY DEF Trigger, ParentEnds
  <2>5. ASSUME NEW c \in Callers, StopTakesHandle(c) \/ StopCancels(c) \/ StopReturnsNow(c)
        PROVE UNCHANGED loop
    BY <2>5 DEF StopTakesHandle, StopCancels, StopReturnsNow
  <2> QED
    BY <2>1, <2>2, <2>3, <2>4, <2>5 DEF Control
<1>4. Types'
  BY <1>1, StillFacts DEF IInv, Types, Still
<1>5. Runs' /\ Days'
  BY <1>1, <1>3, StillFacts DEF IInv, Runs, Days
<1>6. Table'
  BY <1>1, StillFacts, StillTable DEF Safe
<1>7. Bracketed'
  BY <1>1, StillFacts DEF IInv, Bracketed
<1>8. Accounted'
  BY <1>1, StillFacts DEF IInv, Accounted, AggregatedIsAccounted
<1> QED
  BY <1>2, <1>4, <1>5, <1>6, <1>7, <1>8 DEF IInv

(* One loop's run changes, no other does.                                   *)
OnlyRun(l) == \A k \in Loops \ {l} : job'[k] = job[k] /\ (loop'[k] = "running" <=> loop[k] = "running")

(* A run that goes on, and leaves the rows that are safe alone, neither     *)
(* meets another nor makes a day safe.                                      *)
LEMMA GoesOn ==
    ASSUME IInv, Still, NEW l \in Loops, OnlyRun(l), job' \in [Loops -> Run],
           job[l].pc # "idle", job'[l].pc \notin {"idle", "aggregate"},
           UNCHANGED <<loop, overlapped>>,
           job'[l].sums # {} => job'[l].pc = "save",
           job'[l].pc \in {"cutoff", "prune"} => RetentionDays > 0,
           job'[l].pc = "prune" => job'[l].day <= Today - RetentionDays
    PROVE  Runs' /\ Days' /\ \A d : Safe(d)' => Safe(d)
<1>1. loop[l] = "running"
  BY DEF IInv, Runs
<1>2. Runs'
  <2>1. \A k \in Loops : job'[k].pc # "idle" <=> job[k].pc # "idle"
    BY DEF OnlyRun
  <2> QED
    BY <1>1, <2>1 DEF IInv, Runs, OnlyRun
<1>3. Days'
  BY StillFacts DEF IInv, Days, OnlyRun
<1>4. \A d : Safe(d)' => Safe(d)
  BY StillFacts DEF Safe, OnlyRun
<1> QED
  BY <1>2, <1>3, <1>4

LEMMA InvBegin == ASSUME IInv, NEW l \in Loops, BeginRun(l) PROVE IInv'
<1>1. /\ Still /\ UNCHANGED <<visits, rollups, aggregated, missed>>
      /\ job' = [job EXCEPT ![l] =
             [pc |-> "aggregate", day |-> Today - 1, sums |-> {}, timely |-> FALSE]]
      /\ overlapped' = IF UnderWay = {} THEN overlapped ELSE overlapped \cup UnderWay \cup {l}
      /\ Moves(l, "waiting", "running")
  BY DEF BeginRun, PreviousDay, Still, tables, RunsOnTrigger, RunsOnTimer
<1>2. Owned'
  BY OwnedStep DEF IInv, SchedulerNext, BeginRun
<1>3. Today \in Nat /\ RetentionDays \in Nat
  BY VisitAssumption, TodayType DEF IInv
<1>4. [pc |-> "aggregate", day |-> Today - 1, sums |-> {}, timely |-> FALSE] \in Run
  BY <1>3 DEF Run, RunPlaces
<1>5. /\ job' \in [Loops -> Run] /\ OnlyRun(l)
      /\ loop[l] = "waiting" /\ loop'[l] = "running"
      /\ job'[l] = [pc |-> "aggregate", day |-> Today - 1, sums |-> {}, timely |-> FALSE]
  BY <1>1, <1>4 DEF IInv, Types, Owned, SchedulerTypeOK, Moves, OnlyRun
<1>6. job[l].pc = "idle" /\ job[l].sums = {} /\ job'[l].pc = "aggregate" /\ job'[l].sums = {}
  BY <1>5 DEF IInv, Runs
<1>7. Types'
  BY <1>1, <1>5, StillFacts DEF IInv, Types, Still
<1>8. Runs'
  <2>1. \A k \in Loops : /\ job'[k].pc = "idle" <=> loop'[k] # "running"
                         /\ job'[k].sums # {} => job'[k].pc = "save"
                         /\ job'[k].pc \in {"cutoff", "prune"} => RetentionDays > 0
    BY <1>5, <1>6 DEF IInv, Runs, OnlyRun
  <2>2. ASSUME NEW j \in Loops, NEW k \in Loops, j # k, job'[j].pc # "idle", job'[k].pc # "idle"
        PROVE  j \in overlapped'
    <3>1. CASE j # l /\ k # l
      <4>1. j \in overlapped
        BY <2>2, <3>1, <1>5 DEF IInv, Runs, OnlyRun
      <4> QED
        BY <1>1, <4>1
    <3>2. CASE j = l \/ k = l
      <4>1. \E i \in {j, k} : i \in UnderWay
        BY <2>2, <3>2, <1>5 DEF OnlyRun, UnderWay
      <4>2. j = l \/ j \in UnderWay
        BY <2>2, <1>5 DEF OnlyRun, UnderWay
      <4> QED
        BY <1>1, <4>1, <4>2
    <3> QED
      BY <3>1, <3>2
  <2> QED
    BY <2>1, <2>2 DEF Runs
<1>9. Days'
  BY <1>1, <1>3, <1>5, StillFacts DEF IInv, Days, OnlyRun
<1>10. \A d \in Nat : Safe(d)' => Safe(d)
  <2> SUFFICES ASSUME NEW d \in Nat, Safe(d)' PROVE Safe(d)
    OBVIOUS
  <2>1. ASSUME NEW k \in Loops, job'[k].pc = "aggregate", k \notin overlapped', d >= job'[k].day
        PROVE  Safe(d)
    <3>1. CASE k = l
      BY <1>3, <1>5, <2>1, <3>1 DEF Safe
    <3>2. CASE k # l
      BY <1>1, <1>5, <2>1, <3>2 DEF Safe, OnlyRun
    <3> QED
      BY <3>1, <3>2
  <2> QED
    BY <1>1, <2>1, StillFacts DEF Safe
<1>11. Table'
  BY <1>1, <1>10, StillTable
<1>12. Bracketed'
  BY <1>1, <1>5, <1>6, StillFacts DEF IInv, Bracketed, OnlyRun
<1>13. Accounted'
  BY <1>1, <1>5, <1>6, StillFacts DEF IInv, Accounted, AggregatedIsAccounted, OnlyRun
<1> QED
  BY <1>2, <1>7, <1>8, <1>9, <1>11, <1>12, <1>13 DEF IInv

(* The rows of the day are safe at the SELECT of a timely run.              *)
LEMMA TimelySafe ==
    ASSUME NEW l \in Loops, job[l].pc = "aggregate", job[l].day \in Int, Timely(l)
    PROVE  Safe(job[l].day)
BY DEF Timely, Safe

LEMMA InvAggregate == ASSUME IInv, NEW l \in Loops, Aggregate(l) PROVE IInv'
<1> DEFINE d == job[l].day
           ran == [pc |-> AfterSums(SumsOf(d)), day |-> d, sums |-> SumsOf(d), timely |-> Timely(l)]
<1>1. /\ Still /\ UNCHANGED <<visits, rollups, overlapped, missed>> /\ UNCHANGED schedulerVars
      /\ job[l].pc = "aggregate"
  BY DEF Aggregate, Still, tables
<1>2. Owned' /\ UNCHANGED loop
  BY <1>1, OwnedStep DEF IInv, schedulerVars
<1>3. job[l].sums = {}
  BY <1>1 DEF IInv, Runs
<1>4. Today \in Nat /\ d \in Int /\ d < Today
  BY <1>1, TodayType DEF IInv, Days, Types, Run
<1>5. CASE /\ job' = [job EXCEPT ![l].pc = "done"]
           /\ UNCHANGED aggregated
  <2>1. /\ job' \in [Loops -> Run] /\ OnlyRun(l)
        /\ job'[l].pc = "done" /\ job'[l].sums = {}
    BY <1>2, <1>3, <1>5 DEF IInv, Types, Run, RunPlaces, OnlyRun
  <2>2. Types'
    BY <1>1, <1>5, <2>1, StillFacts DEF IInv, Types, Still
  <2>3. Runs' /\ Days' /\ \A e : Safe(e)' => Safe(e)
    BY <1>1, <1>2, <2>1, GoesOn
  <2>4. Table'
    BY <1>1, <2>3, StillTable
  <2>5. Bracketed'
    BY <1>1, <2>1, StillFacts DEF IInv, Bracketed, OnlyRun
  <2>6. Accounted'
    BY <1>1, <1>3, <1>5, <2>1, StillFacts DEF IInv, Accounted, AggregatedIsAccounted, OnlyRun
  <2> QED
    BY <1>2, <2>2, <2>3, <2>4, <2>5, <2>6 DEF IInv
<1>6. ASSUME /\ job' = [job EXCEPT ![l] = ran]
             /\ aggregated' = IF Timely(l) THEN aggregated \cup {d} ELSE aggregated
      PROVE  IInv'
  <2>1. Timely(l) \in BOOLEAN /\ (Timely(l) => Safe(d))
    BY <1>1, <1>4, TimelySafe DEF Timely
  <2>2. \A x \in SumsOf(d) : x \in Sum /\ Fits(Timely(l), x.site, d, x.views, x.uniques)
    BY <1>4, <2>1, SumsFit DEF IInv
  <2>3. /\ AfterSums(SumsOf(d)) \in {"save", "cutoff", "done"}
        /\ SumsOf(d) # {} => AfterSums(SumsOf(d)) = "save"
        /\ AfterSums(SumsOf(d)) = "cutoff" => RetentionDays > 0
    BY DEF AfterSums
  <2>4. ran \in Run
    BY <1>4, <2>1, <2>2, <2>3 DEF Run, RunPlaces
  <2>5. job' \in [Loops -> Run] /\ OnlyRun(l) /\ job'[l] = ran
    BY <1>2, <1>6, <2>4 DEF IInv, Types, OnlyRun
  <2>6. /\ job'[l].pc = AfterSums(SumsOf(d)) /\ job'[l].day = d
        /\ job'[l].sums = SumsOf(d) /\ job'[l].timely = Timely(l)
    BY <2>5
  <2>7. Types'
    BY <1>1, <1>4, <1>6, <2>5, StillFacts DEF IInv, Types, Still
  <2>8. Runs' /\ Days' /\ \A e : Safe(e)' => Safe(e)
    BY <1>1, <1>2, <2>3, <2>5, <2>6, GoesOn
  <2>9. Table'
    BY <1>1, <2>8, StillTable
  <2>10. Bracketed'
    <3>1. ASSUME NEW x \in job'[l].sums
          PROVE  \E e \in Int, t \in BOOLEAN :
                     e = job'[l].day /\ t = job'[l].timely /\ Fits(t, x.site, e, x.views, x.uniques)'
      BY <1>1, <1>4, <2>1, <2>2, <2>6, StillFacts
    <3>2. ASSUME NEW k \in Loops \ {l}, NEW x \in job'[k].sums
          PROVE  \E e \in Int, t \in BOOLEAN :
                     e = job'[k].day /\ t = job'[k].timely /\ Fits(t, x.site, e, x.views, x.uniques)'
      BY <1>1, <2>5, StillFacts DEF IInv, Types, Run, Bracketed, OnlyRun
    <3>3. \A r \in rollups' : Fits(r.timely, r.site, r.day, r.views, r.uniques)'
      BY <1>1, StillFacts DEF IInv, Bracketed
    <3> QED
      BY <3>1, <3>2, <3>3 DEF Bracketed
  <2>11. Accounted'
    <3>1. \A e \in aggregated' : e < Today'
      BY <1>1, <1>4, <1>6, StillFacts DEF IInv, Accounted
    <3>2. ASSUME NEW s \in Sites, InTime(s, d) # {}, Timely(l)
          PROVE  \E x \in job'[l].sums : x.site = s
      BY <2>1, <2>6, <3>2, SumsComplete DEF IInv
    <3>3. ASSUME NEW e \in aggregated', NEW s \in Sites, InTime(s, e)' # {}
          PROVE  \/ \E r \in rollups' : r.site = s /\ r.day = e
                 \/ \E k \in Loops : job'[k].day = e /\ \E x \in job'[k].sums : x.site = s
                 \/ <<s, e>> \in missed'
      <4>1. InTime(s, e) # {}
        BY <1>1, <3>3, StillFacts
      <4>2. CASE e = d /\ Timely(l)
        BY <2>6, <3>2, <4>1, <4>2
      <4>3. CASE e \in aggregated
        <5>1. CASE \E k \in Loops : job[k].day = e /\ \E x \in job[k].sums : x.site = s
          BY <1>3, <2>5, <5>1 DEF OnlyRun
        <5> QED
          BY <1>1, <4>1, <4>3, <5>1 DEF IInv, Accounted, AggregatedIsAccounted
      <4> QED
        BY <1>6, <3>3, <4>2, <4>3
    <3> QED
      BY <3>1, <3>3 DEF Accounted, AggregatedIsAccounted
  <2> QED
    BY <1>2, <2>7, <2>8, <2>9, <2>10, <2>11 DEF IInv
<1> QED
  BY <1>5, <1>6 DEF Aggregate

LEMMA InvSave == ASSUME IInv, NEW l \in Loops, Save(l) PROVE IInv'
<1>1. /\ Still /\ UNCHANGED <<visits, overlapped, aggregated>> /\ UNCHANGED schedulerVars
      /\ job[l].pc = "save"
  BY DEF Save, Still
<1>2. Owned' /\ UNCHANGED loop
  BY <1>1, OwnedStep DEF IInv, schedulerVars
<1>3. PICK s \in job[l].sums, saved \in BOOLEAN :
          /\ IF saved
             THEN rollups' = rollups \cup {RollupRow(l, s)} /\ UNCHANGED missed
             ELSE missed' = missed \cup {<<s.site, job[l].day>>} /\ UNCHANGED rollups
          /\ job' = [job EXCEPT ![l].sums = job[l].sums \ {s},
                                ![l].pc = AfterSums(job[l].sums \ {s})]
  BY DEF Save, Remaining
<1>4. /\ AfterSums(job[l].sums \ {s}) \in {"save", "cutoff", "done"}
      /\ job[l].sums \ {s} # {} => AfterSums(job[l].sums \ {s}) = "save"
      /\ AfterSums(job[l].sums \ {s}) = "cutoff" => RetentionDays > 0
  BY DEF AfterSums
<1>5. /\ job' \in [Loops -> Run] /\ OnlyRun(l)
      /\ job'[l].pc = AfterSums(job[l].sums \ {s}) /\ job'[l].day = job[l].day
      /\ job'[l].sums = job[l].sums \ {s} /\ job'[l].timely = job[l].timely
  BY <1>2, <1>3, <1>4 DEF IInv, Types, Run, RunPlaces, OnlyRun
<1>6. /\ rollups' \subseteq rollups \cup {RollupRow(l, s)}
      /\ rollups \subseteq rollups' /\ missed \subseteq missed'
      /\ RollupRow(l, s) \in rollups' \/ <<s.site, job[l].day>> \in missed'
  BY <1>3
<1>7. /\ RollupRow(l, s).site = s.site /\ RollupRow(l, s).day = job[l].day
      /\ RollupRow(l, s).views = s.views /\ RollupRow(l, s).uniques = s.uniques
      /\ RollupRow(l, s).timely = job[l].timely
  BY DEF RollupRow
<1>8. \A k \in Loops : job[k].day \in Int /\ job[k].timely \in BOOLEAN
  BY DEF IInv, Types, Run
<1>9. Types'
  BY <1>1, <1>5, <1>6, <1>7, <1>8, StillFacts DEF IInv, Types, Still
<1>10. Runs' /\ Days' /\ \A e : Safe(e)' => Safe(e)
  BY <1>1, <1>2, <1>4, <1>5, GoesOn
<1>11. Table'
  BY <1>1, <1>10, StillTable
<1>12. Bracketed'
  <2>1. Fits(job[l].timely, s.site, job[l].day, s.views, s.uniques)
    BY DEF IInv, Bracketed
  <2>2. \A r \in rollups' : Fits(r.timely, r.site, r.day, r.views, r.uniques)
    BY <1>6, <1>7, <2>1 DEF IInv, Bracketed
  <2>3. \A r \in rollups' : Fits(r.timely, r.site, r.day, r.views, r.uniques)'
    BY <1>1, <2>2, StillFacts
  <2>4. ASSUME NEW k \in Loops, NEW x \in job'[k].sums
        PROVE  \E d \in Int, t \in BOOLEAN :
                   d = job'[k].day /\ t = job'[k].timely /\ Fits(t, x.site, d, x.views, x.uniques)'
    <3>1. x \in job[k].sums /\ job'[k].day = job[k].day /\ job'[k].timely = job[k].timely
      BY <1>5 DEF OnlyRun
    <3> QED
      BY <1>1, <1>8, <3>1, StillFacts DEF IInv, Bracketed
  <2> QED
    BY <2>3, <2>4 DEF Bracketed
<1>13. Accounted'
  <2>1. \A d \in aggregated' : d < Today'
    BY <1>1, StillFacts DEF IInv, Accounted
  <2>2. ASSUME NEW d \in aggregated', NEW t \in Sites, InTime(t, d)' # {}
        PROVE  \/ \E r \in rollups' : r.site = t /\ r.day = d
               \/ \E k \in Loops : job'[k].day = d /\ \E x \in job'[k].sums : x.site = t
               \/ <<t, d>> \in missed'
    <3>1. \/ \E r \in rollups : r.site = t /\ r.day = d
          \/ \E k \in Loops : job[k].day = d /\ \E x \in job[k].sums : x.site = t
          \/ <<t, d>> \in missed
      BY <1>1, <2>2, StillFacts DEF IInv, Accounted, AggregatedIsAccounted
    <3>2. ASSUME NEW x \in job[l].sums, x.site = t, job[l].day = d, x = s
          PROVE  (\E r \in rollups' : r.site = t /\ r.day = d) \/ <<t, d>> \in missed'
      BY <1>6, <1>7, <3>2
    <3>3. ASSUME NEW x \in job[l].sums, x.site = t, job[l].day = d, x # s
          PROVE  \E k \in Loops : job'[k].day = d /\ \E y \in job'[k].sums : y.site = t
      BY <1>5, <3>3
    <3>4. ASSUME NEW k \in Loops \ {l}, job[k].day = d, NEW x \in job[k].sums, x.site = t
          PROVE  \E m \in Loops : job'[m].day = d /\ \E y \in job'[m].sums : y.site = t
      BY <1>5, <3>4 DEF OnlyRun
    <3> QED
      BY <1>6, <3>1, <3>2, <3>3, <3>4
  <2> QED
    BY <2>1, <2>2 DEF Accounted, AggregatedIsAccounted
<1> QED
  BY <1>2, <1>9, <1>10, <1>11, <1>12, <1>13 DEF IInv

LEMMA InvCutoff == ASSUME IInv, NEW l \in Loops, Cutoff(l) PROVE IInv'
<1>1. /\ Still /\ UNCHANGED <<visits, rollups, overlapped, aggregated, missed>>
      /\ UNCHANGED schedulerVars
      /\ job[l].pc = "cutoff"
      /\ job' = [job EXCEPT ![l].pc = "prune", ![l].day = Today - RetentionDays]
  BY DEF Cutoff, Still, tables, history
<1>2. Owned' /\ UNCHANGED loop
  BY <1>1, OwnedStep DEF IInv, schedulerVars
<1>3. /\ job[l].sums = {} /\ RetentionDays > 0
      /\ RetentionDays \in Nat /\ Today \in Nat
  BY <1>1, VisitAssumption, TodayType DEF IInv, Runs
<1>4. /\ job' \in [Loops -> Run] /\ OnlyRun(l)
      /\ job'[l].pc = "prune" /\ job'[l].sums = {} /\ job'[l].day = Today - RetentionDays
  <2> DEFINE r == [job[l] EXCEPT !.pc = "prune", !.day = Today - RetentionDays]
  <2>1. job[l] \in Run /\ Today - RetentionDays \in Int /\ "prune" \in RunPlaces
    BY <1>3 DEF IInv, Types, RunPlaces
  <2>2. r \in Run /\ r.pc = "prune" /\ r.sums = {} /\ r.day = Today - RetentionDays
    BY <1>3, <2>1 DEF Run
  <2>3. job' = [job EXCEPT ![l] = r]
    BY <1>1
  <2> HIDE DEF r
  <2> QED
    BY <1>2, <2>2, <2>3 DEF IInv, Types, OnlyRun
<1>5. Types'
  BY <1>1, <1>4, StillFacts DEF IInv, Types, Still
<1>6. Runs' /\ Days' /\ \A e : Safe(e)' => Safe(e)
  BY <1>1, <1>2, <1>3, <1>4, GoesOn
<1>7. Table'
  BY <1>1, <1>6, StillTable
<1>8. Bracketed'
  BY <1>1, <1>4, StillFacts DEF IInv, Bracketed, OnlyRun
<1>9. Accounted'
  BY <1>1, <1>3, <1>4, StillFacts DEF IInv, Accounted, AggregatedIsAccounted, OnlyRun
<1> QED
  BY <1>2, <1>5, <1>6, <1>7, <1>8, <1>9 DEF IInv

(* Pruning keeps the days that are safe: those of the retention, and no     *)
(* other run has any, since this one meets it.                              *)
LEMMA InvPrune == ASSUME IInv, NEW l \in Loops, Prune(l) PROVE IInv'
<1>1. /\ Still /\ UNCHANGED <<rollups, overlapped, aggregated, missed>> /\ UNCHANGED schedulerVars
      /\ job[l].pc = "prune" /\ job' = [job EXCEPT ![l].pc = "done"]
      /\ visits' = {v \in visits : Kept(v, job[l].day)} \/ visits' = visits
  BY DEF Prune, Still, history
<1>2. Owned' /\ UNCHANGED loop
  BY <1>1, OwnedStep DEF IInv, schedulerVars
<1>3. /\ job[l].sums = {} /\ RetentionDays \in Nat /\ RetentionDays > 0 /\ Today \in Nat
      /\ job[l].day \in Int /\ job[l].day <= Today - RetentionDays
  BY <1>1, VisitAssumption, TodayType DEF IInv, Runs, Days, Types, Run
<1>4. /\ job' \in [Loops -> Run] /\ OnlyRun(l)
      /\ job'[l].pc = "done" /\ job'[l].sums = {}
  BY <1>1, <1>2, <1>3 DEF IInv, Types, Run, RunPlaces, OnlyRun
<1>5. visits' \in SUBSET visits
  BY <1>1
<1>6. Types'
  BY <1>1, <1>4, <1>5, FS_Subset, StillFacts DEF IInv, Types, Still
<1>7. Runs' /\ Days' /\ \A d : Safe(d)' => Safe(d)
  BY <1>1, <1>2, <1>3, <1>4, GoesOn
<1>8. \A d \in Nat : Safe(d)' => d >= job[l].day
  <2>1. \A k \in Loops : job'[k].pc = "aggregate" => k \in overlapped'
    <3> SUFFICES ASSUME NEW k \in Loops, job'[k].pc = "aggregate" PROVE k \in overlapped'
      OBVIOUS
    <3>1. k # l /\ job[k].pc = "aggregate"
      BY <1>4 DEF OnlyRun
    <3> QED
      BY <1>1, <3>1 DEF IInv, Runs
  <2> QED
    BY <1>3, <2>1, StillFacts, <1>1 DEF Safe
<1>9. Table'
  <2>1. ASSUME NEW q \in Stored, Safe(Day(request[q].at))'
        PROVE  NewSiteVisit(q) \in visits'
    <3>1. Day(request[q].at) \in Nat /\ Day(request'[q].at) = Day(request[q].at)
      BY <1>1, DayType DEF IInv, Types, Calls, Stored, Still
    <3>2. NewSiteVisit(q) \in visits /\ NewSiteVisit(q).at = request[q].at
      BY <1>7, <2>1, <3>1 DEF IInv, Table, NewSiteVisit
    <3>3. Kept(NewSiteVisit(q), job[l].day)
      BY <1>8, <2>1, <3>1, <3>2 DEF Kept
    <3> QED
      BY <1>1, <3>2, <3>3
  <2> QED
    BY <1>1, <1>5, <2>1, StillFacts DEF IInv, Table, Still
<1>10. Bracketed'
  BY <1>1, <1>4, StillFacts DEF IInv, Bracketed, OnlyRun
<1>11. Accounted'
  BY <1>1, <1>3, <1>4, StillFacts DEF IInv, Accounted, AggregatedIsAccounted, OnlyRun
<1> QED
  BY <1>2, <1>6, <1>7, <1>9, <1>10, <1>11 DEF IInv

LEMMA InvEnd == ASSUME IInv, NEW l \in Loops, EndRun(l) PROVE IInv'
<1>1. /\ Still /\ UNCHANGED <<visits, rollups, aggregated, missed>>
      /\ job[l].pc = "done" /\ job' = [job EXCEPT ![l] = NoRun]
      /\ overlapped' = overlapped \ {l}
      /\ Moves(l, "running", "waiting")
  BY DEF EndRun, Still, tables, Finish
<1>2. Owned'
  BY OwnedStep DEF IInv, SchedulerNext, EndRun
<1>3. NoRun \in Run /\ NoRun.pc = "idle" /\ NoRun.sums = {}
  BY DEF NoRun, Run, RunPlaces
<1>4. /\ job' \in [Loops -> Run] /\ OnlyRun(l)
      /\ job'[l].pc = "idle" /\ job'[l].sums = {} /\ loop'[l] = "waiting"
  BY <1>1, <1>3 DEF IInv, Types, Owned, SchedulerTypeOK, Moves, OnlyRun
<1>5. job[l].sums = {}
  BY <1>1 DEF IInv, Runs
<1>6. Types'
  BY <1>1, <1>4, StillFacts DEF IInv, Types, Still
<1>7. Runs' /\ Days'
  BY <1>1, <1>4, StillFacts DEF IInv, Runs, Days, OnlyRun
<1>8. Table'
  <2>1. \A d : Safe(d)' => Safe(d)
    BY <1>1, <1>4, StillFacts DEF Safe, OnlyRun
  <2> QED
    BY <1>1, <2>1, StillTable
<1>9. Bracketed'
  BY <1>1, <1>4, StillFacts DEF IInv, Bracketed, OnlyRun
<1>10. Accounted'
  BY <1>1, <1>4, <1>5, StillFacts DEF IInv, Accounted, AggregatedIsAccounted, OnlyRun
<1> QED
  BY <1>2, <1>6, <1>7, <1>8, <1>9, <1>10 DEF IInv

LEMMA InvStutter == ASSUME IInv, UNCHANGED vars PROVE IInv'
<1>1. /\ Still /\ UNCHANGED <<visits, rollups, job, overlapped, aggregated, missed>>
      /\ UNCHANGED schedulerVars
  BY DEF vars, visitVars, history, Still
<1>2. Owned' /\ UNCHANGED loop
  BY <1>1, OwnedStep DEF IInv, schedulerVars
<1>3. Table'
  BY <1>1, StillFacts, StillTable DEF Safe
<1> QED
  BY <1>1, <1>2, <1>3, StillFacts
  DEF IInv, Types, Runs, Days, Bracketed, Accounted, AggregatedIsAccounted, Still

LEMMA InvNext == IInv /\ [Next]_vars => IInv'
<1> SUFFICES ASSUME IInv, [Next]_vars PROVE IInv'
  OBVIOUS
<1>1. CASE Control /\ UNCHANGED visitVars
  BY <1>1, InvControl
<1>2. CASE Tick
  BY <1>2, InvTick
<1>3. ASSUME NEW q \in Requests, Accept(q) \/ Insert(q) PROVE IInv'
  BY <1>3, InvAccept, InvInsert
<1>4. ASSUME NEW l \in Loops, BeginRun(l) \/ RunStep(l) PROVE IInv'
  BY <1>4, InvBegin, InvAggregate, InvSave, InvCutoff, InvPrune, InvEnd DEF RunStep
<1>5. CASE UNCHANGED vars
  BY <1>5, InvStutter
<1> QED
  BY <1>1, <1>2, <1>3, <1>4, <1>5 DEF Next

------------------------------------------------------------------------------
(* Every saved roll-up of every run counts visits of its site and day only, *)
(* each one once, and those of a timely run all that were stored in time:   *)
(* of a repeated, a late or an overlapped run too, unless as many midnights *)
(* as the retention keeps days passed between its clock and its SELECT.     *)
THEOREM RollupsAreBracketed == Spec => []RollupBracketed
<1>1. IInv => RollupBracketed
  BY DEF IInv, Bracketed, Fits, RollupBracketed
<1> QED
  BY InvInit, InvNext, <1>1, PTL DEF Spec

(* A day that a timely run has summed up is accounted for at every site,    *)
(* whichever statements failed and whatever other runs do.                  *)
THEOREM DaysAreAccounted == Spec => []AggregatedIsAccounted
<1>1. IInv => AggregatedIsAccounted
  BY DEF IInv, Accounted
<1> QED
  BY InvInit, InvNext, <1>1, PTL DEF Spec

Stopped == handle = NoLoop /\ \A c \in Callers : stopping[c] = Idle

(* When every call of Stop has returned and Start was not called again, no  *)
(* loop is left and no run is under way: whoever stopped the job may close  *)
(* its database.                                                            *)
THEOREM NoRunAfterStop ==
    Spec => [](Stopped => Alive = {} /\ \A l \in Loops : job[l].pc = "idle")
<1>1. IInv => (Stopped => Alive = {} /\ \A l \in Loops : job[l].pc = "idle")
  <2> SUFFICES ASSUME IInv, Stopped PROVE Alive = {} /\ \A l \in Loops : job[l].pc = "idle"
    OBVIOUS
  <2>1. \A l \in Loops : loop[l] \notin {"waiting", "running"}
    BY IdleIsNotStopping, NoLoopAssumption DEF IInv, Owned, Stopped
  <2> QED
    BY <2>1 DEF Alive, IInv, Runs
<1> QED
  BY InvInit, InvNext, <1>1, PTL DEF Spec

------------------------------------------------------------------------------
(* Pruning is invisible: the statistics of n days look at a window of at    *)
(* most n days, and no row of the last RetentionDays + 1 days is deleted.   *)
LEMMA WithinRequest ==
    ASSUME NEW n \in Nat \ {0}, NEW default, NEW max \in Nat
    PROVE  Within(n, default, max) \in Int /\ Within(n, default, max) <= n
<1>1. ~(n <= 0)
  OBVIOUS
<1>2. Within(n, default, max) = Min({n, max})
  BY <1>1 DEF Within
<1>3. \E m \in {n, max} : \A k \in {n, max} : m <= k
  OBVIOUS
<1>4. Min({n, max}) \in {n, max} /\ \A k \in {n, max} : Min({n, max}) <= k
  BY <1>3 DEF Min
<1> QED
  BY <1>2, <1>4

LEMMA PruneKeepsWindow ==
    ASSUME Types, Days, Table, NEW l \in Loops, Prune(l),
           NEW s, NEW days \in Int, days <= RetentionDays + 1
    PROVE  InWindow(visits', s, days, Today) = InWindow(visits, s, days, Today)
<1>1. visits' \subseteq visits /\ \A v \in visits : Kept(v, job[l].day) => v \in visits'
  BY DEF Prune
<1>2. /\ RetentionDays \in Nat /\ Today \in Nat
      /\ job[l].day \in Int /\ job[l].day <= Today - RetentionDays
  BY VisitAssumption, TodayType DEF Prune, Days, Types, Run
<1>3. ASSUME NEW v \in visits PROVE Day(v.at) \in Nat
  <2>1. PICK q \in Stored : v = NewSiteVisit(q)
    BY DEF Table
  <2>2. v.at = request[q].at /\ request[q].at \in Nat
    BY <2>1 DEF NewSiteVisit, Types, Calls, Stored
  <2> QED
    BY <2>2, DayType
<1>4. ASSUME NEW v \in InWindow(visits, s, days, Today) PROVE v \in visits'
  <2>1. v \in visits /\ Day(v.at) >= Today - (days - 1)
    BY DEF InWindow, Human, StartDay
  <2>2. Kept(v, job[l].day)
    BY <1>2, <1>3, <2>1 DEF Kept
  <2> QED
    BY <1>1, <2>1, <2>2
<1> QED
  BY <1>1, <1>4 DEF InWindow, Human

(* Only the pruning deletes rows.                                           *)
LEMMA OnlyPruneDeletes ==
    ASSUME [Next]_vars, visits \ visits' # {}
    PROVE  \E l \in Loops : Prune(l)
<1>1. CASE UNCHANGED visits
  BY <1>1
<1>2. Control /\ UNCHANGED visitVars => UNCHANGED visits
  BY DEF visitVars
<1>3. Tick \/ UNCHANGED vars => UNCHANGED visits
  BY DEF Tick, tables, vars, visitVars
<1>4. ASSUME NEW q \in Requests, Accept(q) \/ Insert(q) PROVE visits \subseteq visits'
  BY <1>4 DEF Accept, Insert, tables
<1>5. ASSUME NEW l \in Loops,
             BeginRun(l) \/ Aggregate(l) \/ Save(l) \/ Cutoff(l) \/ EndRun(l)
      PROVE  UNCHANGED visits
  BY <1>5 DEF BeginRun, Aggregate, Save, Cutoff, EndRun, tables
<1> QED
  BY <1>1, <1>2, <1>3, <1>4, <1>5 DEF Next, RunStep

LEMMA PruneKeepsBoth ==
    ASSUME IInv, [Next]_vars, visits \ visits' # {}, NEW s, NEW n \in 1..RetentionDays + 1
    PROVE  /\ VisitTrend(visits', s, n, Today) = VisitTrend(visits, s, n, Today)
           /\ VisitEngagement(visits', s, n, Today) = VisitEngagement(visits, s, n, Today)
<1>1. PICK l \in Loops : Prune(l)
  BY OnlyPruneDeletes
<1>2. n \in Nat \ {0} /\ RetentionDays \in Nat /\ n <= RetentionDays + 1
  BY VisitAssumption
<1>3. TrendMax \in Nat /\ EngagementMax \in Nat
  BY StatisticsAssumption
<1>4. TrendDays(n) \in Int /\ TrendDays(n) <= RetentionDays + 1
  BY <1>2, <1>3, WithinRequest DEF TrendDays
<1>5. EngagementDays(n) \in Int /\ EngagementDays(n) <= RetentionDays + 1
  BY <1>2, <1>3, WithinRequest DEF EngagementDays
<1>6. InWindow(visits', s, TrendDays(n), Today) = InWindow(visits, s, TrendDays(n), Today)
  BY <1>1, <1>4, PruneKeepsWindow DEF IInv
<1>7. InWindow(visits', s, EngagementDays(n), Today) = InWindow(visits, s, EngagementDays(n), Today)
  BY <1>1, <1>5, PruneKeepsWindow DEF IInv
<1>8. VisitTrend(visits', s, n, Today) = VisitTrend(visits, s, n, Today)
  BY <1>6, Zenon DEF VisitTrend
<1>9. VisitEngagement(visits', s, n, Today) = VisitEngagement(visits, s, n, Today)
  BY <1>7, Zenon DEF VisitEngagement
<1> QED
  BY <1>8, <1>9

(* No deletion of old rows ever changes the trend or the engagement metrics *)
(* of as many days as the retention promises to keep.                       *)
THEOREM PruningIsInvisible == Spec => PruneKeepsStatistics
<1> DEFINE Invisible == \A s \in Sites, n \in 1..RetentionDays + 1 : visits \ visits' # {} =>
          /\ VisitTrend(visits', s, n, Today) = VisitTrend(visits, s, n, Today)
          /\ VisitEngagement(visits', s, n, Today) = VisitEngagement(visits, s, n, Today)
<1>1. IInv /\ [Next]_vars => Invisible
  BY PruneKeepsBoth
<1>2. [][Invisible]_vars <=> PruneKeepsStatistics
  BY DEF PruneKeepsStatistics
<1> HIDE DEF Invisible
<1>3. IInv /\ [Next]_vars => [Invisible]_vars
  BY <1>1
<1> QED
  BY InvInit, InvNext, <1>2, <1>3, PTL DEF Spec

------------------------------------------------------------------------------
(* The rows of the table are visits of requests that were accepted, not     *)
(* after now and with the values of a beacon.                               *)
Sends ==
    \A q \in Requests : request[q].pc \in {"insert", "stored"} =>
        request[q].beacon \in Beacons[q] /\ request[q].at <= now

LEMMA SendsStep == IInv /\ Sends /\ [Next]_vars => Sends'
<1> SUFFICES ASSUME IInv, Sends, [Next]_vars PROVE Sends'
  OBVIOUS
<1>1. now \in Nat /\ request \in [Requests -> Calls]
  BY DEF IInv, Types
<1>2. ASSUME UNCHANGED <<request, now>> PROVE Sends'
  BY <1>2 DEF Sends
<1>3. CASE Control /\ UNCHANGED visitVars
  BY <1>2, <1>3 DEF visitVars
<1>4. CASE Tick
  <2>1. now' = now + 1 /\ request' = request
    BY <1>4 DEF Tick
  <2>2. \A q \in Requests : request[q].at \in Nat
    BY <1>1 DEF Calls
  <2> QED
    BY <1>1, <2>1, <2>2 DEF Sends
<1>5. ASSUME NEW q \in Requests, Accept(q) PROVE Sends'
  <2>1. PICK b \in Beacons[q] :
            request' = [request EXCEPT ![q] =
                IF Acceptable(b) THEN Call("insert", b, now) ELSE Rejected]
    BY <1>5 DEF Accept
  <2>2. now' = now /\ \A p \in Requests \ {q} : request'[p] = request[p]
    BY <1>1, <1>5, <2>1 DEF Accept
  <2>3. request'[q].pc = "insert" => request'[q].beacon = b /\ request'[q].at = now
    BY <1>1, <2>1 DEF Call, Rejected
  <2>4. request'[q].pc # "stored"
    BY <1>1, <2>1 DEF Call, Rejected
  <2> QED
    BY <1>1, <2>2, <2>3, <2>4 DEF Sends
<1>6. ASSUME NEW q \in Requests, Insert(q) PROVE Sends'
  <2>1. request[q].pc = "insert" /\ now' = now
    BY <1>6 DEF Insert
  <2>2. \/ /\ request'[q].beacon = request[q].beacon /\ request'[q].at = request[q].at
        \/ request'[q].pc = "rejected"
    BY <1>1, <1>6 DEF Insert, Call, Rejected, Calls
  <2>3. \A p \in Requests \ {q} : request'[p] = request[p]
    BY <1>1, <1>6 DEF Insert
  <2> QED
    BY <2>1, <2>2, <2>3 DEF Sends
<1>7. ASSUME NEW l \in Loops, BeginRun(l) \/ RunStep(l) PROVE Sends'
  BY <1>2, <1>7 DEF BeginRun, RunStep, Aggregate, Save, Cutoff, Prune, EndRun
<1>8. CASE UNCHANGED vars
  BY <1>2, <1>8 DEF vars, visitVars
<1> QED
  BY <1>3, <1>4, <1>5, <1>6, <1>7, <1>8 DEF Next

LEMMA TableReadable ==
    ASSUME IInv, Sends
    PROVE  Readable(visits) /\ \A v \in visits : Day(v.at) <= Today
<1>1. IsFiniteSet(visits) /\ now \in Nat
  BY DEF IInv, Types
<1>2. ASSUME NEW v \in visits
      PROVE  /\ v.at \in Nat /\ v.path.name \in Nat /\ Day(v.at) <= Today
             /\ {v.referrer, v.utm.source, v.utm.medium, v.utm.campaign} \subseteq DOMAIN Normal
  <2>1. PICK q \in Stored : v = NewSiteVisit(q)
    BY DEF IInv, Table
  <2>2. /\ v.at = request[q].at /\ v.path = request[q].beacon.path
        /\ v.utm = request[q].beacon.utm /\ v.referrer = request[q].beacon.referrer
    BY <2>1 DEF NewSiteVisit
  <2>3. /\ q \in Requests /\ request[q].beacon \in Beacons[q] /\ request[q].at <= now
        /\ request[q].at \in Nat
    BY DEF Stored, Sends, IInv, Types, Calls
  <2>4. Day(v.at) <= Today
    BY <1>1, <2>2, <2>3, DayGrows DEF Today
  <2> QED
    BY <2>2, <2>3, <2>4, BeaconAssumption
<1> QED
  BY <1>1, <1>2 DEF Readable

(* However visits are collected and pruned and whenever the clock moves on, *)
(* the lists, the trend and the engagement metrics agree with each other    *)
(* and with the totals of the site, for every length of the window and      *)
(* every number of entries that is asked for.                               *)
THEOREM StatisticsAlwaysAgree == Spec => []StatisticsAgree
<1>1. Init => Sends
  BY DEF Init, Sends, Call
<1>2. IInv /\ Sends => StatisticsAgree
  <2> SUFFICES ASSUME IInv, Sends PROVE StatisticsAgree
    OBVIOUS
  <2>1. Readable(visits) /\ \A v \in visits : Day(v.at) <= Today
    BY TableReadable
  <2>2. Today \in Nat
    BY TodayType DEF IInv
  <2>3. \A s : \A n \in Limits : ListsAgree(visits, s, n)
    BY <2>1, ListsAlwaysAgree, VisitAssumption
  <2>4. \A s : \A n \in 1..Min({TrendMax, EngagementMax}) : WindowsAgree(visits, s, n, Today)
    BY <2>1, <2>2, WindowsAlwaysAgree
  <2> QED
    BY <2>3, <2>4 DEF StatisticsAgree
<1> QED
  BY InvInit, InvNext, SendsStep, <1>1, <1>2, PTL DEF Spec

================================================================================
