------------------------------- MODULE Scheduler -------------------------------
(* internal/task/scheduler.go: a goroutine that runs a job whenever a timer *)
(* fires or somebody asks for a run.  Start, Stop and Trigger may be called *)
(* from any goroutine, also while a run is under way.                       *)
(*                                                                          *)
(* Every loop goroutine that Start launches is a member of Loops.  The      *)
(* module leaves open what a run does: Begin and Finish bound it.           *)
EXTENDS Integers, FiniteSets

CONSTANTS
    Callers,         \* goroutines that call Stop
    Loops,           \* loop goroutines, one for each effective Start
    NoLoop           \* stands for a nil cancel and done

VARIABLES
    handle,          \* scheduler.cancel and scheduler.done: whose they are
    loop,            \* where each loop goroutine is
    cancelled,       \* loops whose context was cancelled by Stop
    parentDone,      \* the context given to Start has ended
    trigger,         \* the channel `trigger` holds its one element
    stopping         \* for each caller of Stop: the loop it took, and its step

schedulerVars == <<handle, loop, cancelled, parentDone, trigger, stopping>>

ASSUME NoLoopAssumption == NoLoop \notin Loops

Places == {"unborn", "waiting", "running", "ended"}
Steps  == {"idle", "cancel", "join"}
Idle   == [step |-> "idle", loop |-> NoLoop]

SchedulerInit ==
    /\ handle = NoLoop
    /\ loop = [l \in Loops |-> "unborn"]
    /\ cancelled = {}
    /\ parentDone = FALSE
    /\ trigger = FALSE
    /\ stopping = [c \in Callers |-> Idle]

Moves(l, from, to) == loop[l] = from /\ loop' = [loop EXCEPT ![l] = to]

(* Start: refused while a handle is set, even if its loop has ended with    *)
(* the parent context.  The mutex covers the test and the assignment.       *)
RefusesNone == FALSE  \* faulty variant: starts again without looking
StartRefused == handle # NoLoop
Start ==
    /\ ~StartRefused
    /\ \E l \in Loops : Moves(l, "unborn", "waiting") /\ handle' = l
    /\ UNCHANGED <<cancelled, parentDone, trigger, stopping>>

(* Trigger: a send to a channel of capacity one that never blocks.          *)
Trigger ==
    /\ trigger' = TRUE
    /\ UNCHANGED <<handle, loop, cancelled, parentDone, stopping>>

(* Stop takes the handle under the mutex, then cancels the loop's context,  *)
(* then waits for the loop to end.  A Stop that finds no handle returns at  *)
(* once, whatever other calls of Stop are doing.                            *)
StopTakesHandle(c) ==
    /\ stopping[c] = Idle
    /\ handle # NoLoop
    /\ stopping' = [stopping EXCEPT ![c] = [step |-> "cancel", loop |-> handle]]
    /\ handle' = NoLoop
    /\ UNCHANGED <<loop, cancelled, parentDone, trigger>>

StopCancels(c) ==
    /\ stopping[c].step = "cancel"
    /\ cancelled' = cancelled \cup {stopping[c].loop}
    /\ stopping' = [stopping EXCEPT ![c].step = "join"]
    /\ UNCHANGED <<handle, loop, parentDone, trigger>>

Joined(c) == loop[stopping[c].loop] = "ended"
StopReturnsNow(c) ==
    /\ stopping[c].step = "join"
    /\ Joined(c)
    /\ stopping' = [stopping EXCEPT ![c] = Idle]
    /\ UNCHANGED <<handle, loop, cancelled, parentDone, trigger>>

ParentEnds ==
    /\ ~parentDone
    /\ parentDone' = TRUE
    /\ UNCHANGED <<handle, loop, cancelled, trigger, stopping>>

(* The select of the loop: any of the ready cases may be taken.             *)
ParentOnly(l) == parentDone  \* faulty variant: Stop does not cancel
ContextDone(l) == l \in cancelled \/ parentDone

End(l) ==
    /\ ContextDone(l)
    /\ Moves(l, "waiting", "ended")
    /\ UNCHANGED <<handle, cancelled, parentDone, trigger, stopping>>

RunsOnTrigger(l) ==
    /\ trigger
    /\ trigger' = FALSE
    /\ Moves(l, "waiting", "running")
    /\ UNCHANGED <<handle, cancelled, parentDone, stopping>>

RunsOnTimer(l) ==
    /\ Moves(l, "waiting", "running")
    /\ UNCHANGED <<handle, cancelled, parentDone, trigger, stopping>>

(* The run returns and the timer is set again: a timer that fired during    *)
(* the run is drained first.                                                *)
Finish(l) ==
    /\ Moves(l, "running", "waiting")
    /\ UNCHANGED <<handle, cancelled, parentDone, trigger, stopping>>

Control ==
    \/ Start \/ Trigger \/ ParentEnds
    \/ \E c \in Callers : StopTakesHandle(c) \/ StopCancels(c) \/ StopReturnsNow(c)
    \/ \E l \in Loops : End(l)

SchedulerNext ==
    \/ Control
    \/ \E l \in Loops : RunsOnTrigger(l) \/ RunsOnTimer(l) \/ Finish(l)

SchedulerSpec == SchedulerInit /\ [][SchedulerNext]_schedulerVars

------------------------------------------------------------------------------
SchedulerTypeOK ==
    /\ handle \in Loops \cup {NoLoop}
    /\ loop \in [Loops -> Places]
    /\ cancelled \subseteq Loops
    /\ parentDone \in BOOLEAN
    /\ trigger \in BOOLEAN
    /\ stopping \in [Callers -> [step : Steps, loop : Loops \cup {NoLoop}]]

Alive == {l \in Loops : loop[l] \in {"waiting", "running"}}
StoppedBy(c) == IF stopping[c] = Idle THEN {} ELSE {stopping[c].loop}

(* No loop goroutine is ever lost: one that has not ended is the one the    *)
(* handle stands for or a call of Stop still waits for it.  So when Stop    *)
(* has returned and nobody has called Start again, no run is under way, and *)
(* two runs overlap only if Start is called during a Stop.                  *)
LoopsOwned ==
    /\ Alive \subseteq {handle} \cup UNION {StoppedBy(c) : c \in Callers}
    /\ handle \notin UNION {StoppedBy(c) : c \in Callers}

(* Stop returns, however often runs are asked for meanwhile.                *)
StopReturns == \A c \in Callers : stopping[c] # Idle ~> stopping[c] = Idle

==============================================================================
