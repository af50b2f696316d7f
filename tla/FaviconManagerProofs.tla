------------------------- MODULE FaviconManagerProofs -------------------------
(***************************************************************************)
(* Proofs, for any number of sites, origins and clients and any capacity   *)
(* of the queue, that the variables of the favicon manager keep their      *)
(* types and that its in-flight map is exact.                              *)
(***************************************************************************)
EXTENDS FaviconManager, TLAPS

(* A busy worker has a task, and the copy of a row while it collects.      *)
WorkerHasTask ==
    /\ worker.phase \in Busy => worker.task \in Task
    /\ worker.phase = "collect" => worker.row \in Row

TypeInv == TypeOK /\ WorkerHasTask

IInv == TypeInv /\ InFlightExact

-----------------------------------------------------------------------------
(* What sending to and receiving from the queue make of its elements.      *)
LEMMA AppendFacts ==
    ASSUME NEW q \in Seq(Task), NEW t \in Task
    PROVE  /\ Append(q, t) \in Seq(Task)
           /\ Len(Append(q, t)) = Len(q) + 1
           /\ DOMAIN Append(q, t) = DOMAIN q \cup {Len(q) + 1}
           /\ \A i \in DOMAIN q : Append(q, t)[i] = q[i]
           /\ Append(q, t)[Len(q) + 1] = t
           /\ Len(q) + 1 \notin DOMAIN q
OBVIOUS

LEMMA TailFacts ==
    ASSUME NEW q \in Seq(Task), q # <<>>
    PROVE  /\ Head(q) \in Task /\ Head(q) = q[1]
           /\ Tail(q) \in Seq(Task)
           /\ Len(Tail(q)) = Len(q) - 1
           /\ 1 \in DOMAIN q
           /\ \A i \in DOMAIN Tail(q) :
                 i + 1 \in DOMAIN q /\ i + 1 # 1 /\ Tail(q)[i] = q[i + 1]
           /\ \A i \in DOMAIN q : i = 1 \/ (i - 1 \in DOMAIN Tail(q)
                                            /\ Tail(q)[i - 1] = q[i])
OBVIOUS

(* The rows the actions write are rows.                                    *)
LEMMA RowFacts ==
    /\ \A o \in Origins : NewOrigin(o) \in Row
    /\ \A row \in Row, copy \in Row, result \in {"asset", "nothing", "error", "dbError"} :
          Collected(row, copy, result) \in Row
    /\ \A row \in Row : /\ [row EXCEPT !.attempted = "old"] \in Row
                        /\ [row EXCEPT !.fetched = "old"] \in Row
<1>1. \A o \in Origins : NewOrigin(o) \in Row
  BY DEF NewOrigin, Row, Ages
<1>2. ASSUME NEW row \in Row, NEW copy \in Row,
             NEW result \in {"asset", "nothing", "error", "dbError"}
      PROVE  Collected(row, copy, result) \in Row
  <2> DEFINE attempt == [row EXCEPT !.favOrigin = copy.origin, !.attempted = "fresh"]
  <2>1. attempt \in Row /\ copy.origin \in Origins
    BY DEF Row, Ages
  <2>2. /\ [attempt EXCEPT !.fetched = "fresh"] \in Row
        /\ [attempt EXCEPT !.icon = copy.origin, !.fetched = "fresh"] \in Row
    <3> HIDE DEF attempt
    <3> QED BY <2>1 DEF Row, Ages
  <2>3. Collected(row, copy, result) \in
            {row, attempt, [attempt EXCEPT !.fetched = "fresh"],
             [attempt EXCEPT !.icon = copy.origin, !.fetched = "fresh"]}
    BY DEF Collected
  <2> QED BY <2>1, <2>2, <2>3
<1>3. \A row \in Row : /\ [row EXCEPT !.attempted = "old"] \in Row
                       /\ [row EXCEPT !.fetched = "old"] \in Row
  BY DEF Row, Ages
<1> QED BY <1>1, <1>2, <1>3

-----------------------------------------------------------------------------
(* The initial state satisfies the invariant.                              *)
LEMMA InitInv == Init => IInv
<1> SUFFICES ASSUME Init PROVE IInv
  OBVIOUS
<1>1. TypeOK
  BY ParameterAssumption
     DEF Init, TypeOK, NothingHeld, IdleWorker, Phases
<1>2. WorkerHasTask
  BY DEF Init, WorkerHasTask, IdleWorker, Busy
<1>3. Queued = {} /\ InHand = {}
  BY DEF Init, Queued, InHand, IdleWorker, Busy
<1> QED BY <1>1, <1>2, <1>3 DEF IInv, TypeInv, InFlightExact, Init

(* The actions of clients, of the scan and of the passage of time touch    *)
(* tables and copies only.                                                 *)
Around ==
    \/ \E c \in Clients : Request(c)
    \/ ScanSites \/ AbortScan \/ Stop
    \/ \E s \in Sites : DeleteSite(s) \/ AttemptOlder(s) \/ FetchOlder(s)

LEMMA AroundFrame == Around => UNCHANGED fetches
BY DEF Around, Request, CreateSite, ReadForUpdate, ListSites, SaveUpdate, ScanSites,
       AbortScan, Stop, DeleteSite, AttemptOlder, FetchOlder, fetches

LEMMA AroundType == TypeInv /\ Around => TypeInv'
<1> SUFFICES ASSUME TypeInv, Around PROVE TypeInv'
  OBVIOUS
<1>1. UNCHANGED fetches
  BY AroundFrame
<1>2. /\ rows \in [Sites -> Row \cup {None}]
      /\ born \subseteq Sites
      /\ held \in [Agents -> [Sites -> Row \cup {None}]]
      /\ editing \in [Clients -> [site : Sites, row : Row] \cup {None}]
      /\ updates \in 0..MaxUpdates
      /\ running \in BOOLEAN
  BY DEF TypeInv, TypeOK
<1> DEFINE Tables ==
      /\ rows \in [Sites -> Row \cup {None}]
      /\ born \subseteq Sites
      /\ held \in [Agents -> [Sites -> Row \cup {None}]]
      /\ editing \in [Clients -> [site : Sites, row : Row] \cup {None}]
      /\ updates \in 0..MaxUpdates
      /\ running \in BOOLEAN
<1>3. Tables'
  <2>1. ASSUME NEW c \in Clients, NEW s \in Sites, NEW o \in Origins, CreateSite(c, s, o)
        PROVE  Tables'
    BY <1>2, <2>1, RowFacts DEF CreateSite, Hold, Agents, fetches
  <2>2. ASSUME NEW c \in Clients, NEW s \in Sites, ReadForUpdate(c, s)
        PROVE  Tables'
    <3>1. PICK row \in {rows[s]} \cup {NewOrigin(o) : o \in Origins} :
              editing' = [editing EXCEPT ![c] = [site |-> s, row |-> row]]
      BY <2>2 DEF ReadForUpdate
    <3>2. row \in Row
      BY <1>2, <2>2, <3>1, RowFacts DEF ReadForUpdate
    <3>3. [site |-> s, row |-> row] \in [site : Sites, row : Row]
      BY <3>2
    <3>4. updates' \in 0..MaxUpdates
      BY <1>2, <2>2, ParameterAssumption DEF ReadForUpdate
    <3> QED BY <1>2, <2>2, <3>1, <3>3, <3>4 DEF ReadForUpdate
  <2>3. ASSUME NEW c \in Clients, ListSites(c)
        PROVE  Tables'
    <3>1. PICK visible \in SUBSET Sites :
              held' = [held EXCEPT ![c] = [s \in Sites |->
                          IF s \in visible THEN rows[s] ELSE None]]
      BY <2>3 DEF ListSites
    <3>2. [s \in Sites |-> IF s \in visible THEN rows[s] ELSE None]
              \in [Sites -> Row \cup {None}]
      BY <1>2
    <3> QED BY <1>2, <2>3, <3>1, <3>2 DEF ListSites
  <2>4. ASSUME NEW c \in Clients, SaveUpdate(c)
        PROVE  Tables'
    <3>1. editing[c].site \in Sites /\ editing[c].row \in Row
      BY <1>2, <2>4 DEF SaveUpdate
    <3>2. /\ rows' \in [Sites -> Row \cup {None}]
          /\ held' \in [Agents -> [Sites -> Row \cup {None}]]
      BY <1>2, <2>4, <3>1 DEF SaveUpdate, Hold, Agents
    <3> QED BY <1>2, <2>4, <3>2 DEF SaveUpdate
  <2>5. CASE ScanSites \/ AbortScan \/ Stop
    BY <1>2, <2>5 DEF ScanSites, AbortScan, Stop, NothingHeld, requests
  <2>6. ASSUME NEW s \in Sites, DeleteSite(s) \/ AttemptOlder(s) \/ FetchOlder(s)
        PROVE  Tables'
    <3>1. PICK row \in Row \cup {None} : rows' = [rows EXCEPT ![s] = row]
      <4>1. CASE DeleteSite(s)
        BY <4>1 DEF DeleteSite
      <4>2. CASE AttemptOlder(s)
        <5>1. /\ rows[s] \in Row
              /\ rows' = [rows EXCEPT ![s] = [rows[s] EXCEPT !.attempted = "old"]]
          BY <1>2, <4>2 DEF AttemptOlder
        <5> QED BY <5>1, RowFacts
      <4>3. CASE FetchOlder(s)
        <5>1. /\ rows[s] \in Row
              /\ rows' = [rows EXCEPT ![s] = [rows[s] EXCEPT !.fetched = "old"]]
          BY <1>2, <4>3 DEF FetchOlder
        <5> QED BY <5>1, RowFacts
      <4> QED BY <2>6, <4>1, <4>2, <4>3
    <3>2. UNCHANGED <<born, held, editing, updates, running>>
      BY <2>6 DEF DeleteSite, AttemptOlder, FetchOlder, requests
    <3> QED BY <1>2, <3>1, <3>2
  <2> QED BY <2>1, <2>2, <2>3, <2>4, <2>5, <2>6 DEF Around, Request
<1>4. UNCHANGED <<inFlight, queue, waiting, worker>>
  BY <1>1 DEF fetches
<1>5. /\ inFlight \subseteq Sites
      /\ queue \in Seq(Task) /\ Len(queue) <= QCap
      /\ waiting \subseteq Task
      /\ worker \in [phase : Phases, task : Task \cup {None}, row : Row \cup {None}]
      /\ WorkerHasTask
  BY DEF TypeInv, TypeOK
<1>6. TypeOK'
  BY <1>3, <1>4, <1>5 DEF TypeOK
<1>7. WorkerHasTask'
  BY <1>4, <1>5 DEF WorkerHasTask
<1> QED BY <1>6, <1>7 DEF TypeInv

(* They therefore leave the in-flight map exact.                           *)
LEMMA AroundExact == InFlightExact /\ UNCHANGED fetches => InFlightExact'
BY DEF fetches, InFlightExact, Queued, InHand

-----------------------------------------------------------------------------
(* Invariance of the types under the actions on the queue.                 *)

Fetching ==
    \/ \E a \in Agents, s \in Sites : ScheduleFetch(a, s)
    \/ Sender
    \/ Work
    \/ Exit

LEMMA FetchingType == TypeInv /\ Fetching => TypeInv'
<1> SUFFICES ASSUME TypeInv, Fetching PROVE TypeInv'
  OBVIOUS
<1> USE ParameterAssumption
<1>1. ASSUME NEW a \in Agents, NEW s \in Sites, ScheduleFetch(a, s) PROVE TypeInv'
  <2> DEFINE task == [site |-> s, force |-> a # Scanner /\ ShouldForceFetch(held[a][s])]
  <2>1. task \in Task
    BY DEF Task
  <2>2. held' \in [Agents -> [Sites -> Row \cup {None}]]
    BY <1>1 DEF ScheduleFetch, Hold, TypeInv, TypeOK
  <2>3. /\ inFlight' \subseteq Sites
        /\ \/ UNCHANGED <<queue, waiting>>
           \/ Enqueue(task)
    BY <1>1 DEF ScheduleFetch, TypeInv, TypeOK
  <2>4. /\ queue' \in Seq(Task) /\ Len(queue') <= QCap
        /\ waiting' \subseteq Task
    <3> HIDE DEF task
    <3>1. queue \in Seq(Task) /\ Len(queue) <= QCap /\ waiting \subseteq Task
      BY DEF TypeInv, TypeOK
    <3> QED BY <2>1, <2>3, <3>1, AppendFacts DEF Enqueue
  <2>5. UNCHANGED <<rows, born, editing, updates, worker, running>>
    BY <1>1 DEF ScheduleFetch
  <2> QED BY <2>2, <2>3, <2>4, <2>5 DEF TypeInv, TypeOK, WorkerHasTask
<1>2. ASSUME NEW t \in waiting, EnqueueTask(t) \/ EnqueueTimeout(t) PROVE TypeInv'
  <2>1. queue \in Seq(Task) /\ t \in Task /\ waiting \subseteq Task /\ inFlight \subseteq Sites
    BY DEF TypeInv, TypeOK
  <2>2. /\ queue' \in Seq(Task) /\ Len(queue') <= QCap
        /\ waiting' \subseteq Task /\ inFlight' \subseteq Sites
    <3>0. Len(queue) <= QCap
      BY DEF TypeInv, TypeOK
    <3>1. CASE EnqueueTask(t)
      BY <2>1, <3>0, <3>1, AppendFacts DEF EnqueueTask
    <3>2. CASE EnqueueTimeout(t)
      BY <2>1, <3>0, <3>2 DEF EnqueueTimeout
    <3> QED BY <1>2, <3>1, <3>2
  <2>3. UNCHANGED <<rows, born, held, editing, updates, worker, running>>
    BY <1>2 DEF EnqueueTask, EnqueueTimeout, requests
  <2> QED BY <2>2, <2>3 DEF TypeInv, TypeOK, WorkerHasTask
<1>3. CASE TakeTask
  <2>1. queue \in Seq(Task) /\ queue # <<>> /\ Len(queue) <= QCap
    BY <1>3 DEF TakeTask, TypeInv, TypeOK
  <2>2. Head(queue) \in Task /\ queue' \in Seq(Task) /\ Len(queue') <= QCap
    BY <1>3, <2>1, TailFacts DEF TakeTask
  <2>3. worker' = [phase |-> "load", task |-> Head(queue), row |-> None]
    BY <1>3 DEF TakeTask
  <2>4. worker' \in [phase : Phases, task : Task \cup {None}, row : Row \cup {None}]
        /\ WorkerHasTask'
    BY <2>2, <2>3 DEF Phases, WorkerHasTask
  <2>5. UNCHANGED <<rows, born, held, editing, updates, inFlight, waiting, running>>
    BY <1>3 DEF TakeTask, requests
  <2> QED BY <2>2, <2>4, <2>5 DEF TypeInv, TypeOK
<1>4. CASE LoadSite \/ Finish \/ Exit
  <2>0. /\ worker \in [phase : Phases, task : Task \cup {None}, row : Row \cup {None}]
        /\ rows \in [Sites -> Row \cup {None}] /\ WorkerHasTask
    BY DEF TypeInv, TypeOK
  <2>1. worker' \in [phase : Phases, task : Task \cup {None}, row : Row \cup {None}]
        /\ WorkerHasTask'
    <3>1. CASE LoadSite
      <4>1. worker.task \in Task /\ worker.task.site \in Sites
        BY <2>0, <3>1 DEF LoadSite, WorkerHasTask, Busy, Task
      <4>2. rows[worker.task.site] \in Row \cup {None}
        BY <2>0, <4>1
      <4>3. PICK phase \in {"collect", "done"} :
                /\ phase = "collect" => rows[worker.task.site] # None
                /\ worker' = [worker EXCEPT !.phase = phase,
                                 !.row = IF phase = "collect" THEN rows[worker.task.site] ELSE None]
        BY <3>1 DEF LoadSite
      <4> QED BY <2>0, <4>1, <4>2, <4>3 DEF Phases, WorkerHasTask
    <3>2. CASE Finish
      BY <3>2 DEF Finish, IdleWorker, Phases, WorkerHasTask, Busy
    <3>3. CASE Exit
      BY <2>0, <3>3 DEF Exit, Phases, WorkerHasTask, Busy
    <3> QED BY <1>4, <3>1, <3>2, <3>3
  <2>2. inFlight' \subseteq inFlight
    BY <1>4 DEF LoadSite, Finish, Exit, Cleared
  <2>3. UNCHANGED <<rows, born, held, editing, updates, queue, waiting, running>>
    BY <1>4 DEF LoadSite, Finish, Exit, requests
  <2> QED BY <2>1, <2>2, <2>3 DEF TypeInv, TypeOK
<1>5. CASE Persist
  <2>0. /\ worker \in [phase : Phases, task : Task \cup {None}, row : Row \cup {None}]
        /\ rows \in [Sites -> Row \cup {None}]
        /\ worker.task \in Task /\ worker.task.site \in Sites /\ worker.row \in Row
    BY <1>5 DEF Persist, TypeInv, TypeOK, WorkerHasTask, Busy, Task
  <2>1. PICK result \in Results[worker.row.origin] :
            rows' = IF rows[worker.task.site] = None THEN rows
                    ELSE [rows EXCEPT ![worker.task.site] =
                             Collected(@, worker.row, result)]
    BY <1>5 DEF Persist
  <2>2. result \in {"asset", "nothing", "error", "dbError"}
    BY <2>0, <2>1 DEF Row
  <2>3. rows' \in [Sites -> Row \cup {None}]
    <3>1. CASE rows[worker.task.site] = None
      BY <2>0, <2>1, <3>1
    <3>2. CASE rows[worker.task.site] # None
      <4>1. Collected(rows[worker.task.site], worker.row, result) \in Row
        BY <2>0, <2>2, <3>2, RowFacts
      <4> QED BY <2>0, <2>1, <3>2, <4>1
    <3> QED BY <3>1, <3>2
  <2>4. worker' \in [phase : Phases, task : Task \cup {None}, row : Row \cup {None}]
        /\ WorkerHasTask'
    BY <1>5, <2>0 DEF Persist, Phases, WorkerHasTask
  <2>5. UNCHANGED <<born, held, editing, updates, inFlight, queue, waiting, running>>
    BY <1>5 DEF Persist, requests
  <2> QED BY <2>3, <2>4, <2>5 DEF TypeInv, TypeOK
<1> QED BY <1>1, <1>2, <1>3, <1>4, <1>5 DEF Fetching, Sender, Work

-----------------------------------------------------------------------------
(* The in-flight map stays exact.                                          *)

(* A task that is given to the queue or to a goroutine when the site has   *)
(* none.                                                                   *)
LEMMA EnqueueExact ==
    ASSUME TypeInv, InFlightExact, NEW s \in Sites, NEW task \in Task,
           task.site = s, s \notin inFlight, inFlight' = inFlight \cup {s},
           Enqueue(task), worker' = worker
    PROVE  InFlightExact'
<1>0. queue \in Seq(Task) /\ waiting \subseteq Task /\ InHand' = InHand
  BY DEF TypeInv, TypeOK, InHand
<1>1. \A t \in Queued \cup waiting \cup InHand : t.site # s
  BY DEF InFlightExact
<1>2. CASE queue' = Append(queue, task) /\ waiting' = waiting
  <2>1. Queued' = Queued \cup {task}
    BY <1>0, <1>2, AppendFacts DEF Queued
  <2>2. \A i, k \in DOMAIN queue' : queue'[i].site = queue'[k].site => i = k
    <3>1. \A i \in DOMAIN queue : queue[i].site # s
      BY <1>1 DEF Queued
    <3> QED BY <1>0, <1>2, <3>1, AppendFacts DEF InFlightExact
  <2> QED BY <1>0, <1>1, <1>2, <2>1, <2>2 DEF InFlightExact
<1>3. CASE waiting' = waiting \cup {task} /\ queue' = queue
  <2>1. Queued' = Queued
    BY <1>3 DEF Queued
  <2> QED BY <1>0, <1>1, <1>3, <2>1 DEF InFlightExact
<1> QED BY <1>2, <1>3 DEF Enqueue

LEMMA FetchingExact == TypeInv /\ InFlightExact /\ Fetching => InFlightExact'
<1> SUFFICES ASSUME TypeInv, InFlightExact, Fetching PROVE InFlightExact'
  OBVIOUS
<1>0. queue \in Seq(Task) /\ waiting \subseteq Task
  BY DEF TypeInv, TypeOK
<1>1. ASSUME NEW a \in Agents, NEW s \in Sites, ScheduleFetch(a, s)
      PROVE  InFlightExact'
  <2> DEFINE task == [site |-> s, force |-> a # Scanner /\ ShouldForceFetch(held[a][s])]
  <2>1. worker' = worker
    BY <1>1 DEF ScheduleFetch
  <2>2. CASE UNCHANGED <<inFlight, queue, waiting>>
    BY <2>1, <2>2, AroundExact DEF fetches
  <2>3. CASE s \notin inFlight /\ inFlight' = inFlight \cup {s} /\ Enqueue(task)
    <3>1. task \in Task /\ task.site = s
      BY DEF Task
    <3> HIDE DEF task
    <3> QED BY <2>1, <2>3, <3>1, EnqueueExact
  <2> QED BY <1>1, <2>2, <2>3 DEF ScheduleFetch
<1>2. ASSUME NEW t \in waiting, EnqueueTask(t) PROVE InFlightExact'
  <2>1. InHand' = InHand /\ t \in Task
    BY <1>0, <1>2 DEF EnqueueTask, InHand
  <2>2. Queued' = Queued \cup {t}
    BY <1>0, <1>2, <2>1, AppendFacts DEF EnqueueTask, Queued
  <2>3. \A i, k \in DOMAIN queue' : queue'[i].site = queue'[k].site => i = k
    <3>1. \A i \in DOMAIN queue : queue[i].site # t.site
      BY DEF Queued, InFlightExact
    <3> QED BY <1>0, <1>2, <2>1, <3>1, AppendFacts DEF EnqueueTask, InFlightExact
  <2>4. inFlight' = inFlight /\ waiting' = waiting \ {t}
    BY <1>2 DEF EnqueueTask
  <2>5. inFlight' = {u.site : u \in (Queued \cup waiting \cup InHand)'}
    BY <2>1, <2>2, <2>4 DEF InFlightExact
  <2> QED BY <2>1, <2>2, <2>3, <2>4, <2>5 DEF InFlightExact
<1>3. ASSUME NEW t \in waiting, EnqueueTimeout(t) PROVE InFlightExact'
  <2>1. /\ InHand' = InHand /\ Queued' = Queued /\ queue' = queue
        /\ waiting' = waiting \ {t} /\ inFlight' = inFlight \ {t.site}
    BY <1>3 DEF EnqueueTimeout, InHand, Queued
  <2>2. \A u \in Queued \cup (waiting \ {t}) \cup InHand : u.site # t.site
    BY DEF InFlightExact
  <2> QED BY <2>1, <2>2 DEF InFlightExact
<1>4. CASE TakeTask
  <2>1. /\ queue # <<>> /\ queue' = Tail(queue)
        /\ waiting' = waiting /\ inFlight' = inFlight
        /\ InHand = {} /\ InHand' = {Head(queue)}
    BY <1>4 DEF TakeTask, InHand, Busy
  <2>2. Queued = Queued' \cup {Head(queue)} /\ Head(queue) \in Queued
    <3>1. Queued' = {Tail(queue)[i] : i \in DOMAIN Tail(queue)}
      BY <2>1 DEF Queued
    <3>2. Head(queue) \in Queued
      BY <1>0, <2>1, TailFacts DEF Queued
    <3>3. Queued' \subseteq Queued
      BY <1>0, <2>1, <3>1, TailFacts DEF Queued
    <3>4. ASSUME NEW t \in Queued PROVE t \in Queued' \cup {Head(queue)}
      <4>1. PICK i \in DOMAIN queue : t = queue[i]
        BY DEF Queued
      <4> QED BY <1>0, <2>1, <3>1, <4>1, TailFacts
    <3> QED BY <3>2, <3>3, <3>4
  <2>3. \A u \in Queued' : u.site # Head(queue).site
    BY <1>0, <2>1, TailFacts DEF Queued, InFlightExact
  <2>4. \A i, k \in DOMAIN queue' : queue'[i].site = queue'[k].site => i = k
    <3> SUFFICES ASSUME NEW i \in DOMAIN Tail(queue), NEW k \in DOMAIN Tail(queue),
                        Tail(queue)[i].site = Tail(queue)[k].site
                 PROVE  i = k
      BY <2>1
    <3>1. i + 1 = k + 1
      BY <1>0, <2>1, TailFacts DEF InFlightExact
    <3>2. i \in Nat /\ k \in Nat
      BY <1>0, <2>1
    <3> QED BY <3>1, <3>2
  <2> QED BY <2>1, <2>2, <2>3, <2>4 DEF InFlightExact
<1>5. CASE LoadSite \/ Persist
  <2>1. UNCHANGED <<inFlight, queue, waiting>>
    BY <1>5 DEF LoadSite, Persist
  <2>2. /\ worker.phase \in Busy /\ worker'.phase \in Busy
        /\ worker'.task = worker.task
    <3>1. CASE LoadSite
      <4>1. \E phase \in {"collect", "done"} : \E row :
                worker' = [worker EXCEPT !.phase = phase, !.row = row]
        <5> DEFINE row == rows[worker.task.site]
                   due == row # None /\ (worker.task.force \/ ShouldFetch(row))
                   next == (IF due THEN {"collect"} ELSE {"done"})
                             \cup (IF StatementsFail THEN {"done"} ELSE {})
        <5>1. next \subseteq {"collect", "done"}
          OBVIOUS
        <5>2. PICK phase \in next :
                 worker' = [worker EXCEPT !.phase = phase,
                                          !.row = IF phase = "collect" THEN row ELSE None]
          BY <3>1 DEF LoadSite
        <5> HIDE DEF row, next
        <5> QED BY <5>1, <5>2
      <4> QED BY <3>1, <4>1 DEF LoadSite, Busy, TypeInv, TypeOK
    <3>2. CASE Persist
      BY <3>2 DEF Persist, Busy, TypeInv, TypeOK
    <3> QED BY <1>5, <3>1, <3>2
  <2>3. Queued' = Queued /\ InHand' = InHand
    BY <2>1, <2>2 DEF Queued, InHand
  <2> QED BY <2>1, <2>3 DEF InFlightExact
<1>6. CASE Finish
  <2>1. /\ inFlight' = inFlight \ {worker.task.site}
        /\ queue' = queue /\ waiting' = waiting
        /\ InHand = {worker.task} /\ InHand' = {}
    BY <1>6 DEF Finish, Cleared, IdleWorker, InHand, Busy
  <2>2. Queued' = Queued
    BY <2>1 DEF Queued
  <2>3. \A u \in Queued \cup waiting : u.site # worker.task.site
    BY <2>1 DEF InFlightExact
  <2> QED BY <2>1, <2>2, <2>3 DEF InFlightExact
<1>7. CASE Exit
  BY <1>7 DEF Exit, InFlightExact, Queued, InHand, Busy, TypeInv, TypeOK
<1> QED BY <1>1, <1>2, <1>3, <1>4, <1>5, <1>6, <1>7 DEF Fetching, Sender, Work

-----------------------------------------------------------------------------
(* Every step preserves the invariant.                                     *)
LEMMA StepInv == IInv /\ [Next]_vars => IInv'
<1> SUFFICES ASSUME IInv, [Next]_vars PROVE IInv'
  OBVIOUS
<1>1. CASE Around
  BY <1>1, AroundType, AroundFrame, AroundExact DEF IInv
<1>2. CASE Fetching
  BY <1>2, FetchingType, FetchingExact DEF IInv
<1>3. CASE UNCHANGED vars
  <2>1. TypeInv'
    BY <1>3 DEF IInv, TypeInv, TypeOK, WorkerHasTask, vars
  <2>2. InFlightExact'
    BY <1>3, AroundExact DEF IInv, vars, fetches
  <2> QED BY <2>1, <2>2 DEF IInv
<1> QED BY <1>1, <1>2, <1>3 DEF Next, Around, Fetching

LEMMA Invariance == Spec => []IInv
BY InitInv, StepInv, PTL DEF Spec

(* Rows, copies, tasks and the worker's state stay complete, and the queue *)
(* within its capacity, for any number of sites, origins and clients.      *)
THEOREM TypeCorrect == Spec => []TypeOK
<1>1. IInv => TypeOK
  BY DEF IInv, TypeInv
<1> QED BY Invariance, <1>1, PTL

(* A site is marked in flight if and only if it has exactly one task,      *)
(* whichever of LoadOrStore, enqueueTask, its timeout and processFetch     *)
(* come first, for any number of sites and any capacity of the queue.      *)
THEOREM MapExact == Spec => []InFlightExact
<1>1. IInv => InFlightExact
  BY DEF IInv
<1> QED BY Invariance, <1>1, PTL

=============================================================================
