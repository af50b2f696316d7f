--------------------------- MODULE FeedbackDelivery ---------------------------
(***************************************************************************)
(* CreateFeedback of the public API and SubmitWidgetTestFeedback of the    *)
(* dashboard: the message is stored, the owner notified through Pinguin,   *)
(* the way of delivery written to the row, and the message announced to    *)
(* the dashboards.  The public handlers are limited to a number of         *)
(* requests per address and window of time; the counters live in memory.   *)
(* One action is one SQL statement, one call or one critical section;      *)
(* pc[h] names the next one of request h, and is "free" once the request   *)
(* is answered, whatever the answer.                                       *)
(***************************************************************************)
EXTENDS Naturals, FiniteSets

CONSTANTS
    Handlers,      \* request goroutines
    Sites,
    Ids,           \* identifiers of messages
    Addresses,     \* client addresses
    Limit,         \* requests of one address that pass in one window
    MaxRequests,   \* bound on the requests of one address in one window
    MaxWindow,     \* bound on the clock, counted in windows
    Deliveries,    \* ways in which owners can be reached: "mailed", "texted"
    Faults,        \* what may fail: "sql", "call", "process"
    None

Windows == 0 .. MaxWindow

(* `from` is the address and the window a message was admitted for; it is  *)
(* None for one from the dashboard, which nothing limits.                  *)
Row == [site : Sites, delivery : Deliveries \cup {"no"},
        from : (Addresses \X Windows) \cup {None}]

Busy == {"limit", "find", "insert", "notify", "mark", "announce"}

Job == [site : Sites, from : (Addresses \X Windows) \cup {None},
        id : Ids \cup {None}, delivery : Deliveries \cup {"no"}]

ASSUME ParameterAssumption ==
    /\ Limit \in Nat /\ MaxRequests \in Nat /\ MaxWindow \in Nat
    /\ IsFiniteSet(Ids)
    /\ Deliveries \subseteq {"mailed", "texted"}
    /\ Faults \subseteq {"sql", "call", "process"}
ASSUME NoneAssumption == None \notin Row \cup Job \cup Ids \cup (Addresses \X Windows)

VARIABLES
    sites,      \* the sites that exist
    feedback,   \* table `feedbacks`
    issued,     \* identifiers drawn so far
    recent,     \* those drawn since the server started
    sent,       \* messages an owner has been notified of
    counters,   \* rateCountersByIP
    clock,      \* the current window
    announced,  \* messages broadcast since the server started
    pc, job

vars == <<sites, feedback, issued, recent, sent, counters, clock, announced, pc, job>>

table == <<feedback, issued, recent>>

Init ==
    /\ sites = Sites
    /\ feedback = [i \in Ids |-> None]
    /\ issued = {} /\ recent = {}
    /\ sent = {}
    /\ counters = [k \in Addresses \X Windows |-> 0]
    /\ clock = 0
    /\ announced = {}
    /\ pc = [h \in Handlers |-> "free"]
    /\ job = [h \in Handlers |-> None]

Goto(h, p) == pc' = [pc EXCEPT ![h] = p]
Reply(h) == Goto(h, "free") /\ job' = [job EXCEPT ![h] = None]

RowsOf(s) == {i \in Ids : feedback[i] # None /\ feedback[i].site = s}

(* The order of the statements once the message is stored.                 *)
AnnouncesFirst(p) ==  \* faulty variant
    CASE p = "insert" -> "announce"
      [] p = "announce" -> "notify"
      [] p = "notify" -> "mark"
      [] p = "mark" -> "free"
EndsWithMark(p) ==  \* faulty variant
    CASE p = "insert" -> "notify"
      [] p = "notify" -> "mark"
      [] p \in {"mark", "announce"} -> "free"
After(p) ==
    CASE p = "insert" -> "notify"
      [] p = "notify" -> "mark"
      [] p = "mark" -> "announce"
      [] p = "announce" -> "free"

(* On to the statement after p with job j, or to the reply.                *)
Advance(h, p, j) ==
    /\ Goto(h, After(p))
    /\ job' = [job EXCEPT ![h] = IF After(p) = "free" THEN None ELSE j]

-----------------------------------------------------------------------------
NewJob(s, from) == [site |-> s, from |-> from, id |-> None, delivery |-> "no"]

(* A public request reads the clock before it takes the mutex.             *)
ArrivePublic(h) ==
    /\ pc[h] = "free"
    /\ \E a \in Addresses, s \in Sites :
          /\ counters[<<a, clock>>] < MaxRequests
          /\ job' = [job EXCEPT ![h] = NewJob(s, <<a, clock>>)]
    /\ Goto(h, "limit")
    /\ UNCHANGED <<sites, table, sent, counters, clock, announced>>

ArriveWidgetTest(h) ==
    /\ pc[h] = "free"
    /\ \E s \in Sites : job' = [job EXCEPT ![h] = NewJob(s, None)]
    /\ Goto(h, "find")
    /\ UNCHANGED <<sites, table, sent, counters, clock, announced>>

(* isRateLimited: every request counts, also a refused one, and those of   *)
(* the subscription handlers, which end here as far as this module goes.   *)
OneMore(n) == n > Limit + 1  \* faulty variant
TooMany(n) == n > Limit

IsRateLimited(h) ==
    LET key == job[h].from
        n   == counters[key] + 1
    IN  /\ pc[h] = "limit"
        /\ counters' = [counters EXCEPT ![key] = n]
        /\ \/ TooMany(n) /\ Reply(h)
           \/ ~TooMany(n) /\ Goto(h, "find") /\ UNCHANGED job
           \/ ~TooMany(n) /\ Reply(h)
        /\ UNCHANGED <<sites, table, sent, clock, announced>>

(* First, and the origin or the user; a failing query looks like a missing *)
(* row.                                                                    *)
FindSite(h) ==
    /\ pc[h] = "find"
    /\ \/ (job[h].site \notin sites \/ "sql" \in Faults) /\ Reply(h)
       \/ job[h].site \in sites /\ Reply(h)
       \/ job[h].site \in sites /\ Goto(h, "insert") /\ UNCHANGED job
    /\ UNCHANGED <<sites, table, sent, counters, clock, announced>>

Unlabelled(j) == [site |-> j.site, delivery |-> "", from |-> j.from]  \* faulty variant
NewFeedback(j) == [site |-> j.site, delivery |-> "no", from |-> j.from]

Insert(h) ==
    /\ pc[h] = "insert"
    /\ \/ "sql" \in Faults /\ Reply(h) /\ UNCHANGED table
       \/ \E i \in Ids \ issued :
             /\ feedback' = [feedback EXCEPT ![i] = NewFeedback(job[h])]
             /\ issued' = issued \cup {i} /\ recent' = recent \cup {i}
             /\ Advance(h, "insert", [job[h] EXCEPT !.id = i])
    /\ UNCHANGED <<sites, sent, counters, clock, announced>>

(* NotifyFeedback and the choice of the delivery to write.  A call may be  *)
(* reported as failed although the notification was sent; an owner without *)
(* a usable address is an error as well.                                   *)
TrustsIntention(outcome, d) == d  \* faulty variant
Intended(outcome, d) == IF outcome = "sent" THEN d ELSE "no"

Outcomes == {"sent"} \cup (IF "call" \in Faults THEN {"failed", "unknown"} ELSE {})

Notify(h) ==
    /\ pc[h] = "notify"
    /\ \E outcome \in Outcomes, d \in Deliveries :
          /\ sent' = IF outcome = "failed" THEN sent ELSE sent \cup {job[h].id}
          /\ \/ /\ Intended(outcome, d) # "no"
                /\ Advance(h, "notify", [job[h] EXCEPT !.delivery = Intended(outcome, d)])
             \/ /\ Intended(outcome, d) = "no"
                /\ Advance(h, "mark", job[h])
    /\ UNCHANGED <<sites, table, counters, clock, announced>>

(* The UPDATE; it may fail, and matches no row that was deleted meanwhile. *)
Mark(h) ==
    LET i == job[h].id
    IN  /\ pc[h] = "mark"
        /\ \/ /\ feedback[i] # None
              /\ feedback' = [feedback EXCEPT ![i].delivery = job[h].delivery]
           \/ /\ feedback[i] = None \/ "sql" \in Faults
              /\ UNCHANGED feedback
        /\ Advance(h, "mark", job[h])
        /\ UNCHANGED <<sites, issued, recent, sent, counters, clock, announced>>

(* broadcastFeedbackEvent; a failing count of the messages does not stop   *)
(* it.                                                                     *)
Announce(h) ==
    /\ pc[h] = "announce"
    /\ announced' = announced \cup {job[h].id}
    /\ Advance(h, "announce", job[h])
    /\ UNCHANGED <<sites, table, sent, counters, clock>>

(* DeleteSite takes the feedback of the site along.                        *)
DeleteSite(s) ==
    /\ s \in sites
    /\ sites' = sites \ {s}
    /\ feedback' = [i \in Ids |-> IF i \in RowsOf(s) THEN None ELSE feedback[i]]
    /\ UNCHANGED <<issued, recent, sent, counters, clock, announced, pc, job>>

(* The process ends and starts again with empty counters.                  *)
Crash ==
    /\ "process" \in Faults
    /\ recent' = {} /\ announced' = {}
    /\ counters' = [k \in Addresses \X Windows |-> 0]
    /\ pc' = [h \in Handlers |-> "free"]
    /\ job' = [h \in Handlers |-> None]
    /\ UNCHANGED <<sites, feedback, issued, sent, clock>>

Tick ==
    /\ clock < MaxWindow
    /\ clock' = clock + 1
    /\ UNCHANGED <<sites, table, sent, counters, announced, pc, job>>

Work(h) ==
    \/ IsRateLimited(h) \/ FindSite(h) \/ Insert(h) \/ Notify(h)
    \/ Mark(h) \/ Announce(h)

Next ==
    \/ \E h \in Handlers : ArrivePublic(h) \/ ArriveWidgetTest(h) \/ Work(h)
    \/ \E s \in Sites : DeleteSite(s)
    \/ Crash
    \/ Tick

Spec == Init /\ [][Next]_vars

(* A request goroutine that has a statement to run or a call to make does  *)
(* so; statements end and calls have a time-out.                           *)
FairSpec == Spec /\ \A h \in Handlers : WF_vars(Work(h))

-----------------------------------------------------------------------------
(* Rows, requests and counters are complete and in their domains.          *)
TypeOK ==
    /\ sites \subseteq Sites
    /\ feedback \in [Ids -> Row \cup {None}]
    /\ issued \subseteq Ids /\ recent \subseteq issued
    /\ sent \subseteq Ids /\ announced \subseteq Ids
    /\ counters \in [Addresses \X Windows -> Nat]
    /\ clock \in Windows
    /\ pc \in [Handlers -> Busy \cup {"free"}]
    /\ job \in [Handlers -> Job \cup {None}]

(* One run of the server stores at most Limit messages that one address    *)
(* sent to the public API in one window, however its requests overlap with *)
(* each other and with the end of the window.                              *)
WindowBound ==
    \A k \in Addresses \X Windows :
        Cardinality({i \in recent : feedback[i] # None /\ feedback[i].from = k}) <= Limit

(* A message marked as mailed or texted has been sent to the owner,        *)
(* whatever fails in between.  The converse does not hold.                 *)
DeliveryTruthful ==
    \A i \in Ids : feedback[i] # None /\ feedback[i].delivery # "no" => i \in sent

(* When a message is announced its row is final: a dashboard that loads    *)
(* the messages on the event sees how it was delivered.                    *)
AnnouncedIsFinal ==
    [][\A i \in announced : feedback'[i] \in {feedback[i], None}]_vars

(* Every stored message is announced, also when notifying the owner or     *)
(* marking the row fails, unless its site is deleted or the process ends.  *)
EveryMessageAnnounced ==
    \A i \in Ids : feedback[i] # None ~> (i \in announced \/ feedback[i] = None \/ i \notin recent)

=============================================================================
