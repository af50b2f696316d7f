------------------------ MODULE FeedbackDeliveryProofs ------------------------
(***************************************************************************)
(* Proofs about the delivery of feedback, for any number of requests,      *)
(* sites, messages and addresses and any faults: types, the truth of the   *)
(* delivery mark, the finality of an announced row, and the limit.         *)
(***************************************************************************)
EXTENDS FeedbackDelivery, FiniteSetTheorems, TLAPS

Stored == {"notify", "mark", "announce"}

(* What a request knows at each statement: its parameters; once the        *)
(* message is stored, that it is not announced yet; before the UPDATE,     *)
(* that the owner has been notified.                                       *)
Knows(h) ==
    LET j == job[h]
    IN  /\ pc[h] # "free" => j \in Job
        /\ pc[h] = "limit" => j.from \in Addresses \X Windows
        /\ pc[h] \in Stored => j.id \in issued
        /\ pc[h] \in {"notify", "mark"} => j.id \notin announced
        /\ pc[h] = "mark" => j.delivery \in Deliveries /\ j.id \in sent

(* No two requests work on one message.                                    *)
Apart(g, h) == g # h /\ pc[g] \in Stored /\ pc[h] \in Stored => job[g].id # job[h].id

IInv ==
    /\ TypeOK
    /\ DeliveryTruthful
    /\ announced \subseteq issued
    /\ \A h \in Handlers : Knows(h)
    /\ \A g, h \in Handlers : Apart(g, h)

-----------------------------------------------------------------------------
LEMMA AfterFacts ==
    /\ After("insert") = "notify" /\ After("notify") = "mark"
    /\ After("mark") = "announce" /\ After("announce") = "free"
BY DEF After

LEMMA NoneFacts == None \notin Row /\ None \notin Job /\ None \notin Ids
BY NoneAssumption

LEMMA DeliveryFacts == "no" \notin Deliveries
BY ParameterAssumption

(* One request changes its place and its job, no other does.               *)
LEMMA Moved ==
    ASSUME TypeOK, NEW h \in Handlers, NEW p \in Busy \cup {"free"},
           NEW j \in Job \cup {None}, Goto(h, p), job' = [job EXCEPT ![h] = j]
    PROVE  /\ pc' \in [Handlers -> Busy \cup {"free"}]
           /\ job' \in [Handlers -> Job \cup {None}]
           /\ pc'[h] = p /\ job'[h] = j
           /\ \A g \in Handlers \ {h} : pc'[g] = pc[g] /\ job'[g] = job[g]
BY DEF Goto, TypeOK

(* What the other requests know survives when the sets only grow and the   *)
(* message newly announced is not theirs; nobody takes the message of      *)
(* another.                                                                *)
LEMMA OthersKeep ==
    ASSUME IInv, NEW h \in Handlers,
           \A g \in Handlers \ {h} : pc'[g] = pc[g] /\ job'[g] = job[g],
           issued \subseteq issued', sent \subseteq sent',
           \A g \in Handlers \ {h} :
               pc[g] \in Stored /\ job[g].id \in announced' => job[g].id \in announced,
           Knows(h)',
           \A g \in Handlers \ {h} : Apart(g, h)'
    PROVE  /\ \A g \in Handlers : Knows(g)'
           /\ \A f, g \in Handlers : Apart(f, g)'
<1>1. ASSUME NEW g \in Handlers \ {h} PROVE Knows(g)'
  <2>1. Knows(g) /\ pc'[g] = pc[g] /\ job'[g] = job[g]
    BY DEF IInv
  <2> QED BY <2>1 DEF Knows, Stored
<1>2. ASSUME NEW f \in Handlers, NEW g \in Handlers PROVE Apart(f, g)'
  <2>1. CASE f = g
    BY <2>1 DEF Apart
  <2>2. CASE f # g /\ f # h /\ g # h
    BY <2>2 DEF Apart, IInv
  <2>3. CASE f # g /\ g = h
    BY <2>3
  <2>4. CASE f # g /\ f = h
    BY <2>4 DEF Apart
  <2> QED BY <2>1, <2>2, <2>3, <2>4
<1> QED BY <1>1, <1>2

-----------------------------------------------------------------------------
LEMMA InitInv == Init => IInv
<1> SUFFICES ASSUME Init PROVE IInv
  OBVIOUS
<1>1. TypeOK
  BY ParameterAssumption DEF Init, TypeOK, Busy, Windows
<1>2. DeliveryTruthful /\ announced \subseteq issued
  BY DEF Init, DeliveryTruthful
<1>3. \A h \in Handlers : Knows(h)
  BY DEF Init, Knows, Stored
<1>4. \A g, h \in Handlers : Apart(g, h)
  BY DEF Init, Apart, Stored
<1> QED BY <1>1, <1>2, <1>3, <1>4 DEF IInv

LEMMA ArriveInv ==
    ASSUME IInv, NEW h \in Handlers, ArrivePublic(h) \/ ArriveWidgetTest(h)
    PROVE  IInv'
<1>1. UNCHANGED <<sites, table, sent, counters, clock, announced>>
  BY DEF ArrivePublic, ArriveWidgetTest
<1>2. PICK p \in {"limit", "find"}, s \in Sites, from \in (Addresses \X Windows) \cup {None} :
         /\ job' = [job EXCEPT ![h] = NewJob(s, from)]
         /\ Goto(h, p)
         /\ p = "limit" => from \in Addresses \X Windows
  <2>1. clock \in Windows
    BY DEF IInv, TypeOK
  <2>2. CASE ArrivePublic(h)
    <3>1. PICK a \in Addresses, s \in Sites : job' = [job EXCEPT ![h] = NewJob(s, <<a, clock>>)]
      BY <2>2 DEF ArrivePublic
    <3>2. <<a, clock>> \in Addresses \X Windows /\ Goto(h, "limit")
      BY <2>1, <2>2 DEF ArrivePublic
    <3> QED BY <3>1, <3>2
  <2>3. CASE ArriveWidgetTest(h)
    BY <2>3 DEF ArriveWidgetTest
  <2> QED BY <2>2, <2>3
<1>3. NewJob(s, from) \in Job /\ NewJob(s, from).from = from
  BY DEF NewJob, Job
<1>4. /\ pc' \in [Handlers -> Busy \cup {"free"}] /\ job' \in [Handlers -> Job \cup {None}]
      /\ pc'[h] = p /\ job'[h] = NewJob(s, from)
      /\ \A g \in Handlers \ {h} : pc'[g] = pc[g] /\ job'[g] = job[g]
  BY <1>2, <1>3, Moved DEF Busy, IInv
<1>5. Knows(h)'
  BY <1>2, <1>3, <1>4 DEF Knows, Stored
<1>6. \A g \in Handlers \ {h} : Apart(g, h)'
  BY <1>4 DEF Apart, Stored
<1>7. TypeOK' /\ DeliveryTruthful' /\ announced' \subseteq issued'
  BY <1>1, <1>4 DEF IInv, TypeOK, DeliveryTruthful, table
<1> QED BY <1>1, <1>4, <1>5, <1>6, <1>7, OthersKeep DEF IInv, table

(* A request that is answered.                                             *)
LEMMA ReplyFacts ==
    ASSUME IInv, NEW h \in Handlers, Reply(h), UNCHANGED <<issued, sent, announced>>
    PROVE  /\ pc' \in [Handlers -> Busy \cup {"free"}]
           /\ job' \in [Handlers -> Job \cup {None}]
           /\ \A g \in Handlers : Knows(g)'
           /\ \A f, g \in Handlers : Apart(f, g)'
<1>1. /\ pc' \in [Handlers -> Busy \cup {"free"}] /\ job' \in [Handlers -> Job \cup {None}]
      /\ pc'[h] = "free"
      /\ \A g \in Handlers \ {h} : pc'[g] = pc[g] /\ job'[g] = job[g]
  BY Moved DEF Reply, IInv
<1>2. Knows(h)' /\ \A g \in Handlers \ {h} : Apart(g, h)'
  BY <1>1 DEF Knows, Apart, Stored
<1> QED BY <1>1, <1>2, OthersKeep

LEMMA ReadInv ==
    ASSUME IInv, NEW h \in Handlers, IsRateLimited(h) \/ FindSite(h)
    PROVE  IInv'
<1>1. /\ UNCHANGED <<sites, table, sent, clock, announced>>
      /\ pc[h] \in {"limit", "find"} /\ job[h] \in Job /\ Knows(h)
  BY DEF IInv, IsRateLimited, FindSite, Knows
<1>2. counters' \in [Addresses \X Windows -> Nat]
  <2>1. CASE FindSite(h)
    BY <2>1 DEF FindSite, IInv, TypeOK
  <2>2. CASE IsRateLimited(h)
    <3>1. job[h].from \in Addresses \X Windows
      BY <1>1, <2>2 DEF IsRateLimited, Knows
    <3>2. counters' = [counters EXCEPT ![job[h].from] = counters[job[h].from] + 1]
      BY <2>2 DEF IsRateLimited
    <3> QED BY <3>1, <3>2 DEF IInv, TypeOK
  <2> QED BY <2>1, <2>2
<1>3. DeliveryTruthful' /\ announced' \subseteq issued'
  BY <1>1 DEF IInv, DeliveryTruthful, table
<1>4. CASE Reply(h)
  BY <1>1, <1>2, <1>3, <1>4, ReplyFacts DEF IInv, TypeOK, table
<1>5. CASE \E p \in {"find", "insert"} : Goto(h, p) /\ UNCHANGED job
  <2>1. PICK p \in {"find", "insert"} : Goto(h, p) /\ UNCHANGED job
    BY <1>5
  <2>2. job' = [job EXCEPT ![h] = job[h]]
    BY <2>1 DEF IInv, TypeOK
  <2>3. /\ pc' \in [Handlers -> Busy \cup {"free"}] /\ job' \in [Handlers -> Job \cup {None}]
        /\ pc'[h] = p /\ job'[h] = job[h]
        /\ \A g \in Handlers \ {h} : pc'[g] = pc[g] /\ job'[g] = job[g]
    BY <1>1, <2>1, <2>2, Moved DEF Busy, IInv
  <2>4. Knows(h)' /\ \A g \in Handlers \ {h} : Apart(g, h)'
    BY <1>1, <2>3 DEF Knows, Apart, Stored
  <2> QED BY <1>1, <1>2, <1>3, <2>3, <2>4, OthersKeep DEF IInv, TypeOK, table
<1> QED BY <1>4, <1>5 DEF IsRateLimited, FindSite

LEMMA InsertInv == ASSUME IInv, NEW h \in Handlers, Insert(h) PROVE IInv'
<1>1. /\ UNCHANGED <<sites, sent, counters, clock, announced>>
      /\ pc[h] = "insert" /\ job[h] \in Job /\ TypeOK
  BY DEF IInv, Insert, Knows
<1>2. CASE Reply(h) /\ UNCHANGED table
  <2>1. DeliveryTruthful' /\ announced' \subseteq issued'
    BY <1>1, <1>2 DEF IInv, DeliveryTruthful, table
  <2> QED BY <1>1, <1>2, <2>1, ReplyFacts DEF IInv, TypeOK, table
<1>3. CASE \E i \in Ids \ issued :
              /\ feedback' = [feedback EXCEPT ![i] = NewFeedback(job[h])]
              /\ issued' = issued \cup {i} /\ recent' = recent \cup {i}
              /\ Advance(h, "insert", [job[h] EXCEPT !.id = i])
  <2>1. PICK i \in Ids \ issued :
           /\ feedback' = [feedback EXCEPT ![i] = NewFeedback(job[h])]
           /\ issued' = issued \cup {i} /\ recent' = recent \cup {i}
           /\ Advance(h, "insert", [job[h] EXCEPT !.id = i])
    BY <1>3
  <2> DEFINE j == [job[h] EXCEPT !.id = i]
  <2>2. j \in Job /\ j.id = i
    BY <1>1 DEF Job
  <2>3. NewFeedback(job[h]) \in Row /\ NewFeedback(job[h]).delivery = "no"
    BY <1>1 DEF NewFeedback, Row, Job
  <2>4. Goto(h, "notify") /\ job' = [job EXCEPT ![h] = j]
    BY <2>1, AfterFacts DEF Advance
  <2> HIDE DEF j
  <2>5. /\ pc' \in [Handlers -> Busy \cup {"free"}] /\ job' \in [Handlers -> Job \cup {None}]
        /\ pc'[h] = "notify" /\ job'[h] = j
        /\ \A g \in Handlers \ {h} : pc'[g] = pc[g] /\ job'[g] = job[g]
    BY <1>1, <2>2, <2>4, Moved DEF Busy
  <2>6. TypeOK'
    BY <1>1, <2>1, <2>3, <2>5 DEF TypeOK
  <2>7. DeliveryTruthful' /\ announced' \subseteq issued'
    BY <1>1, <2>1, <2>3 DEF IInv, TypeOK, DeliveryTruthful
  <2>8. Knows(h)'
    BY <1>1, <2>1, <2>2, <2>5 DEF Knows, Stored, IInv
  <2>9. \A g \in Handlers \ {h} : Apart(g, h)'
    BY <2>1, <2>2, <2>5 DEF Apart, Knows, Stored, IInv
  <2> QED BY <1>1, <2>1, <2>5, <2>6, <2>7, <2>8, <2>9, OthersKeep DEF IInv
<1> QED BY <1>2, <1>3 DEF Insert

LEMMA NotifyInv == ASSUME IInv, NEW h \in Handlers, Notify(h) PROVE IInv'
<1>1. /\ UNCHANGED <<sites, table, counters, clock, announced>>
      /\ pc[h] = "notify" /\ job[h] \in Job /\ TypeOK /\ Knows(h)
      /\ job[h].id \in issued /\ job[h].id \in Ids
  BY DEF IInv, Notify, Knows, Stored, TypeOK
<1>2. PICK outcome \in Outcomes, d \in Deliveries :
         /\ sent' = IF outcome = "failed" THEN sent ELSE sent \cup {job[h].id}
         /\ \/ /\ Intended(outcome, d) # "no"
               /\ Advance(h, "notify", [job[h] EXCEPT !.delivery = Intended(outcome, d)])
            \/ /\ Intended(outcome, d) = "no"
               /\ Advance(h, "mark", job[h])
  BY DEF Notify
<1>3. sent \subseteq sent' /\ sent' \subseteq Ids
  BY <1>1, <1>2 DEF TypeOK
<1>4. PICK p \in {"mark", "announce"}, j \in Job :
         /\ Goto(h, p) /\ job' = [job EXCEPT ![h] = j]
         /\ j.id = job[h].id
         /\ p = "mark" => j.delivery \in Deliveries /\ job[h].id \in sent'
  <2>1. CASE Intended(outcome, d) = "no"
    <3>1. Advance(h, "mark", job[h])
      BY <1>2, <2>1
    <3>2. Goto(h, "announce") /\ job' = [job EXCEPT ![h] = job[h]]
      BY <3>1, AfterFacts DEF Advance
    <3> QED BY <1>1, <3>2
  <2>2. CASE Intended(outcome, d) # "no"
    <3>1. outcome = "sent" /\ Intended(outcome, d) = d
      BY <2>2 DEF Intended
    <3>2. Goto(h, "mark") /\ job' = [job EXCEPT ![h] = [job[h] EXCEPT !.delivery = d]]
      BY <1>2, <2>2, <3>1, AfterFacts DEF Advance
    <3>3. /\ [job[h] EXCEPT !.delivery = d] \in Job
          /\ [job[h] EXCEPT !.delivery = d].id = job[h].id
          /\ [job[h] EXCEPT !.delivery = d].delivery = d
      BY <1>1 DEF Job
    <3>4. job[h].id \in sent'
      BY <1>2, <3>1
    <3> QED BY <3>2, <3>3, <3>4
  <2> QED BY <2>1, <2>2
<1>5. /\ pc' \in [Handlers -> Busy \cup {"free"}] /\ job' \in [Handlers -> Job \cup {None}]
      /\ pc'[h] = p /\ job'[h] = j
      /\ \A g \in Handlers \ {h} : pc'[g] = pc[g] /\ job'[g] = job[g]
  BY <1>1, <1>4, Moved DEF Busy
<1>6. TypeOK'
  BY <1>1, <1>3, <1>5 DEF TypeOK, table
<1>7. DeliveryTruthful' /\ announced' \subseteq issued'
  BY <1>1, <1>3 DEF IInv, DeliveryTruthful, table
<1>8. Knows(h)'
  BY <1>1, <1>4, <1>5 DEF Knows, Stored, table
<1>9. \A g \in Handlers \ {h} : Apart(g, h)'
  BY <1>1, <1>4, <1>5 DEF IInv, Apart, Stored
<1> QED BY <1>1, <1>3, <1>5, <1>6, <1>7, <1>8, <1>9, OthersKeep DEF IInv, table

LEMMA MarkInv == ASSUME IInv, NEW h \in Handlers, Mark(h) PROVE IInv'
<1> DEFINE i == job[h].id
<1>1. /\ UNCHANGED <<sites, issued, recent, sent, counters, clock, announced>>
      /\ pc[h] = "mark" /\ job[h] \in Job /\ TypeOK
      /\ i \in issued /\ i \in Ids /\ i \in sent /\ job[h].delivery \in Deliveries
  BY DEF IInv, Mark, Knows, Stored, TypeOK
<1>2. Goto(h, "announce") /\ job' = [job EXCEPT ![h] = job[h]]
  BY AfterFacts DEF Mark, Advance
<1>3. /\ pc' \in [Handlers -> Busy \cup {"free"}] /\ job' \in [Handlers -> Job \cup {None}]
      /\ pc'[h] = "announce" /\ job'[h] = job[h]
      /\ \A g \in Handlers \ {h} : pc'[g] = pc[g] /\ job'[g] = job[g]
  BY <1>1, <1>2, Moved DEF Busy
<1>4. /\ feedback' \in [Ids -> Row \cup {None}]
      /\ \A k \in Ids \ {i} : feedback'[k] = feedback[k]
  <2>1. CASE UNCHANGED feedback
    BY <1>1, <2>1 DEF TypeOK
  <2>2. CASE feedback[i] # None /\ feedback' = [feedback EXCEPT ![i].delivery = job[h].delivery]
    <3>1. feedback[i] \in Row
      BY <1>1, <2>2 DEF TypeOK
    <3>2. [feedback[i] EXCEPT !.delivery = job[h].delivery] \in Row
      BY <1>1, <3>1 DEF Row
    <3> QED BY <1>1, <2>2, <3>2 DEF TypeOK
  <2> QED BY <2>1, <2>2 DEF Mark
<1>5. TypeOK'
  BY <1>1, <1>3, <1>4 DEF TypeOK
<1>6. DeliveryTruthful' /\ announced' \subseteq issued'
  BY <1>1, <1>4 DEF IInv, DeliveryTruthful
<1>7. Knows(h)' /\ \A g \in Handlers \ {h} : Apart(g, h)'
  BY <1>1, <1>3 DEF Knows, Apart, Stored, IInv
<1> QED BY <1>1, <1>3, <1>5, <1>6, <1>7, OthersKeep DEF IInv

LEMMA AnnounceInv == ASSUME IInv, NEW h \in Handlers, Announce(h) PROVE IInv'
<1>1. /\ UNCHANGED <<sites, table, sent, counters, clock>>
      /\ announced' = announced \cup {job[h].id}
      /\ pc[h] = "announce" /\ TypeOK /\ job[h].id \in issued
  BY DEF IInv, Announce, Knows, Stored
<1>2. Goto(h, "free") /\ job' = [job EXCEPT ![h] = None]
  BY AfterFacts DEF Announce, Advance
<1>3. /\ pc' \in [Handlers -> Busy \cup {"free"}] /\ job' \in [Handlers -> Job \cup {None}]
      /\ pc'[h] = "free"
      /\ \A g \in Handlers \ {h} : pc'[g] = pc[g] /\ job'[g] = job[g]
  BY <1>1, <1>2, Moved
<1>4. TypeOK' /\ DeliveryTruthful' /\ announced' \subseteq issued'
  BY <1>1, <1>3 DEF IInv, TypeOK, DeliveryTruthful, table
<1>5. Knows(h)' /\ \A g \in Handlers \ {h} : Apart(g, h)'
  BY <1>3 DEF Knows, Apart, Stored
<1>6. ASSUME NEW g \in Handlers \ {h}, pc[g] \in Stored, job[g].id \in announced'
      PROVE  job[g].id \in announced
  <2>1. job[g].id # job[h].id
    BY <1>1, <1>6 DEF IInv, Apart, Stored
  <2> QED BY <1>1, <1>6, <2>1
<1> QED BY <1>1, <1>3, <1>4, <1>5, <1>6, OthersKeep DEF IInv, table

(* Steps of the surroundings.                                              *)
LEMMA OutsideInv ==
    ASSUME IInv, (\E s \in Sites : DeleteSite(s)) \/ Crash \/ Tick
    PROVE  IInv'
<1>1. CASE \E s \in Sites : DeleteSite(s)
  <2>1. PICK s \in Sites : DeleteSite(s)
    BY <1>1
  <2>2. /\ UNCHANGED <<issued, recent, sent, counters, clock, announced, pc, job>>
        /\ sites' \subseteq sites
        /\ feedback' = [i \in Ids |-> IF i \in RowsOf(s) THEN None ELSE feedback[i]]
    BY <2>1 DEF DeleteSite
  <2>3. TypeOK'
    BY <2>2 DEF IInv, TypeOK
  <2>4. DeliveryTruthful'
    BY <2>2 DEF IInv, DeliveryTruthful
  <2>5. (\A h \in Handlers : Knows(h)') /\ \A g, h \in Handlers : Apart(g, h)'
    BY <2>2 DEF IInv, Knows, Apart
  <2> QED BY <2>2, <2>3, <2>4, <2>5 DEF IInv
<1>2. CASE Crash
  <2>1. TypeOK'
    BY <1>2 DEF IInv, TypeOK, Crash
  <2>2. DeliveryTruthful' /\ announced' \subseteq issued'
    BY <1>2 DEF IInv, DeliveryTruthful, Crash
  <2>3. (\A h \in Handlers : Knows(h)') /\ \A g, h \in Handlers : Apart(g, h)'
    BY <1>2 DEF Crash, Knows, Apart, Stored
  <2> QED BY <2>1, <2>2, <2>3 DEF IInv
<1>3. CASE Tick
  <2>1. clock' \in Windows
    BY <1>3, ParameterAssumption DEF IInv, TypeOK, Tick, Windows
  <2>2. TypeOK' /\ DeliveryTruthful' /\ announced' \subseteq issued'
    BY <1>3, <2>1 DEF IInv, TypeOK, DeliveryTruthful, Tick, table
  <2>3. (\A h \in Handlers : Knows(h)') /\ \A g, h \in Handlers : Apart(g, h)'
    BY <1>3 DEF IInv, Tick, Knows, Apart, table
  <2> QED BY <2>2, <2>3 DEF IInv
<1> QED BY <1>1, <1>2, <1>3

LEMMA StepInv == IInv /\ [Next]_vars => IInv'
<1> SUFFICES ASSUME IInv, [Next]_vars PROVE IInv'
  OBVIOUS
<1>1. ASSUME NEW h \in Handlers, ArrivePublic(h) \/ ArriveWidgetTest(h) \/ Work(h)
      PROVE  IInv'
  BY <1>1, ArriveInv, ReadInv, InsertInv, NotifyInv, MarkInv, AnnounceInv DEF Work
<1>2. CASE (\E s \in Sites : DeleteSite(s)) \/ Crash \/ Tick
  BY <1>2, OutsideInv
<1>3. CASE UNCHANGED vars
  BY <1>3 DEF vars, IInv, TypeOK, DeliveryTruthful, Knows, Apart
<1> QED BY <1>1, <1>2, <1>3 DEF Next

LEMMA Invariance == Spec => []IInv
BY InitInv, StepInv, PTL DEF Spec

(* Rows, requests and counters stay complete, for any number of requests,  *)
(* sites, messages and addresses.                                          *)
THEOREM TypeCorrect == Spec => []TypeOK
<1>1. IInv => TypeOK
  BY DEF IInv
<1> QED BY Invariance, <1>1, PTL

(* Whatever statement, call or process fails, a message marked as mailed   *)
(* or texted has been sent.                                                *)
THEOREM MarksAreTrue == Spec => []DeliveryTruthful
<1>1. IInv => DeliveryTruthful
  BY DEF IInv
<1> QED BY Invariance, <1>1, PTL

(* No step of any request changes an announced row, other than by deleting *)
(* it with its site.                                                       *)
THEOREM AnnouncedStaysFinal == Spec => AnnouncedIsFinal
<1>1. IInv /\ [Next]_vars => [\A i \in announced : feedback'[i] \in {feedback[i], None}]_vars
  <2> SUFFICES ASSUME IInv, Next, NEW i \in announced
               PROVE  feedback'[i] \in {feedback[i], None}
    OBVIOUS
  <2>1. i \in issued /\ i \in Ids
    BY DEF IInv, TypeOK
  <2>2. ASSUME NEW h \in Handlers, Insert(h) PROVE feedback'[i] = feedback[i]
    BY <2>1, <2>2 DEF Insert, table, IInv, TypeOK
  <2>3. ASSUME NEW h \in Handlers, Mark(h) PROVE feedback'[i] = feedback[i]
    <3>1. job[h].id # i
      BY <2>3 DEF Mark, IInv, Knows
    <3> QED BY <2>1, <2>3, <3>1 DEF Mark, IInv, TypeOK
  <2>4. ASSUME NEW s \in Sites, DeleteSite(s) PROVE feedback'[i] \in {feedback[i], None}
    BY <2>1, <2>4 DEF DeleteSite
  <2>5. ASSUME NEW h \in Handlers,
               \/ ArrivePublic(h) \/ ArriveWidgetTest(h) \/ IsRateLimited(h)
               \/ FindSite(h) \/ Notify(h) \/ Announce(h)
        PROVE  feedback'[i] = feedback[i]
    BY <2>5 DEF ArrivePublic, ArriveWidgetTest, IsRateLimited, FindSite, Notify, Announce, table
  <2>6. CASE Crash \/ Tick
    BY <2>6 DEF Crash, Tick, table
  <2> QED BY <2>2, <2>3, <2>4, <2>5, <2>6 DEF Next, Work
<1> QED BY Invariance, <1>1, PTL DEF Spec, AnnouncedIsFinal

-----------------------------------------------------------------------------
(* The limit.  The messages of a key, an address and a window, and the     *)
(* requests that were admitted for it and may still store one are together *)
(* no more than the key's counter, nor than the limit: the counter alone   *)
(* does not bound the messages, since it goes on counting refused requests.*)
Keys == Addresses \X Windows
StoredFor(k) == {i \in recent : feedback[i] # None /\ feedback[i].from = k}
AdmittedFor(k) == {h \in Handlers : pc[h] \in {"find", "insert"} /\ job[h].from = k}

Room(k) ==
    /\ IsFiniteSet(AdmittedFor(k))
    /\ Cardinality(StoredFor(k)) + Cardinality(AdmittedFor(k)) <= counters[k]
    /\ Cardinality(StoredFor(k)) + Cardinality(AdmittedFor(k)) <= Limit

LEMMA StoredFinite == ASSUME TypeOK, NEW k PROVE IsFiniteSet(StoredFor(k))
<1>1. StoredFor(k) \in SUBSET Ids
  BY DEF StoredFor, TypeOK
<1> QED BY <1>1, FS_Subset, ParameterAssumption

LEMMA RoomInit == ASSUME Init, NEW k \in Keys PROVE Room(k)
<1>1. StoredFor(k) = {} /\ AdmittedFor(k) = {} /\ counters[k] = 0
  BY DEF Init, StoredFor, AdmittedFor, Keys
<1> QED BY <1>1, FS_EmptySet, ParameterAssumption DEF Room

(* Nothing is added for the key.                                           *)
LEMMA NoneAdded ==
    ASSUME TypeOK, TypeOK', NEW k \in Keys, Room(k),
           StoredFor(k)' \subseteq StoredFor(k), AdmittedFor(k)' \subseteq AdmittedFor(k),
           counters'[k] >= counters[k]
    PROVE  Room(k)'
<1>1. StoredFor(k)' \in SUBSET StoredFor(k) /\ AdmittedFor(k)' \in SUBSET AdmittedFor(k)
  OBVIOUS
<1>2. /\ Cardinality(StoredFor(k)') \in Nat /\ Cardinality(StoredFor(k)) \in Nat
      /\ Cardinality(StoredFor(k)') <= Cardinality(StoredFor(k))
  BY <1>1, StoredFinite, FS_Subset, FS_CardinalityType
<1>3. /\ IsFiniteSet(AdmittedFor(k)')
      /\ Cardinality(AdmittedFor(k)') \in Nat /\ Cardinality(AdmittedFor(k)) \in Nat
      /\ Cardinality(AdmittedFor(k)') <= Cardinality(AdmittedFor(k))
  BY <1>1, FS_Subset, FS_CardinalityType DEF Room
<1>4. counters[k] \in Nat /\ counters'[k] \in Nat /\ Limit \in Nat
  BY ParameterAssumption DEF TypeOK, Keys
<1> QED BY <1>2, <1>3, <1>4 DEF Room

(* A request that moves without being admitted for the key.                *)
LEMMA NotAdmitted ==
    ASSUME NEW h \in Handlers, NEW k,
           \A g \in Handlers \ {h} : pc'[g] = pc[g] /\ job'[g] = job[g],
           h \in AdmittedFor(k)' => h \in AdmittedFor(k)
    PROVE  AdmittedFor(k)' \subseteq AdmittedFor(k)
BY DEF AdmittedFor

LEMMA ReplyMoves ==
    ASSUME TypeOK, NEW h \in Handlers, Reply(h), NEW k
    PROVE  AdmittedFor(k)' \subseteq AdmittedFor(k)
<1>1. pc'[h] = "free" /\ \A g \in Handlers \ {h} : pc'[g] = pc[g] /\ job'[g] = job[g]
  BY Moved DEF Reply
<1> QED BY <1>1, NotAdmitted DEF AdmittedFor

LEMMA RoomArrive ==
    ASSUME TypeOK, TypeOK', NEW h \in Handlers, ArrivePublic(h) \/ ArriveWidgetTest(h),
           NEW k \in Keys, Room(k)
    PROVE  Room(k)'
<1>1. UNCHANGED <<table, counters>>
  BY DEF ArrivePublic, ArriveWidgetTest
<1>2. \A g \in Handlers \ {h} : pc'[g] = pc[g] /\ job'[g] = job[g]
  BY DEF ArrivePublic, ArriveWidgetTest, Goto, TypeOK
<1>3. h \notin AdmittedFor(k)'
  <2>1. CASE ArrivePublic(h)
    <3>1. pc'[h] = "limit"
      BY <2>1 DEF ArrivePublic, Goto, TypeOK
    <3> QED BY <3>1 DEF AdmittedFor
  <2>2. CASE ArriveWidgetTest(h)
    <3>1. PICK s \in Sites : job' = [job EXCEPT ![h] = NewJob(s, None)]
      BY <2>2 DEF ArriveWidgetTest
    <3>2. job'[h].from = None
      BY <3>1 DEF NewJob, TypeOK
    <3>3. k # None
      BY NoneAssumption DEF Keys
    <3> QED BY <3>2, <3>3 DEF AdmittedFor
  <2> QED BY <2>1, <2>2
<1>4. AdmittedFor(k)' \subseteq AdmittedFor(k)
  BY <1>2, <1>3, NotAdmitted
<1>5. StoredFor(k)' = StoredFor(k) /\ counters'[k] >= counters[k]
  BY <1>1 DEF StoredFor, table, TypeOK, Keys
<1> QED BY <1>4, <1>5, NoneAdded

LEMMA RoomLimit ==
    ASSUME IInv, TypeOK', NEW h \in Handlers, IsRateLimited(h), NEW k \in Keys, Room(k)
    PROVE  Room(k)'
<1> DEFINE key == job[h].from
<1>1. /\ pc[h] = "limit" /\ UNCHANGED table /\ TypeOK
      /\ counters' = [counters EXCEPT ![key] = counters[key] + 1]
      /\ \/ Reply(h)
         \/ ~TooMany(counters[key] + 1) /\ Goto(h, "find") /\ UNCHANGED job
  BY DEF IsRateLimited, IInv
<1>2. key \in Keys
  BY <1>1 DEF IInv, Knows, Keys
<1>3. StoredFor(k)' = StoredFor(k)
  BY <1>1 DEF StoredFor, table
<1>4. /\ counters[k] \in Nat /\ counters'[k] >= counters[k]
      /\ k = key => counters'[k] = counters[k] + 1
  BY <1>1, <1>2 DEF TypeOK, Keys
<1>5. CASE Reply(h)
  BY <1>1, <1>3, <1>4, <1>5, ReplyMoves, NoneAdded
<1>6. CASE ~TooMany(counters[key] + 1) /\ Goto(h, "find") /\ UNCHANGED job
  <2>1. /\ pc'[h] = "find" /\ job'[h].from = key
        /\ \A g \in Handlers \ {h} : pc'[g] = pc[g] /\ job'[g] = job[g]
    BY <1>1, <1>6 DEF Goto, TypeOK
  <2>2. CASE k # key
    <3>1. AdmittedFor(k)' \subseteq AdmittedFor(k)
      BY <2>1, <2>2, NotAdmitted DEF AdmittedFor
    <3> QED BY <1>1, <1>3, <1>4, <3>1, NoneAdded
  <2>3. CASE k = key
    <3>1. AdmittedFor(k)' = AdmittedFor(k) \cup {h} /\ h \notin AdmittedFor(k)
      BY <1>1, <2>1, <2>3 DEF AdmittedFor
    <3>2. /\ IsFiniteSet(AdmittedFor(k)')
          /\ Cardinality(AdmittedFor(k)') = Cardinality(AdmittedFor(k)) + 1
          /\ Cardinality(AdmittedFor(k)) \in Nat
      BY <3>1, FS_AddElement, FS_CardinalityType DEF Room
    <3>3. Cardinality(StoredFor(k)) \in Nat
      BY <1>1, StoredFinite, FS_CardinalityType
    <3>4. counters[k] + 1 <= Limit /\ Limit \in Nat
      BY <1>4, <1>6, <2>3, ParameterAssumption DEF TooMany
    <3> QED BY <1>3, <1>4, <2>3, <3>2, <3>3, <3>4 DEF Room
  <2> QED BY <2>2, <2>3
<1> QED BY <1>1, <1>5, <1>6

LEMMA RoomInsert ==
    ASSUME IInv, TypeOK', NEW h \in Handlers, Insert(h), NEW k \in Keys, Room(k)
    PROVE  Room(k)'
<1>1. /\ pc[h] = "insert" /\ UNCHANGED counters /\ TypeOK /\ counters'[k] >= counters[k]
      /\ job[h] \in Job
  BY DEF Insert, IInv, TypeOK, Keys, Knows
<1>2. CASE Reply(h) /\ UNCHANGED table
  <2>1. StoredFor(k)' = StoredFor(k)
    BY <1>2 DEF StoredFor, table
  <2> QED BY <1>1, <1>2, <2>1, ReplyMoves, NoneAdded
<1>3. CASE \E i \in Ids \ issued :
              /\ feedback' = [feedback EXCEPT ![i] = NewFeedback(job[h])]
              /\ issued' = issued \cup {i} /\ recent' = recent \cup {i}
              /\ Advance(h, "insert", [job[h] EXCEPT !.id = i])
  <2>1. PICK i \in Ids \ issued :
           /\ feedback' = [feedback EXCEPT ![i] = NewFeedback(job[h])]
           /\ issued' = issued \cup {i} /\ recent' = recent \cup {i}
           /\ Advance(h, "insert", [job[h] EXCEPT !.id = i])
    BY <1>3
  <2>2. /\ pc'[h] = "notify"
        /\ \A g \in Handlers \ {h} : pc'[g] = pc[g] /\ job'[g] = job[g]
    BY <1>1, <2>1, AfterFacts DEF Advance, Goto, TypeOK
  <2>3. /\ feedback'[i] = NewFeedback(job[h]) /\ NewFeedback(job[h]).from = job[h].from
        /\ NewFeedback(job[h]) # None
        /\ \A n \in recent : n # i /\ feedback'[n] = feedback[n]
    <3>1. NewFeedback(job[h]) \in Row
      BY <1>1 DEF NewFeedback, Row, Job
    <3> QED BY <1>1, <2>1, <3>1, NoneFacts DEF TypeOK, NewFeedback
  <2>4. CASE k # job[h].from
    <3>1. StoredFor(k)' = StoredFor(k)
      BY <2>1, <2>3, <2>4 DEF StoredFor
    <3>2. AdmittedFor(k)' \subseteq AdmittedFor(k)
      BY <2>2, NotAdmitted DEF AdmittedFor
    <3> QED BY <1>1, <3>1, <3>2, NoneAdded
  <2>5. CASE k = job[h].from
    <3>1. StoredFor(k)' = StoredFor(k) \cup {i} /\ i \notin StoredFor(k)
      BY <2>1, <2>3, <2>5 DEF StoredFor
    <3>2. AdmittedFor(k)' = AdmittedFor(k) \ {h} /\ h \in AdmittedFor(k)
      BY <1>1, <2>2, <2>5 DEF AdmittedFor
    <3>3. /\ Cardinality(StoredFor(k)') = Cardinality(StoredFor(k)) + 1
          /\ Cardinality(StoredFor(k)) \in Nat
      BY <1>1, <3>1, StoredFinite, FS_AddElement, FS_CardinalityType
    <3>4. /\ IsFiniteSet(AdmittedFor(k)')
          /\ Cardinality(AdmittedFor(k)') = Cardinality(AdmittedFor(k)) - 1
          /\ Cardinality(AdmittedFor(k)) \in Nat
      BY <3>2, FS_RemoveElement, FS_CardinalityType DEF Room
    <3> QED BY <1>1, <3>3, <3>4 DEF Room
  <2> QED BY <2>4, <2>5
<1> QED BY <1>2, <1>3 DEF Insert

LEMMA RoomRest ==
    ASSUME IInv, TypeOK', NEW h \in Handlers,
           FindSite(h) \/ Notify(h) \/ Mark(h) \/ Announce(h), NEW k \in Keys, Room(k)
    PROVE  Room(k)'
<1>1. TypeOK /\ UNCHANGED <<recent, counters>> /\ counters'[k] >= counters[k]
  BY DEF FindSite, Notify, Mark, Announce, table, IInv, TypeOK, Keys
<1>2. AdmittedFor(k)' \subseteq AdmittedFor(k)
  <2>1. CASE Reply(h)
    BY <1>1, <2>1, ReplyMoves
  <2>2. CASE FindSite(h) /\ Goto(h, "insert") /\ UNCHANGED job
    <3>1. pc[h] = "find" /\ \A g \in Handlers \ {h} : pc'[g] = pc[g]
      BY <1>1, <2>2 DEF FindSite, Goto, TypeOK
    <3> QED BY <2>2, <3>1, NotAdmitted DEF AdmittedFor
  <2>3. CASE \E j : \E p \in {"notify", "mark", "announce"} : Advance(h, p, j)
    <3>0. PICK j : \E p \in {"notify", "mark", "announce"} : Advance(h, p, j)
      BY <2>3
    <3>1. PICK p \in {"notify", "mark", "announce"} : Advance(h, p, j)
      BY <3>0
    <3>2. /\ pc'[h] \notin {"find", "insert"}
          /\ \A g \in Handlers \ {h} : pc'[g] = pc[g] /\ job'[g] = job[g]
      BY <1>1, <3>1, AfterFacts DEF Advance, Goto, TypeOK
    <3> QED BY <3>2, NotAdmitted DEF AdmittedFor
  <2>4. FindSite(h) => Reply(h) \/ (Goto(h, "insert") /\ UNCHANGED job)
    BY DEF FindSite
  <2>5. Notify(h) \/ Mark(h) \/ Announce(h) =>
           \E j : \E p \in {"notify", "mark", "announce"} : Advance(h, p, j)
    BY DEF Notify, Mark, Announce
  <2> QED BY <2>1, <2>2, <2>3, <2>4, <2>5
<1>3. StoredFor(k)' \subseteq StoredFor(k)
  <2>1. CASE UNCHANGED feedback
    BY <1>1, <2>1 DEF StoredFor
  <2>2. CASE /\ feedback[job[h].id] # None /\ job[h].id \in Ids
             /\ feedback' = [feedback EXCEPT ![job[h].id].delivery = job[h].delivery]
    <3>1. feedback[job[h].id] \in Row
      BY <1>1, <2>2 DEF TypeOK
    <3>2. /\ feedback'[job[h].id].from = feedback[job[h].id].from
          /\ \A n \in Ids \ {job[h].id} : feedback'[n] = feedback[n]
      BY <1>1, <2>2, <3>1 DEF TypeOK, Row
    <3>3. recent \subseteq Ids
      BY <1>1 DEF TypeOK
    <3> QED BY <1>1, <2>2, <3>2, <3>3 DEF StoredFor
  <2>3. FindSite(h) \/ Notify(h) \/ Announce(h) => UNCHANGED feedback
    BY DEF FindSite, Notify, Announce, table
  <2>4. Mark(h) => job[h].id \in Ids
    BY DEF Mark, IInv, Knows, Stored, TypeOK
  <2> QED BY <2>1, <2>2, <2>3, <2>4 DEF Mark
<1> QED BY <1>1, <1>2, <1>3, NoneAdded

LEMMA RoomOutside ==
    ASSUME TypeOK, TypeOK', (\E s \in Sites : DeleteSite(s)) \/ Crash \/ Tick \/ UNCHANGED vars,
           NEW k \in Keys, Room(k)
    PROVE  Room(k)'
<1>1. CASE Crash
  <2>1. StoredFor(k)' = {} /\ AdmittedFor(k)' = {} /\ counters'[k] = 0
    BY <1>1 DEF Crash, StoredFor, AdmittedFor, Keys
  <2> QED BY <2>1, FS_EmptySet, ParameterAssumption DEF Room
<1>2. CASE (\E s \in Sites : DeleteSite(s)) \/ Tick \/ UNCHANGED vars
  <2>1. UNCHANGED <<recent, counters, pc, job>>
    BY <1>2 DEF DeleteSite, Tick, table, vars
  <2>2. recent \subseteq Ids
    BY DEF TypeOK
  <2>3. \A i \in recent : feedback'[i] \in {feedback[i], None}
    BY <1>2, <2>2 DEF DeleteSite, Tick, table, vars
  <2>4. StoredFor(k)' \subseteq StoredFor(k) /\ AdmittedFor(k)' = AdmittedFor(k)
    BY <2>1, <2>3 DEF StoredFor, AdmittedFor
  <2>5. counters'[k] >= counters[k]
    BY <2>1 DEF TypeOK, Keys
  <2> QED BY <2>4, <2>5, NoneAdded
<1> QED BY <1>1, <1>2

LEMMA RoomStep ==
    IInv /\ (\A k \in Keys : Room(k)) /\ [Next]_vars => (\A k \in Keys : Room(k))'
<1> SUFFICES ASSUME IInv, \A k \in Keys : Room(k), [Next]_vars, NEW k \in Keys PROVE Room(k)'
  BY DEF Keys, Windows
<1>1. TypeOK /\ TypeOK' /\ Room(k)
  BY StepInv DEF IInv
<1>2. ASSUME NEW h \in Handlers, ArrivePublic(h) \/ ArriveWidgetTest(h) \/ Work(h)
      PROVE  Room(k)'
  BY <1>1, <1>2, RoomArrive, RoomLimit, RoomInsert, RoomRest DEF Work
<1>3. CASE (\E s \in Sites : DeleteSite(s)) \/ Crash \/ Tick \/ UNCHANGED vars
  BY <1>1, <1>3, RoomOutside
<1> QED BY <1>2, <1>3 DEF Next

(* At most Limit messages of one address and window are stored, whatever   *)
(* number of requests overlap and whichever of them fail.                  *)
THEOREM LimitHolds == Spec => []WindowBound
<1>1. Init => \A k \in Keys : Room(k)
  BY RoomInit
<1>2. IInv /\ (\A k \in Keys : Room(k)) => WindowBound
  <2> SUFFICES ASSUME IInv, \A k \in Keys : Room(k), NEW k \in Keys
               PROVE  Cardinality(StoredFor(k)) <= Limit
    BY DEF WindowBound, StoredFor, Keys
  <2>1. Cardinality(StoredFor(k)) \in Nat /\ Cardinality(AdmittedFor(k)) \in Nat
    BY StoredFinite, FS_CardinalityType DEF IInv, Room
  <2>2. Limit \in Nat
    BY ParameterAssumption
  <2> QED BY <2>1, <2>2 DEF Room
<1> QED BY <1>1, <1>2, InitInv, StepInv, RoomStep, PTL DEF Spec

-----------------------------------------------------------------------------
(* No message is forgotten: one that this run of the server stored has     *)
(* been announced, or a request that holds it is still on its way there.   *)
(* EveryMessageAnnounced follows if every such request goes on.            *)
HeldBy(h, i) == pc[h] \in Stored /\ job[h].id = i
NotForgotten == \A i \in recent : i \in announced \/ \E h \in Handlers : HeldBy(h, i)

(* A request that holds no message leaves those of the others alone.       *)
LEMMA StillHeld ==
    ASSUME NotForgotten, NEW h \in Handlers, \A i : ~HeldBy(h, i),
           \A g \in Handlers \ {h} : pc'[g] = pc[g] /\ job'[g] = job[g],
           announced' = announced
    PROVE  \A i \in recent : i \in announced' \/ \E g \in Handlers : HeldBy(g, i)'
BY DEF NotForgotten, HeldBy

LEMMA NotForgottenStep == IInv /\ NotForgotten /\ [Next]_vars => NotForgotten'
<1> SUFFICES ASSUME IInv, NotForgotten, [Next]_vars PROVE NotForgotten'
  OBVIOUS
<1>1. TypeOK
  BY DEF IInv
<1>2. ASSUME NEW h \in Handlers, ArrivePublic(h) \/ ArriveWidgetTest(h) \/ IsRateLimited(h) \/ FindSite(h)
      PROVE  NotForgotten'
  <2>1. /\ recent' = recent /\ announced' = announced /\ pc[h] \notin Stored
        /\ \A g \in Handlers \ {h} : pc'[g] = pc[g] /\ job'[g] = job[g]
    BY <1>1, <1>2
    DEF TypeOK, ArrivePublic, ArriveWidgetTest, IsRateLimited, FindSite, Reply, Goto, table, Stored
  <2>2. \A i : ~HeldBy(h, i)
    BY <2>1 DEF HeldBy
  <2> QED
    BY <2>1, <2>2, StillHeld DEF NotForgotten
<1>3. ASSUME NEW h \in Handlers, Insert(h) PROVE NotForgotten'
  <2>1. /\ announced' = announced /\ \A i : ~HeldBy(h, i)
        /\ \A g \in Handlers \ {h} : pc'[g] = pc[g] /\ job'[g] = job[g]
    BY <1>1, <1>3 DEF TypeOK, Insert, Advance, Reply, Goto, HeldBy, Stored
  <2>2. \A i \in recent : i \in announced' \/ \E g \in Handlers : HeldBy(g, i)'
    BY <2>1, StillHeld
  <2>3. CASE Reply(h) /\ UNCHANGED table
    BY <2>2, <2>3 DEF NotForgotten, table
  <2>4. ASSUME NEW n \in Ids \ issued, recent' = recent \cup {n},
               Advance(h, "insert", [job[h] EXCEPT !.id = n])
        PROVE  NotForgotten'
    <3>1. pc'[h] = "notify" /\ job'[h] = [job[h] EXCEPT !.id = n]
      BY <1>1, <2>4, AfterFacts DEF Advance, Goto, TypeOK
    <3>2. job[h] \in Job
      BY <1>3 DEF IInv, Insert, Knows
    <3>3. HeldBy(h, n)'
      BY <3>1, <3>2 DEF HeldBy, Stored, Job
    <3> QED
      BY <2>2, <2>4, <3>3 DEF NotForgotten
  <2> QED
    BY <1>3, <2>3, <2>4 DEF Insert
<1>4. ASSUME NEW h \in Handlers, Notify(h) \/ Mark(h) PROVE NotForgotten'
  <2>1. recent' = recent /\ announced' = announced
    BY <1>4 DEF Notify, Mark, table
  <2>2. \A g \in Handlers \ {h} : pc'[g] = pc[g] /\ job'[g] = job[g]
    BY <1>1, <1>4 DEF TypeOK, Notify, Mark, Advance, Goto
  <2>3. job[h] \in Job
    BY <1>4 DEF IInv, Notify, Mark, Knows
  <2>4. pc'[h] \in {"mark", "announce"} /\ job'[h].id = job[h].id
    BY <1>1, <1>4, <2>3, AfterFacts DEF TypeOK, Notify, Mark, Advance, Goto, Job
  <2>5. \A i : \A g \in Handlers : HeldBy(g, i) => HeldBy(g, i)'
    BY <2>2, <2>4 DEF HeldBy, Stored
  <2> QED
    BY <2>1, <2>5 DEF NotForgotten
<1>5. ASSUME NEW h \in Handlers, Announce(h) PROVE NotForgotten'
  <2>1. recent' = recent /\ announced' = announced \cup {job[h].id}
    BY <1>5 DEF Announce, table
  <2>2. \A g \in Handlers \ {h} : pc'[g] = pc[g] /\ job'[g] = job[g]
    BY <1>1, <1>5 DEF TypeOK, Announce, Advance, Goto
  <2> QED
    BY <2>1, <2>2 DEF NotForgotten, HeldBy
<1>6. CASE Crash
  BY <1>6 DEF Crash, NotForgotten
<1>7. CASE (\E s \in Sites : DeleteSite(s)) \/ Tick \/ UNCHANGED vars
  BY <1>7 DEF DeleteSite, Tick, vars, table, NotForgotten, HeldBy
<1> QED
  BY <1>2, <1>3, <1>4, <1>5, <1>6, <1>7 DEF Next, Work

(* Every message stored since the server started has been announced to the *)
(* dashboards, or its CreateFeedback is still on the way to announcing it, *)
(* for any number of requests and whichever statements and calls fail.     *)
THEOREM NoMessageForgotten == Spec => []NotForgotten
<1>1. Init => NotForgotten
  BY DEF Init, NotForgotten
<1> QED
  BY InitInv, StepInv, NotForgottenStep, <1>1, PTL DEF Spec

=============================================================================
