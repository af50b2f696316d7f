--------------------------- MODULE EventBroadcaster ---------------------------
(***************************************************************************)
(* FeedbackEventBroadcaster and SubscriptionTestEventBroadcaster, which    *)
(* share one design, with their clients: request handlers that publish,    *)
(* stream handlers that hold a subscription for as long as a dashboard is  *)
(* connected, and the shutdown in main.  The mutex is explicit because the *)
(* loops of Broadcast and Close over the subscribers interleave with       *)
(* receives, which do not take it.                                         *)
(***************************************************************************)
EXTENDS Naturals, Sequences

CONSTANTS
    Publishers,     \* goroutines that call Broadcast
    Streams,        \* goroutines that run a stream handler
    Stalled,        \* those of them whose client never reads
    Main,           \* the goroutine that calls Close
    BufferLength,   \* bufferLength
    MaxEvents,      \* bound on the events broadcast in a run
    MaxIds,         \* bound on the subscriptions handed out in a run
    None            \* the mutex is free

ASSUME BufferAssumption == BufferLength \in Nat \ {0}
ASSUME BoundsAssumption == MaxEvents \in Nat /\ MaxIds \in Nat
ASSUME GoroutineAssumption ==
    /\ None \notin Publishers \cup {Main}
    /\ Main \notin Publishers
ASSUME StalledAssumption == Stalled \subseteq Streams

Ids == 0 .. MaxIds - 1

Events == 1 .. MaxEvents

Channel == [open : BOOLEAN, buffer : Seq(Events)]

VARIABLES
    mutex,        \* who holds the mutex
    closed,
    nextID,
    subscribers,  \* keys of the subscribers map
    channel,      \* the channels, by identifier
    loop,         \* identifiers the holder's loop has not visited yet
    broadcast,    \* number of events broadcast; also the event of the loop
    handler,      \* each stream handler: phase, subscription, last event written
    panicked      \* a send on, or a close of, a closed channel

vars == <<mutex, closed, nextID, subscribers, channel, loop, broadcast,
          handler, panicked>>

map == <<closed, nextID, subscribers>>

Idle == [phase |-> "idle", id |-> 0, last |-> 0]

Init ==
    /\ mutex = None
    /\ closed = FALSE
    /\ nextID = 0
    /\ subscribers = {}
    /\ channel = [i \in Ids |-> [open |-> FALSE, buffer |-> <<>>]]
    /\ loop = {}
    /\ broadcast = 0
    /\ handler = [s \in Streams |-> Idle]
    /\ panicked = FALSE

-----------------------------------------------------------------------------
(* Broadcast: take the mutex, offer the event to every channel, release.   *)

BeginBroadcast(p) ==
    /\ mutex = None
    /\ ~closed
    /\ subscribers # {}
    /\ broadcast < MaxEvents
    /\ mutex' = p
    /\ broadcast' = broadcast + 1
    /\ loop' = subscribers
    /\ UNCHANGED <<map, channel, handler, panicked>>

(* The non-blocking send: the event is dropped when the buffer is full.    *)
Unbounded(c, e) == [c EXCEPT !.buffer = Append(@, e)]  \* faulty variant
NewestFirst(c, e) ==  \* faulty variant
    [c EXCEPT !.buffer = IF Len(@) < BufferLength THEN <<e>> \o @ ELSE @]
Offered(c, e) == [c EXCEPT !.buffer = IF Len(@) < BufferLength THEN Append(@, e) ELSE @]

BlockingDeliver(p, i) ==  \* faulty variant
    /\ mutex = p
    /\ i \in loop
    /\ Len(channel[i].buffer) < BufferLength
    /\ loop' = loop \ {i}
    /\ channel' = [channel EXCEPT ![i].buffer = Append(@, broadcast)]
    /\ UNCHANGED <<mutex, map, broadcast, handler, panicked>>
Deliver(p, i) ==
    /\ mutex = p
    /\ i \in loop
    /\ loop' = loop \ {i}
    /\ channel' = IF channel[i].open
                  THEN [channel EXCEPT ![i] = Offered(@, broadcast)]
                  ELSE channel
    /\ panicked' = (panicked \/ ~channel[i].open)
    /\ UNCHANGED <<mutex, map, broadcast, handler>>

EndBroadcast(p) ==
    /\ mutex = p
    /\ loop = {}
    /\ mutex' = None
    /\ UNCHANGED <<map, channel, loop, broadcast, handler, panicked>>

-----------------------------------------------------------------------------
(* Close, called once by main when the server has stopped.                 *)

BeginClose ==
    /\ mutex = None
    /\ ~closed
    /\ mutex' = Main
    /\ closed' = TRUE
    /\ loop' = subscribers
    /\ UNCHANGED <<nextID, subscribers, channel, broadcast, handler, panicked>>

Shut(i) ==
    /\ channel' = [channel EXCEPT ![i].open = FALSE]
    /\ panicked' = (panicked \/ ~channel[i].open)

CloseChannel(i) ==
    /\ mutex = Main
    /\ i \in loop
    /\ loop' = loop \ {i}
    /\ Shut(i)
    /\ subscribers' = subscribers \ {i}
    /\ UNCHANGED <<mutex, closed, nextID, broadcast, handler>>

EndClose ==
    /\ mutex = Main
    /\ loop = {}
    /\ mutex' = None
    /\ UNCHANGED <<map, channel, loop, broadcast, handler, panicked>>

-----------------------------------------------------------------------------
(* A stream handler.  A closed broadcaster hands out no subscription and   *)
(* the request is refused.                                                 *)

AlwaysOpen == TRUE  \* faulty variant
MayRegister == ~closed

Subscribe(s) ==
    /\ mutex = None
    /\ MayRegister
    /\ handler[s].phase = "idle"
    /\ nextID < MaxIds
    /\ nextID' = nextID + 1
    /\ subscribers' = subscribers \cup {nextID}
    /\ channel' = [channel EXCEPT ![nextID] = [open |-> TRUE, buffer |-> <<>>]]
    /\ handler' = [handler EXCEPT ![s] =
                      [phase |-> "streaming", id |-> nextID, last |-> broadcast]]
    /\ UNCHANGED <<mutex, closed, loop, broadcast, panicked>>

(* Receive an event and write it to the client.                            *)
Receive(s) ==
    LET i == handler[s].id
    IN  /\ handler[s].phase = "streaming"
        /\ channel[i].buffer # <<>>
        /\ handler' = [handler EXCEPT ![s].last = Head(channel[i].buffer)]
        /\ channel' = [channel EXCEPT ![i].buffer = Tail(@)]
        /\ UNCHANGED <<mutex, map, loop, broadcast, panicked>>

(* The drained channel is closed.                                          *)
SeesClosed(s) ==
    /\ handler[s].phase = "streaming"
    /\ channel[handler[s].id].buffer = <<>>
    /\ ~channel[handler[s].id].open
    /\ handler' = [handler EXCEPT ![s].phase = "leaving"]
    /\ UNCHANGED <<mutex, map, channel, loop, broadcast, panicked>>

(* The client is gone: the request context is done or a write fails.       *)
Disconnect(s) ==
    /\ handler[s].phase = "streaming"
    /\ handler' = [handler EXCEPT ![s].phase = "leaving"]
    /\ UNCHANGED <<mutex, map, channel, loop, broadcast, panicked>>

(* The deferred Close of the subscription: remove.                         *)
AssumesRegistered(i) == TRUE  \* faulty variant
IsRegistered(i) == i \in subscribers

Remove(s) ==
    LET i == handler[s].id
    IN  /\ handler[s].phase = "leaving"
        /\ mutex = None
        /\ \/ /\ IsRegistered(i)
              /\ subscribers' = subscribers \ {i}
              /\ Shut(i)
           \/ /\ ~IsRegistered(i)
              /\ UNCHANGED <<subscribers, channel, panicked>>
        /\ handler' = [handler EXCEPT ![s] = Idle]
        /\ UNCHANGED <<mutex, closed, nextID, loop, broadcast>>

-----------------------------------------------------------------------------
Publish(p) == BeginBroadcast(p) \/ (\E i \in Ids : Deliver(p, i)) \/ EndBroadcast(p)

Close == BeginClose \/ (\E i \in Ids : CloseChannel(i)) \/ EndClose

Stream(s) ==
    Subscribe(s) \/ Receive(s) \/ SeesClosed(s) \/ Disconnect(s) \/ Remove(s)

Next ==
    \/ \E p \in Publishers : Publish(p)
    \/ Close
    \/ \E s \in Streams : Stream(s)

Spec == Init /\ [][Next]_vars

(* A goroutine in its critical section gets on; a stream handler with      *)
(* something to clean up does so, and one with an event to pass on does so *)
(* unless its client has stalled.  Nobody has to publish, connect,         *)
(* disconnect or shut down.                                                *)
Fairness ==
    /\ \A p \in Publishers :
          WF_vars((\E i \in Ids : Deliver(p, i)) \/ EndBroadcast(p))
    /\ WF_vars((\E i \in Ids : CloseChannel(i)) \/ EndClose)
    /\ \A s \in Streams : WF_vars(SeesClosed(s)) /\ WF_vars(Remove(s))
    /\ \A s \in Streams \ Stalled : WF_vars(Receive(s))

FairSpec == Spec /\ Fairness

-----------------------------------------------------------------------------
(* Every variable stays in its domain and no channel holds more events     *)
(* than its buffer.                                                        *)
TypeOK ==
    /\ mutex \in Publishers \cup {Main, None}
    /\ closed \in BOOLEAN
    /\ nextID \in 0..MaxIds
    /\ subscribers \subseteq Ids
    /\ channel \in [Ids -> Channel]
    /\ \A i \in Ids : Len(channel[i].buffer) <= BufferLength
    /\ loop \subseteq Ids
    /\ broadcast \in 0..MaxEvents
    /\ handler \in [Streams -> [phase : {"idle", "streaming", "leaving"},
                                id : 0..MaxIds, last : 0..MaxEvents]]
    /\ panicked \in BOOLEAN

(* No goroutine ever sends on a closed channel or closes one twice, either *)
(* of which ends the whole process, however publishers, disconnecting      *)
(* clients and the shutdown interleave.                                    *)
NoPanic == ~panicked

(* A broadcast returns, so that the public request behind it is answered,  *)
(* even when a dashboard with a full buffer does not read any more.        *)
BroadcastReturns == \A p \in Publishers : mutex = p ~> mutex # p

(* The shutdown reaches every dashboard that reads: once the broadcaster   *)
(* is closed, its stream handler drains the buffer and returns, and none   *)
(* starts any more.                                                        *)
StreamsEnd == \A s \in Streams \ Stalled : closed ~> [](handler[s].phase = "idle")

(* The broadcaster implements the abstract stream: in order, at most once, *)
(* nothing from before the subscription, no stream after Close.            *)
Dashboard == INSTANCE EventStream WITH
    Viewers   <- Streams,
    published <- broadcast,
    down      <- closed,
    view      <- [s \in Streams |->
                    IF handler[s].phase = "streaming"
                    THEN [on |-> TRUE, last |-> handler[s].last]
                    ELSE [on |-> FALSE, last |-> 0]]

ImplementsStream == Dashboard!Spec

=============================================================================
