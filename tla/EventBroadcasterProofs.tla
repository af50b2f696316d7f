------------------------ MODULE EventBroadcasterProofs ------------------------
(***************************************************************************)
(* Proofs, for any number of publishers, stream handlers, events,          *)
(* subscriptions and any buffer length, that the broadcaster never touches *)
(* a closed channel and that it implements EventStream.                    *)
(***************************************************************************)
EXTENDS EventBroadcaster, TLAPS

(* The event of a broadcast under way and the subscription of a handler    *)
(* that is not idle are real ones.                                         *)
TypeInv ==
    /\ TypeOK
    /\ mutex \in Publishers => broadcast \in Events
    /\ \A s \in Streams : handler[s].phase # "idle" => handler[s].id \in Ids

(* A registered channel is open and its identifier has been given out; the *)
(* loop under the mutex visits registered channels only.                   *)
Registered ==
    /\ \A i \in subscribers : channel[i].open /\ i < nextID
    /\ loop \subseteq subscribers
    /\ mutex = None => loop = {}

(* The events x and y of a buffer are in the order of their broadcast.     *)
Ordered(buffer) ==
    \A j, k \in DOMAIN buffer : j < k => buffer[j] < buffer[k]

(* The event being broadcast is not yet in a channel the loop still has to *)
(* visit.                                                                  *)
Pending(i) == mutex \in Publishers /\ i \in loop

BuffersOrdered ==
    \A i \in Ids :
        /\ Ordered(channel[i].buffer)
        /\ \A k \in DOMAIN channel[i].buffer :
              /\ channel[i].buffer[k] <= broadcast
              /\ Pending(i) => channel[i].buffer[k] < broadcast

(* What a handler has not received yet is newer than what it has written.  *)
HandlersBehind ==
    \A s \in Streams : handler[s].phase = "streaming" =>
        /\ handler[s].last <= broadcast
        /\ Pending(handler[s].id) => handler[s].last < broadcast
        /\ \A k \in DOMAIN channel[handler[s].id].buffer :
              handler[s].last < channel[handler[s].id].buffer[k]

IInv == TypeInv /\ Registered /\ NoPanic /\ BuffersOrdered /\ HandlersBehind

-----------------------------------------------------------------------------
(* The initial state satisfies the invariant.                              *)
LEMMA InitInv == Init => IInv
<1> SUFFICES ASSUME Init PROVE IInv
  OBVIOUS
<1> USE GoroutineAssumption, BoundsAssumption DEF Init
<1>1. TypeInv
  <2>1. channel \in [Ids -> Channel]
    BY DEF Channel
  <2>2. \A i \in Ids : Len(channel[i].buffer) <= BufferLength
    BY BufferAssumption
  <2>3. handler \in [Streams -> [phase : {"idle", "streaming", "leaving"},
                               id : 0..MaxIds, last : 0..MaxEvents]]
    BY DEF Idle
  <2>4. \A s \in Streams : handler[s].phase = "idle"
    BY DEF Idle
  <2>5. mutex \notin Publishers /\ mutex \in Publishers \cup {Main, None}
    OBVIOUS
  <2>6. nextID \in 0..MaxIds /\ broadcast \in 0..MaxEvents
    OBVIOUS
  <2> QED BY <2>1, <2>2, <2>3, <2>4, <2>5, <2>6 DEF TypeInv, TypeOK
<1>2. Registered /\ NoPanic
  BY DEF Registered, NoPanic, Ids
<1>3. BuffersOrdered
  BY DEF BuffersOrdered, Ordered
<1>4. HandlersBehind
  BY DEF HandlersBehind, Idle
<1> QED BY <1>1, <1>2, <1>3, <1>4 DEF IInv

(* Receiving leaves the rest of the buffer, appending adds one element.    *)
LEMMA BufferFacts ==
    ASSUME NEW b \in Seq(Events)
    PROVE  /\ b # <<>> => /\ Head(b) = b[1] /\ 1 \in DOMAIN b /\ Head(b) \in Events
                          /\ Tail(b) \in Seq(Events)
                          /\ Len(Tail(b)) = Len(b) - 1
                          /\ \A k \in DOMAIN Tail(b) : k + 1 \in DOMAIN b /\ Tail(b)[k] = b[k + 1]
           /\ \A e \in Events :
                 /\ Append(b, e) \in Seq(Events)
                 /\ Len(Append(b, e)) = Len(b) + 1
                 /\ \A k \in DOMAIN Append(b, e) :
                       \/ k \in DOMAIN b /\ Append(b, e)[k] = b[k]
                       \/ k = Len(b) + 1 /\ Append(b, e)[k] = e
OBVIOUS

(* The non-blocking send keeps a channel within its buffer length and      *)
(* appends the event or nothing.                                           *)
LEMMA OfferFacts ==
    ASSUME NEW c \in Channel, NEW e \in Events, Len(c.buffer) <= BufferLength
    PROVE  /\ Offered(c, e) \in Channel
           /\ Len(Offered(c, e).buffer) <= BufferLength
           /\ Offered(c, e).open = c.open
           /\ Offered(c, e).buffer \in {c.buffer, Append(c.buffer, e)}
<1> DEFINE new == IF Len(c.buffer) < BufferLength THEN Append(c.buffer, e) ELSE c.buffer
<1>1. c.buffer \in Seq(Events)
  BY DEF Channel
<1>2. new \in Seq(Events) /\ Len(new) <= BufferLength
  BY <1>1, BufferFacts, BufferAssumption
<1>3. new \in {c.buffer, Append(c.buffer, e)}
  OBVIOUS
<1>4. Offered(c, e) = [c EXCEPT !.buffer = new]
  BY DEF Offered
<1> HIDE DEF new
<1>5. Offered(c, e) \in Channel /\ Offered(c, e).buffer = new /\ Offered(c, e).open = c.open
  BY <1>2, <1>4 DEF Channel
<1> QED BY <1>2, <1>3, <1>5

(* The type invariant is inductive.                                        *)
LEMMA TypeStep == TypeInv /\ Registered /\ [Next]_vars => TypeInv'
<1> SUFFICES ASSUME TypeInv, Registered, [Next]_vars PROVE TypeInv'
  OBVIOUS
<1> USE GoroutineAssumption, BoundsAssumption, BufferAssumption DEF TypeInv, TypeOK, map
<1>1. ASSUME NEW p \in Publishers, BeginBroadcast(p) PROVE TypeInv'
  BY <1>1 DEF BeginBroadcast, Events
<1>2. ASSUME NEW p \in Publishers, NEW i \in Ids, Deliver(p, i) PROVE TypeInv'
  <2>1. broadcast \in Events
    BY <1>2 DEF Deliver
  <2>2. /\ Offered(channel[i], broadcast) \in Channel
        /\ Len(Offered(channel[i], broadcast).buffer) <= BufferLength
    BY <2>1, OfferFacts
  <2> QED BY <1>2, <2>2 DEF Deliver
<1>3. ASSUME NEW p \in Publishers, EndBroadcast(p) PROVE TypeInv'
  BY <1>3 DEF EndBroadcast
<1>4. CASE BeginClose
  BY <1>4 DEF BeginClose
<1>5. ASSUME NEW i \in Ids, CloseChannel(i) PROVE TypeInv'
  BY <1>5 DEF CloseChannel, Shut, Channel
<1>6. CASE EndClose
  BY <1>6 DEF EndClose
<1>7. ASSUME NEW s \in Streams, Subscribe(s) PROVE TypeInv'
  <2>1. nextID \in Ids
    BY <1>7 DEF Subscribe, Ids
  <2>2. [open |-> TRUE, buffer |-> <<>>] \in Channel
    BY DEF Channel
  <2>3. channel' \in [Ids -> Channel] /\ \A i \in Ids : Len(channel'[i].buffer) <= BufferLength
    BY <1>7, <2>1, <2>2 DEF Subscribe
  <2>4. /\ handler' \in [Streams -> [phase : {"idle", "streaming", "leaving"},
                                   id : 0..MaxIds, last : 0..MaxEvents]]
        /\ \A t \in Streams : handler'[t].phase # "idle" => handler'[t].id \in Ids
    BY <1>7, <2>1 DEF Subscribe
  <2> QED BY <1>7, <2>1, <2>3, <2>4 DEF Subscribe
<1>8. ASSUME NEW s \in Streams, Receive(s) PROVE TypeInv'
  <2> DEFINE i == handler[s].id
  <2>1. i \in Ids
    BY <1>8 DEF Receive
  <2>2. channel[i].buffer \in Seq(Events) /\ channel[i].buffer # <<>>
    BY <1>8, <2>1 DEF Receive, Channel
  <2> DEFINE b == channel[i].buffer
  <2>3. /\ Head(channel[i].buffer) \in 0..MaxEvents
        /\ Tail(channel[i].buffer) \in Seq(Events)
        /\ Len(Tail(channel[i].buffer)) <= BufferLength
    <3>1. b \in Seq(Events) /\ b # <<>> /\ Len(b) \in Nat /\ Len(b) <= BufferLength
      BY <2>1, <2>2
    <3>2. /\ Head(b) \in Events /\ Tail(b) \in Seq(Events)
          /\ Len(Tail(b)) = Len(b) - 1
      BY <3>1, BufferFacts
    <3> QED BY <3>1, <3>2 DEF Events
  <2>4. channel' \in [Ids -> Channel] /\ \A k \in Ids : Len(channel'[k].buffer) <= BufferLength
    BY <1>8, <2>1, <2>3 DEF Receive, Channel
  <2>5. /\ handler' \in [Streams -> [phase : {"idle", "streaming", "leaving"},
                                   id : 0..MaxIds, last : 0..MaxEvents]]
        /\ \A t \in Streams : handler'[t].phase # "idle" => handler'[t].id \in Ids
    BY <1>8, <2>3 DEF Receive
  <2> QED BY <1>8, <2>4, <2>5 DEF Receive
<1>9. ASSUME NEW s \in Streams, SeesClosed(s) \/ Disconnect(s) PROVE TypeInv'
  <2>1. handler' = [handler EXCEPT ![s].phase = "leaving"] /\ handler[s].phase = "streaming"
    BY <1>9 DEF SeesClosed, Disconnect
  <2>2. /\ handler' \in [Streams -> [phase : {"idle", "streaming", "leaving"},
                                   id : 0..MaxIds, last : 0..MaxEvents]]
        /\ \A t \in Streams : handler'[t].phase # "idle" => handler'[t].id \in Ids
    BY <2>1
  <2> QED BY <1>9, <2>2 DEF SeesClosed, Disconnect
<1>10. ASSUME NEW s \in Streams, Remove(s) PROVE TypeInv'
  <2>1. /\ handler' \in [Streams -> [phase : {"idle", "streaming", "leaving"},
                                   id : 0..MaxIds, last : 0..MaxEvents]]
        /\ \A t \in Streams : handler'[t].phase # "idle" => handler'[t].id \in Ids
    BY <1>10 DEF Remove, Idle
  <2>2. handler[s].id \in Ids
    BY <1>10 DEF Remove
  <2>3. /\ channel' \in [Ids -> Channel]
        /\ \A k \in Ids : Len(channel'[k].buffer) <= BufferLength
        /\ subscribers' \subseteq Ids /\ panicked' \in BOOLEAN
    <3>1. CASE Shut(handler[s].id)
      <4>0. channel[handler[s].id] \in [open : BOOLEAN, buffer : Seq(Events)]
        BY <2>2 DEF Channel
      <4>1. [channel[handler[s].id] EXCEPT !.open = FALSE] \in Channel
        BY ONLY <4>0 DEF Channel
      <4>2. [channel[handler[s].id] EXCEPT !.open = FALSE].buffer = channel[handler[s].id].buffer
        BY ONLY <4>0
      <4> QED BY <1>10, <2>2, <3>1, <4>1, <4>2 DEF Remove, Shut
    <3>2. CASE UNCHANGED <<subscribers, channel, panicked>>
      BY <3>2
    <3> QED BY <1>10, <3>1, <3>2 DEF Remove
  <2> QED BY <1>10, <2>1, <2>3 DEF Remove
<1>11. CASE UNCHANGED vars
  BY <1>11 DEF vars
<1> QED BY <1>1, <1>2, <1>3, <1>4, <1>5, <1>6, <1>7, <1>8, <1>9, <1>10, <1>11
    DEF Next, Publish, Close, Stream

(* Only registered channels are visited and closed, so none is closed      *)
(* when it is sent to or closed.                                           *)
LEMMA RegisteredStep ==
    TypeInv /\ Registered /\ NoPanic /\ [Next]_vars => Registered' /\ NoPanic'
<1> SUFFICES ASSUME TypeInv, Registered, NoPanic, [Next]_vars
             PROVE  Registered' /\ NoPanic'
  OBVIOUS
<1> USE GoroutineAssumption, BoundsAssumption
    DEF TypeInv, TypeOK, Registered, NoPanic, map
<1>1. ASSUME NEW p \in Publishers, BeginBroadcast(p) PROVE Registered' /\ NoPanic'
  BY <1>1 DEF BeginBroadcast
<1>2. ASSUME NEW p \in Publishers, NEW i \in Ids, Deliver(p, i)
      PROVE  Registered' /\ NoPanic'
  <2>1. channel[i].open /\ broadcast \in Events /\ channel[i] \in Channel
    BY <1>2 DEF Deliver
  <2>2. Offered(channel[i], broadcast).open = channel[i].open
    BY <2>1, OfferFacts
  <2>3. \A k \in subscribers : channel'[k].open
    BY <1>2, <2>1, <2>2 DEF Deliver
  <2> QED BY <1>2, <2>1, <2>3 DEF Deliver
<1>3. ASSUME NEW p \in Publishers, EndBroadcast(p) PROVE Registered' /\ NoPanic'
  BY <1>3 DEF EndBroadcast
<1>4. CASE BeginClose
  BY <1>4 DEF BeginClose
<1>5. ASSUME NEW i \in Ids, CloseChannel(i) PROVE Registered' /\ NoPanic'
  <2>1. \A k \in subscribers \ {i} : channel'[k] = channel[k]
    BY <1>5 DEF CloseChannel, Shut
  <2> QED BY <1>5, <2>1 DEF CloseChannel, Shut
<1>6. CASE EndClose
  BY <1>6 DEF EndClose
<1>7. ASSUME NEW s \in Streams, Subscribe(s) PROVE Registered' /\ NoPanic'
  <2>1. nextID \in Ids /\ nextID \notin subscribers
    BY <1>7 DEF Subscribe, Ids
  <2>2. \A k \in subscribers' : channel'[k].open /\ k < nextID'
    BY <1>7, <2>1 DEF Subscribe, Ids
  <2> QED BY <1>7, <2>2 DEF Subscribe
<1>8. ASSUME NEW s \in Streams, Receive(s) PROVE Registered' /\ NoPanic'
  <2>1. \A k \in Ids : channel'[k].open = channel[k].open
    BY <1>8 DEF Receive, Channel
  <2> QED BY <1>8, <2>1 DEF Receive
<1>9. ASSUME NEW s \in Streams, SeesClosed(s) \/ Disconnect(s)
      PROVE  Registered' /\ NoPanic'
  BY <1>9 DEF SeesClosed, Disconnect
<1>10. ASSUME NEW s \in Streams, Remove(s) PROVE Registered' /\ NoPanic'
  <2>1. \A k \in subscribers' : channel'[k] = channel[k]
    BY <1>10 DEF Remove, Shut, IsRegistered
  <2> QED BY <1>10, <2>1 DEF Remove, Shut, IsRegistered
<1>11. CASE UNCHANGED vars
  BY <1>11 DEF vars
<1> QED BY <1>1, <1>2, <1>3, <1>4, <1>5, <1>6, <1>7, <1>8, <1>9, <1>10, <1>11
    DEF Next, Publish, Close, Stream

-----------------------------------------------------------------------------
(* Nothing is pending before a broadcast, and its event is newer than all  *)
(* others.                                                                 *)
Settled == BuffersOrdered /\ HandlersBehind

(* Steps that neither send, receive nor subscribe keep the order.          *)
LEMMA SettledFrame ==
    ASSUME TypeInv, TypeInv', Settled, broadcast' = broadcast,
           \A i \in Ids : channel'[i].buffer = channel[i].buffer,
           \A i \in Ids : Pending(i)' => Pending(i),
           \A s \in Streams : handler'[s].phase = "streaming" => handler'[s] = handler[s]
    PROVE  Settled'
<1>1. BuffersOrdered'
  BY DEF Settled, BuffersOrdered, Ordered
<1>2. HandlersBehind'
  BY DEF Settled, HandlersBehind, TypeInv, TypeOK
<1> QED BY <1>1, <1>2 DEF Settled

(* The order of the buffers is kept by every step.                         *)
LEMMA SettledStep ==
    TypeInv /\ TypeInv' /\ Registered /\ Settled /\ [Next]_vars => Settled'
<1> SUFFICES ASSUME TypeInv, TypeInv', Registered, Settled, [Next]_vars PROVE Settled'
  OBVIOUS
<1> USE GoroutineAssumption, BoundsAssumption DEF map
<1>1. ASSUME NEW p \in Publishers, BeginBroadcast(p) PROVE Settled'
  <2>1. broadcast' = broadcast + 1 /\ channel' = channel /\ handler' = handler
    BY <1>1 DEF BeginBroadcast
  <2>2. broadcast \in Nat /\ channel \in [Ids -> Channel]
    BY DEF TypeInv, TypeOK
  <2>3. \A i \in Ids : \A k \in DOMAIN channel[i].buffer : channel[i].buffer[k] \in Nat
    BY <2>2 DEF Channel, Events
  <2>4. BuffersOrdered'
    BY <2>1, <2>2, <2>3 DEF Settled, BuffersOrdered, Ordered
  <2>5. HandlersBehind'
    BY <2>1, <2>2 DEF Settled, HandlersBehind, TypeInv, TypeOK
  <2> QED BY <2>4, <2>5 DEF Settled
<1>2. ASSUME NEW p \in Publishers, NEW i \in Ids, Deliver(p, i) PROVE Settled'
  <2>0. channel[i].open \/ channel' = channel
    BY <1>2 DEF Deliver
  <2>1. /\ broadcast \in Events /\ broadcast' = broadcast /\ handler' = handler
        /\ Pending(i) /\ ~Pending(i)' /\ channel[i] \in Channel
        /\ channel[i].buffer \in Seq(Events)
        /\ \A k \in Ids \ {i} : channel'[k] = channel[k] /\ (Pending(k)' => Pending(k))
    BY <1>2 DEF Deliver, TypeInv, TypeOK, Pending, Channel
  <2>2. channel'[i].buffer \in {channel[i].buffer, Append(channel[i].buffer, broadcast)}
    BY <1>2, <2>1, OfferFacts DEF Deliver, TypeInv, TypeOK
  <2>3. \A k \in DOMAIN channel'[i].buffer :
           \/ /\ k \in DOMAIN channel[i].buffer
              /\ k \in Nat /\ k <= Len(channel[i].buffer)
              /\ channel'[i].buffer[k] = channel[i].buffer[k]
              /\ channel'[i].buffer[k] < broadcast
           \/ /\ channel'[i].buffer[k] = broadcast
              /\ k = Len(channel[i].buffer) + 1
    BY <2>1, <2>2, BufferFacts DEF Settled, BuffersOrdered
  <2>4. BuffersOrdered'
    <3>1. \A j, k \in DOMAIN channel'[i].buffer :
             j < k => channel'[i].buffer[j] < channel'[i].buffer[k]
      <4>1. Len(channel[i].buffer) \in Nat
        BY <2>1
      <4>2. SUFFICES ASSUME NEW j \in DOMAIN channel'[i].buffer,
                            NEW k \in DOMAIN channel'[i].buffer, j < k
                     PROVE  channel'[i].buffer[j] < channel'[i].buffer[k]
        OBVIOUS
      <4>3. /\ j \in DOMAIN channel[i].buffer
            /\ channel'[i].buffer[j] = channel[i].buffer[j]
            /\ channel'[i].buffer[j] < broadcast
        BY <2>3, <4>1, <4>2
      <4>4. CASE k = Len(channel[i].buffer) + 1
        BY <2>3, <4>1, <4>3, <4>4
      <4>5. CASE k \in DOMAIN channel[i].buffer /\ channel'[i].buffer[k] = channel[i].buffer[k]
        BY <4>2, <4>3, <4>5 DEF Settled, BuffersOrdered, Ordered
      <4> QED BY <2>3, <4>4, <4>5
    <3>2. \A k \in DOMAIN channel'[i].buffer : channel'[i].buffer[k] <= broadcast
      BY <2>1, <2>3 DEF Events
    <3> QED BY <3>1, <3>2, <2>1 DEF Settled, BuffersOrdered, Ordered
  <2>5. HandlersBehind'
    <3> SUFFICES ASSUME NEW t \in Streams, handler[t].phase = "streaming"
                 PROVE  /\ handler[t].last <= broadcast
                        /\ Pending(handler[t].id)' => handler[t].last < broadcast
                        /\ \A k \in DOMAIN channel'[handler[t].id].buffer :
                              handler[t].last < channel'[handler[t].id].buffer[k]
      BY <2>1 DEF HandlersBehind
    <3>1. /\ handler[t].id \in Ids
          /\ handler[t].last <= broadcast
          /\ Pending(handler[t].id) => handler[t].last < broadcast
          /\ \A k \in DOMAIN channel[handler[t].id].buffer :
                handler[t].last < channel[handler[t].id].buffer[k]
      BY DEF Settled, HandlersBehind, TypeInv
    <3>2. CASE handler[t].id = i
      BY <2>1, <2>3, <3>1, <3>2
    <3>3. CASE handler[t].id # i
      BY <2>1, <3>1, <3>3 DEF Pending
    <3> QED BY <3>2, <3>3
  <2> QED BY <2>4, <2>5 DEF Settled
<1>3. ASSUME NEW p \in Publishers, EndBroadcast(p) PROVE Settled'
  BY <1>3, SettledFrame DEF EndBroadcast, Pending
<1>4. CASE BeginClose
  BY <1>4, SettledFrame DEF BeginClose, Pending
<1>5. ASSUME NEW i \in Ids, CloseChannel(i) PROVE Settled'
  <2>1. \A k \in Ids : channel'[k].buffer = channel[k].buffer
    BY <1>5 DEF CloseChannel, Shut, TypeInv, TypeOK, Channel
  <2> QED BY <1>5, <2>1, SettledFrame DEF CloseChannel, Pending
<1>6. CASE EndClose
  BY <1>6, SettledFrame DEF EndClose, Pending
<1>7. ASSUME NEW s \in Streams, Subscribe(s) PROVE Settled'
  <2>1. /\ nextID \in Ids /\ broadcast' = broadcast /\ broadcast \in Nat
        /\ \A k \in Ids : ~Pending(k)'
        /\ channel'[nextID].buffer = <<>>
        /\ \A k \in Ids \ {nextID} : channel'[k] = channel[k]
        /\ handler'[s] = [phase |-> "streaming", id |-> nextID, last |-> broadcast]
        /\ \A t \in Streams \ {s} : handler'[t] = handler[t]
    BY <1>7 DEF Subscribe, Ids, Registered, Pending, TypeInv, TypeOK
  <2>2. BuffersOrdered'
    BY <2>1 DEF Settled, BuffersOrdered, Ordered
  <2>3. ASSUME NEW t \in Streams, handler'[t].phase = "streaming"
        PROVE  /\ handler'[t].last <= broadcast' /\ ~Pending(handler[t].id)'
               /\ \A k \in DOMAIN channel'[handler'[t].id].buffer :
                     handler'[t].last < channel'[handler'[t].id].buffer[k]
    <3>1. CASE t = s
      <4>1. handler'[t].id = nextID /\ handler'[t].last = broadcast
        BY <2>1, <3>1
      <4>2. DOMAIN channel'[handler'[t].id].buffer = {}
        BY <2>1, <4>1
      <4> QED BY <2>1, <4>1, <4>2
    <3>2. CASE t # s
      <4>1. handler'[t] = handler[t] /\ handler[t].id \in Ids
        BY <2>1, <2>3, <3>2 DEF TypeInv
      <4>2. /\ handler[t].last <= broadcast
            /\ \A k \in DOMAIN channel[handler[t].id].buffer :
                  handler[t].last < channel[handler[t].id].buffer[k]
        BY <2>3, <4>1 DEF Settled, HandlersBehind
      <4>3. CASE handler[t].id = nextID
        <5>1. DOMAIN channel'[handler'[t].id].buffer = {}
          BY <2>1, <4>1, <4>3
        <5> QED BY <2>1, <4>1, <4>2, <5>1
      <4>4. CASE handler[t].id # nextID
        BY <2>1, <4>1, <4>2, <4>4
      <4> QED BY <4>3, <4>4
    <3> QED BY <3>1, <3>2
  <2>4. HandlersBehind'
    BY <2>3 DEF HandlersBehind
  <2> QED BY <2>2, <2>4 DEF Settled
<1>8. ASSUME NEW s \in Streams, Receive(s) PROVE Settled'
  <2> DEFINE i == handler[s].id
             b == channel[i].buffer
  <2>1. /\ i \in Ids /\ b \in Seq(Events) /\ b # <<>> /\ broadcast' = broadcast
        /\ \A k \in Ids : Pending(k)' <=> Pending(k)
        /\ channel'[i].buffer = Tail(b)
        /\ \A k \in Ids \ {i} : channel'[k] = channel[k]
        /\ handler'[s].phase = "streaming" /\ handler'[s].id = i
        /\ handler'[s].last = Head(b)
        /\ \A t \in Streams \ {s} : handler'[t] = handler[t]
    BY <1>8 DEF Receive, TypeInv, TypeOK, Channel, Pending
  <2>2. /\ Head(b) = b[1] /\ 1 \in DOMAIN b
        /\ \A k \in DOMAIN Tail(b) : k \in Nat /\ 1 < k + 1 /\ k + 1 \in DOMAIN b /\ Tail(b)[k] = b[k + 1]
    BY <2>1, BufferFacts
  <2>3. /\ Ordered(b)
        /\ \A k \in DOMAIN b : b[k] <= broadcast /\ (Pending(i) => b[k] < broadcast)
    BY <2>1 DEF Settled, BuffersOrdered
  <2> HIDE DEF b, i
  <2>4. BuffersOrdered'
    <3>1. Ordered(Tail(b))
      BY <2>2, <2>3 DEF Ordered
    <3>2. \A k \in DOMAIN Tail(b) :
             Tail(b)[k] <= broadcast /\ (Pending(i) => Tail(b)[k] < broadcast)
      BY <2>2, <2>3
    <3> QED BY <2>1, <3>1, <3>2 DEF Settled, BuffersOrdered, Ordered
  <2>5. HandlersBehind'
    <3>1. \A k \in DOMAIN Tail(b) : Head(b) < Tail(b)[k]
      BY <2>2, <2>3 DEF Ordered
    <3>2. Head(b) <= broadcast /\ (Pending(i) => Head(b) < broadcast)
      BY <2>2, <2>3
    <3> SUFFICES ASSUME NEW t \in Streams, handler'[t].phase = "streaming"
                 PROVE  /\ handler'[t].last <= broadcast
                        /\ Pending(handler'[t].id) => handler'[t].last < broadcast
                        /\ \A k \in DOMAIN channel'[handler'[t].id].buffer :
                              handler'[t].last < channel'[handler'[t].id].buffer[k]
      BY <2>1 DEF HandlersBehind, TypeInv
    <3>3. CASE t = s
      BY <2>1, <3>1, <3>2, <3>3
    <3>4. CASE t # s
      <4>1. /\ handler'[t] = handler[t] /\ handler[t].id \in Ids
            /\ handler[t].last <= broadcast
            /\ Pending(handler[t].id) => handler[t].last < broadcast
            /\ \A k \in DOMAIN channel[handler[t].id].buffer :
                  handler[t].last < channel[handler[t].id].buffer[k]
        BY <2>1, <3>4 DEF Settled, HandlersBehind, TypeInv
      <4>2. CASE handler[t].id = i
        <5>1. \A k \in DOMAIN b : handler[t].last < b[k]
          BY <4>1, <4>2 DEF b
        <5> QED BY <2>1, <2>2, <4>1, <4>2, <5>1
      <4>3. CASE handler[t].id # i
        BY <2>1, <4>1, <4>3
      <4> QED BY <4>2, <4>3
    <3> QED BY <3>3, <3>4
  <2> QED BY <2>4, <2>5 DEF Settled
<1>9. ASSUME NEW s \in Streams, SeesClosed(s) \/ Disconnect(s) PROVE Settled'
  <2>1. \A t \in Streams : handler'[t].phase = "streaming" => handler'[t] = handler[t]
    BY <1>9 DEF SeesClosed, Disconnect, TypeInv, TypeOK
  <2> QED BY <1>9, <2>1, SettledFrame DEF SeesClosed, Disconnect, Pending
<1>10. ASSUME NEW s \in Streams, Remove(s) PROVE Settled'
  <2>1. \A t \in Streams : handler'[t].phase = "streaming" => handler'[t] = handler[t]
    BY <1>10 DEF Remove, Idle, TypeInv, TypeOK
  <2>2. \A k \in Ids : channel'[k].buffer = channel[k].buffer
    <3>1. handler[s].id \in Ids /\ channel[handler[s].id] \in Channel
      BY <1>10 DEF Remove, TypeInv, TypeOK
    <3>2. [channel[handler[s].id] EXCEPT !.open = FALSE].buffer = channel[handler[s].id].buffer
      BY <3>1 DEF Channel
    <3> QED BY <1>10, <3>1, <3>2 DEF Remove, Shut, TypeInv, TypeOK
  <2> QED BY <1>10, <2>1, <2>2, SettledFrame DEF Remove, Pending
<1>11. CASE UNCHANGED vars
  BY <1>11, SettledFrame DEF vars, Pending
<1> QED BY <1>1, <1>2, <1>3, <1>4, <1>5, <1>6, <1>7, <1>8, <1>9, <1>10, <1>11
    DEF Next, Publish, Close, Stream

-----------------------------------------------------------------------------
(* The invariant holds in every reachable state.                           *)
LEMMA InvCorrect == Spec => []IInv
<1>1. Init => IInv
  BY InitInv
<1>2. IInv /\ [Next]_vars => IInv'
  BY TypeStep, RegisteredStep, SettledStep DEF IInv, Settled
<1> QED BY <1>1, <1>2, PTL DEF Spec

(* The variables stay in their domains and no channel exceeds its buffer,  *)
(* whatever the number of goroutines, events and subscriptions.            *)
THEOREM TypeCorrect == Spec => []TypeOK
<1>1. IInv => TypeOK
  BY DEF IInv, TypeInv
<1> QED BY <1>1, InvCorrect, PTL

(* No send on a closed channel and no second close, for any number of      *)
(* publishers and dashboards.                                              *)
THEOREM NeverPanics == Spec => []NoPanic
<1>1. IInv => NoPanic
  BY DEF IInv
<1> QED BY <1>1, InvCorrect, PTL

(* What a stream handler is about to write is newer than what it wrote     *)
(* last, and has been broadcast.                                           *)
LEMMA NextEventIsNewer ==
    ASSUME IInv, NEW s \in Streams, handler[s].phase = "streaming",
           channel[handler[s].id].buffer # <<>>
    PROVE  Head(channel[handler[s].id].buffer) \in handler[s].last + 1 .. broadcast
<1> DEFINE b == channel[handler[s].id].buffer
<1>1. handler[s].id \in Ids /\ b \in Seq(Events) /\ b # <<>>
  BY DEF IInv, TypeInv, TypeOK, Channel
<1>2. Head(b) = b[1] /\ 1 \in DOMAIN b /\ b[1] \in Events
  BY <1>1, BufferFacts
<1>3. handler[s].last < b[1] /\ b[1] <= broadcast
  BY <1>1, <1>2 DEF IInv, HandlersBehind, BuffersOrdered
<1>4. handler[s].last \in Nat /\ broadcast \in Nat /\ b[1] \in Nat
  BY <1>2, BoundsAssumption DEF IInv, TypeInv, TypeOK, Events
<1> QED BY <1>2, <1>3, <1>4

(* The view that the refinement maps the handlers to.                      *)
View == [s \in Streams |->
           IF handler[s].phase = "streaming"
           THEN [on |-> TRUE, last |-> handler[s].last]
           ELSE [on |-> FALSE, last |-> 0]]

(* A step that turns no handler's stream on, off or over keeps the view.   *)
LEMMA ViewFrame ==
    ASSUME \A s \in Streams :
              /\ handler'[s].phase = "streaming" <=> handler[s].phase = "streaming"
              /\ handler[s].phase = "streaming" => handler'[s].last = handler[s].last
    PROVE  View' = View
BY DEF View

(* A step of one handler changes the view of that handler only.            *)
LEMMA ViewStep ==
    ASSUME NEW s \in Streams, \A t \in Streams \ {s} : handler'[t] = handler[t]
    PROVE  View' = [View EXCEPT ![s] =
                      IF handler'[s].phase = "streaming"
                      THEN [on |-> TRUE, last |-> handler'[s].last]
                      ELSE [on |-> FALSE, last |-> 0]]
BY DEF View

(* Every step of the broadcaster is a step of the stream or a stutter.     *)
LEMMA StepRefines ==
    IInv /\ [Next]_vars => [Dashboard!Next]_(Dashboard!streamVars)
<1> SUFFICES ASSUME IInv, [Next]_vars
             PROVE  Dashboard!Next \/ UNCHANGED <<broadcast, closed, View>>
  BY DEF Dashboard!streamVars, View
<1> USE DEF map, Dashboard!Next
<1>1. ASSUME NEW p \in Publishers, BeginBroadcast(p) PROVE Dashboard!Publish
  <2>1. View' = View
    BY <1>1, ViewFrame DEF BeginBroadcast
  <2> QED BY <1>1, <2>1 DEF BeginBroadcast, Dashboard!Publish, View
<1>2. ASSUME NEW p \in Publishers, NEW i \in Ids, Deliver(p, i)
      PROVE  UNCHANGED <<broadcast, closed, View>>
  BY <1>2, ViewFrame DEF Deliver
<1>3. ASSUME NEW p \in Publishers, EndBroadcast(p)
      PROVE  UNCHANGED <<broadcast, closed, View>>
  BY <1>3, ViewFrame DEF EndBroadcast
<1>4. CASE BeginClose
  <2>1. View' = View
    BY <1>4, ViewFrame DEF BeginClose
  <2> QED BY <1>4, <2>1 DEF BeginClose, Dashboard!ShutDown, View
<1>5. ASSUME NEW i \in Ids, CloseChannel(i) PROVE UNCHANGED <<broadcast, closed, View>>
  BY <1>5, ViewFrame DEF CloseChannel
<1>6. CASE EndClose
  BY <1>6, ViewFrame DEF EndClose
<1>7. ASSUME NEW s \in Streams, Subscribe(s) PROVE Dashboard!Open(s)
  <2>1. /\ \A t \in Streams \ {s} : handler'[t] = handler[t]
        /\ handler'[s].phase = "streaming" /\ handler'[s].last = broadcast
    BY <1>7 DEF Subscribe, IInv, TypeInv, TypeOK
  <2>2. View' = [View EXCEPT ![s] = [on |-> TRUE, last |-> broadcast]]
    BY <2>1, ViewStep
  <2>3. ~View[s].on /\ ~closed /\ UNCHANGED <<broadcast, closed>>
    BY <1>7 DEF Subscribe, MayRegister, View
  <2> QED BY <2>2, <2>3 DEF Dashboard!Open, View
<1>8. ASSUME NEW s \in Streams, Receive(s) PROVE Dashboard!See(s)
  <2> DEFINE e == Head(channel[handler[s].id].buffer)
  <2>1. /\ handler[s].phase = "streaming" /\ e \in handler[s].last + 1 .. broadcast
        /\ UNCHANGED <<broadcast, closed>>
    BY <1>8, NextEventIsNewer DEF Receive
  <2>2. /\ \A t \in Streams \ {s} : handler'[t] = handler[t]
        /\ handler'[s].phase = "streaming" /\ handler'[s].last = e
    BY <1>8 DEF Receive, IInv, TypeInv, TypeOK
  <2>3. View[s].on /\ View[s].last = handler[s].last /\ View[s] = [on |-> TRUE, last |-> handler[s].last]
    BY <2>1 DEF View
  <2> HIDE DEF e
  <2>4. View' = [View EXCEPT ![s] = [on |-> TRUE, last |-> e]]
    BY <2>2, ViewStep
  <2>5. View' = [View EXCEPT ![s].last = e]
    BY <2>3, <2>4
  <2> QED BY <2>1, <2>3, <2>5 DEF Dashboard!See, View
<1>9. ASSUME NEW s \in Streams, SeesClosed(s) \/ Disconnect(s) PROVE Dashboard!End(s)
  <2>1. /\ \A t \in Streams \ {s} : handler'[t] = handler[t]
        /\ handler[s].phase = "streaming" /\ handler'[s].phase # "streaming"
        /\ UNCHANGED <<broadcast, closed>>
    BY <1>9 DEF SeesClosed, Disconnect, IInv, TypeInv, TypeOK
  <2>2. View' = [View EXCEPT ![s] = [on |-> FALSE, last |-> 0]]
    BY <2>1, ViewStep
  <2> QED BY <2>1, <2>2 DEF Dashboard!End, Dashboard!Off, View
<1>10. ASSUME NEW s \in Streams, Remove(s) PROVE UNCHANGED <<broadcast, closed, View>>
  <2>1. \A t \in Streams : /\ handler'[t].phase = "streaming" <=> handler[t].phase = "streaming"
                           /\ handler[t].phase = "streaming" => handler'[t].last = handler[t].last
    BY <1>10 DEF Remove, Idle, IInv, TypeInv, TypeOK
  <2> QED BY <1>10, <2>1, ViewFrame DEF Remove
<1>11. CASE UNCHANGED vars
  BY <1>11, ViewFrame DEF vars
<1> QED BY <1>1, <1>2, <1>3, <1>4, <1>5, <1>6, <1>7, <1>8, <1>9, <1>10, <1>11
    DEF Next, Publish, Close, Stream

(* The broadcaster implements the abstract stream for any number of        *)
(* publishers and dashboards and any buffer length: events reach each      *)
(* dashboard in order, at most once, and none from before it connected.    *)
THEOREM StreamImplemented == Spec => ImplementsStream
<1>1. Init => Dashboard!Init
  BY DEF Init, Idle, Dashboard!Init, Dashboard!Off
<1> QED BY <1>1, StepRefines, InvCorrect, PTL DEF Spec, ImplementsStream, Dashboard!Spec

-----------------------------------------------------------------------------
(* After the shutdown nothing is left open: every channel that was handed  *)
(* out is closed, so that its reader finds the end, and none is registered *)
(* any more.  StreamsEnd follows if the readers go on.                     *)
NothingOpen ==
    closed /\ mutex # Main => subscribers = {} /\ \A i \in Ids : ~channel[i].open

(* Why: an open channel is registered, the loop of Close still has to      *)
(* visit all that are registered, and a closed broadcaster registers none. *)
Shutting ==
    /\ \A i \in Ids : channel[i].open => i \in subscribers
    /\ mutex = Main => closed /\ loop = subscribers
    /\ closed /\ mutex # Main => subscribers = {} /\ mutex = None

LEMMA ShuttingStep == IInv /\ Shutting /\ [Next]_vars => Shutting'
<1> SUFFICES ASSUME IInv, Shutting, [Next]_vars PROVE Shutting'
  OBVIOUS
<1> USE GoroutineAssumption DEF IInv, TypeInv, TypeOK, Shutting, map
<1>1. ASSUME NEW p \in Publishers, BeginBroadcast(p) \/ EndBroadcast(p) PROVE Shutting'
  BY <1>1 DEF BeginBroadcast, EndBroadcast
<1>2. ASSUME NEW p \in Publishers, NEW i \in Ids, Deliver(p, i) PROVE Shutting'
  <2>1. channel[i] \in Channel /\ broadcast \in Events
    BY <1>2 DEF Deliver
  <2>2. Offered(channel[i], broadcast).open = channel[i].open
    BY <2>1, OfferFacts
  <2>3. \A k \in Ids : channel'[k].open = channel[k].open
    BY <1>2, <2>2 DEF Deliver
  <2> QED
    BY <1>2, <2>3 DEF Deliver
<1>3. CASE BeginClose \/ EndClose
  BY <1>3 DEF BeginClose, EndClose
<1>4. ASSUME NEW i \in Ids, CloseChannel(i) PROVE Shutting'
  <2>1. channel[i] \in Channel
    OBVIOUS
  <2>2. ~channel'[i].open /\ \A k \in Ids \ {i} : channel'[k] = channel[k]
    BY <1>4, <2>1 DEF CloseChannel, Shut, Channel
  <2> QED
    BY <1>4, <2>2 DEF CloseChannel
<1>5. ASSUME NEW s \in Streams, Subscribe(s) PROVE Shutting'
  <2>1. \A k \in Ids \ {nextID} : channel'[k] = channel[k]
    BY <1>5 DEF Subscribe
  <2> QED
    BY <1>5, <2>1 DEF Subscribe, MayRegister
<1>6. ASSUME NEW s \in Streams, Receive(s) PROVE Shutting'
  <2>1. \A k \in Ids : channel'[k].open = channel[k].open
    BY <1>6 DEF Receive, Channel
  <2> QED
    BY <1>6, <2>1 DEF Receive
<1>7. ASSUME NEW s \in Streams, SeesClosed(s) \/ Disconnect(s) PROVE Shutting'
  BY <1>7 DEF SeesClosed, Disconnect
<1>8. ASSUME NEW s \in Streams, Remove(s) PROVE Shutting'
  <2>1. CASE UNCHANGED <<subscribers, channel>>
    BY <1>8, <2>1 DEF Remove
  <2>2. ASSUME NEW i \in Ids, i = handler[s].id, subscribers' = subscribers \ {i}, Shut(i)
        PROVE  Shutting'
    <3>1. ~channel'[i].open /\ \A k \in Ids \ {i} : channel'[k] = channel[k]
      BY <2>2 DEF Shut, Channel
    <3> QED
      BY <1>8, <2>2, <3>1 DEF Remove
  <2>3. handler[s].id \in Ids
    BY <1>8 DEF Remove
  <2> QED
    BY <1>8, <2>1, <2>2, <2>3 DEF Remove
<1>9. CASE UNCHANGED vars
  BY <1>9 DEF vars
<1> QED
  BY <1>1, <1>2, <1>3, <1>4, <1>5, <1>6, <1>7, <1>8, <1>9 DEF Next, Publish, Close, Stream

(* After Close no stream of a dashboard is left with an open channel, for  *)
(* any number of publishers and dashboards that come and go meanwhile.     *)
THEOREM CloseReachesAll == Spec => []NothingOpen
<1>1. Init => Shutting
  BY GoroutineAssumption DEF Init, Shutting
<1>2. IInv /\ Shutting => NothingOpen
  BY DEF Shutting, NothingOpen
<1>3. IInv /\ [Next]_vars => IInv'
  BY TypeStep, RegisteredStep, SettledStep DEF IInv, Settled
<1> QED
  BY InitInv, ShuttingStep, <1>1, <1>2, <1>3, PTL DEF Spec

=============================================================================
