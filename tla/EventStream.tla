---------------------------- MODULE EventStream ----------------------------
(***************************************************************************)
(* The engine's event stream to one client: the broadcast of all events,   *)
(* the forwarder of a connection with its subscriptions and bounded queue  *)
(* (qaio-engine-server/src/ws.rs), and EngineWebSocket, which reconnects   *)
(* and subscribes again (ui/engine-client/src/ws.ts), under a client that  *)
(* refetches what an event or a reconnect tells it is stale                *)
(* (mobile/src/hooks/use-engine-invalidation.ts).                          *)
(***************************************************************************)
EXTENDS Naturals, Sequences, FiniteSets, SequencesExt

CONSTANTS
  Topics,      \* topics of sessions
  Firehose,    \* "*"
  Capacities,  \* what OUTBOUND_CAPACITY may be
  Broadcast,   \* capacity of the broadcast channel
  MaxEvents,   \* bound: events emitted
  MaxDrops,    \* bound: connections lost
  MaxChanges   \* bound: calls of subscribe and unsubscribe

ASSUME StreamAssumption ==
  /\ Capacities \cup {Broadcast} \subseteq Nat \ {0}
  /\ {MaxEvents, MaxDrops, MaxChanges} \subseteq Nat
  /\ Firehose \notin Topics
  /\ IsFiniteSet(Topics)

VARIABLES
  emitted,      \* the events of the engine, in the order of emission
  cursor,       \* events the forwarder's broadcast receiver has passed
  topics,       \* the connection's subscriptions at the engine
  out,          \* the connection's outbound queue
  marking,      \* the forwarder has dropped an event and not tried its marker
  pending,      \* pending_status: the newest event of a topic that waits, or 0
  requests,     \* sub and unsub frames on their way to the engine
  conn,         \* the client's socket
  subscribed,   \* EngineWebSocket.subscribed
  connectedOnce,\* EngineWebSocket.hasConnectedOnce
  refetching,   \* the client's queries are invalidated
  capacity,     \* OUTBOUND_CAPACITY, fixed from the start
  drops, changes

(***************************************************************************)
(* History: the newest event that arrived on the present connection, of    *)
(* the statuses of a session and (as Firehose) of all other events; and    *)
(* the events the client is owed: it was subscribed to them when they were *)
(* emitted, after its first connect, and has not read the engine's state   *)
(* since. What the code loses is struck off (Lose): an event dropped on    *)
(* overflow, skipped by a lagging receiver, or passed over while the sub   *)
(* frame that asks for its topic was on its way.                           *)
(***************************************************************************)
VARIABLES newest, owed

engineVars  == <<emitted, cursor, topics, out, marking, pending>>
clientVars  == <<conn, subscribed, connectedOnce, refetching>>
boundVars   == <<capacity, drops, changes>>
historyVars == <<newest, owed>>
vars == <<engineVars, requests, clientVars, boundVars, historyVars>>

Kinds == {"status", "delta", "other"}
Event == [kind : Kinds, topic : Topics]
Filters == Topics \cup {Firehose}
Indices == 1..MaxEvents
Lag == 0   \* a LagMarker in the queue; an event stands there as its index

TypeOK ==
  /\ emitted \in Seq(Event) /\ Len(emitted) <= MaxEvents
  /\ cursor \in 0..Len(emitted)
  /\ topics \subseteq Filters
  /\ out \in Seq(Indices \cup {Lag}) /\ Len(out) <= capacity
  /\ marking \in BOOLEAN
  /\ pending \in [Topics -> 0..MaxEvents]
  /\ requests \in Seq([op : {"sub", "unsub"}, topics : SUBSET Filters])
  /\ conn \in {"waiting", "upgraded", "open"}
  /\ subscribed \subseteq Filters
  /\ connectedOnce \in BOOLEAN /\ refetching \in BOOLEAN
  /\ capacity \in Capacities
  /\ drops \in 0..MaxDrops /\ changes \in 0..MaxChanges
  /\ newest \in [Filters -> 0..MaxEvents] /\ owed \subseteq Indices

Nothing == [t \in Topics |-> 0]
NoArrival == [c \in Filters |-> 0]
Init ==
  /\ emitted = <<>> /\ cursor = 0
  /\ topics = {} /\ out = <<>> /\ marking = FALSE /\ pending = Nothing /\ requests = <<>>
  /\ conn = "waiting" /\ connectedOnce = FALSE
  /\ subscribed \in {{Firehose}, Topics}   \* subscribe comes before connect
  /\ refetching = FALSE
  /\ capacity \in Capacities /\ drops = 0 /\ changes = 0
  /\ newest = NoArrival /\ owed = {}
-----------------------------------------------------------------------------
IsSubscribed(S, t) == Firehose \in S \/ t \in S
Channel(n) == IF emitted[n].kind = "status" THEN emitted[n].topic ELSE Firehose
Waiting(P) == {t \in Topics : P[t] # 0}

(* BroadcastEventSink::emit. *)
Emit(e) ==
  /\ Len(emitted) < MaxEvents
  /\ emitted' = Append(emitted, e)
  /\ owed' = IF connectedOnce /\ IsSubscribed(subscribed, e.topic)
               THEN owed \cup {Len(emitted) + 1} ELSE owed
  /\ UNCHANGED <<cursor, topics, out, marking, pending, requests, clientVars, boundVars, newest>>

(***************************************************************************)
(* send_lag_marker: tried once; a full queue swallows it. After an         *)
(* overflow it finds room only if the socket takes a frame meanwhile.      *)
(***************************************************************************)
WithLagMarker(q) == IF Len(q) < capacity THEN Append(q, Lag) ELSE q

Lose(S) == owed' = owed \ S

TryMarker ==
  /\ marking
  /\ marking' = FALSE
  /\ out' = WithLagMarker(out)
  /\ UNCHANGED <<emitted, cursor, topics, pending, owed>>

(* The broadcast receiver has fallen behind: it skips to the oldest event kept. *)
Lagged ==
  /\ Len(emitted) - cursor > Broadcast
  /\ cursor' = Len(emitted) - Broadcast
  /\ out' = WithLagMarker(out)
  /\ Lose(cursor + 1 .. Len(emitted) - Broadcast)
  /\ UNCHANGED <<emitted, topics, marking, pending>>

AskedFor(t) ==
  \E k \in DOMAIN requests : requests[k].op = "sub" /\ IsSubscribed(requests[k].topics, t)

(* The connection does not listen to the event's topic, or not yet. *)
PassOver(n) ==
  /\ ~IsSubscribed(topics, emitted[n].topic)
  /\ Lose(IF AskedFor(emitted[n].topic) THEN {n} ELSE {})
  /\ UNCHANGED <<out, marking, pending>>

(***************************************************************************)
(* The queue takes the frame; the statuses that wait follow it in the      *)
(* order of a hash map. The first that finds the queue full again is put   *)
(* back, and those after it are gone.                                      *)
(***************************************************************************)
Enqueue(n) ==
  /\ Len(out) < capacity
  /\ \E order \in SetToSeqs(Waiting(pending)) :
       LET room == capacity - Len(out) - 1
           sent == SubSeq(order, 1, IF Len(order) < room THEN Len(order) ELSE room)
           back == IF Len(order) > room THEN {order[room + 1]} ELSE {}
       IN /\ out' = Append(out, n) \o [k \in DOMAIN sent |-> pending[sent[k]]]
          /\ pending' = [t \in Topics |-> IF t \in back THEN pending[t] ELSE 0]
          /\ Lose({pending[t] : t \in Waiting(pending) \ (back \cup ToSet(sent))})
          /\ UNCHANGED marking

(***************************************************************************)
(* The queue is full: a streaming delta is dropped, a status replaces the  *)
(* one of its topic that waits, anything else is dropped with a marker.    *)
(* Bug: everything but a delta is kept for later, one event by topic.      *)
(***************************************************************************)
Overflow_KeepsOthers(n) ==
  /\ Len(out) = capacity
  /\ IF emitted[n].kind = "delta" THEN Lose({n}) /\ UNCHANGED pending
     ELSE pending' = [pending EXCEPT ![emitted[n].topic] = n] /\ UNCHANGED owed
  /\ UNCHANGED <<out, marking>>
Overflow(n) ==
  /\ Len(out) = capacity
  /\ IF emitted[n].kind = "status"
       THEN pending' = [pending EXCEPT ![emitted[n].topic] = n] /\ UNCHANGED owed
       ELSE Lose({n}) /\ UNCHANGED pending
  /\ marking' = (emitted[n].kind = "other")
  /\ UNCHANGED out

(* One turn of the loop of forward_events. *)
Forward ==
  /\ conn # "waiting"
  /\ \/ TryMarker
     \/ ~marking /\ Lagged
     \/ /\ ~marking /\ cursor < Len(emitted) /\ Len(emitted) - cursor <= Broadcast
        /\ cursor' = cursor + 1
        /\ \/ PassOver(cursor + 1)
           \/ IsSubscribed(topics, emitted[cursor + 1].topic)
              /\ (Enqueue(cursor + 1) \/ Overflow(cursor + 1))
        /\ UNCHANGED <<emitted, topics>>
  /\ UNCHANGED <<requests, clientVars, boundVars, newest>>

(***************************************************************************)
(* handle_client_frame.                                                    *)
(* Bug: a sub frame is taken for the whole set of subscriptions.           *)
(***************************************************************************)
HandleClientFrame_Replaces ==
  /\ requests # <<>>
  /\ topics' = IF Head(requests).op = "sub" THEN Head(requests).topics
               ELSE topics \ Head(requests).topics
  /\ requests' = Tail(requests)
  /\ UNCHANGED <<emitted, cursor, out, marking, pending, clientVars, boundVars, historyVars>>
HandleClientFrame ==
  /\ requests # <<>>
  /\ topics' = IF Head(requests).op = "sub" THEN topics \cup Head(requests).topics
               ELSE topics \ Head(requests).topics
  /\ requests' = Tail(requests)
  /\ UNCHANGED <<emitted, cursor, out, marking, pending, clientVars, boundVars, historyVars>>
-----------------------------------------------------------------------------
(* ws_upgrade: the connection's receiver starts with the next event. *)
Upgrade ==
  /\ conn = "waiting"
  /\ conn' = "upgraded"
  /\ cursor' = Len(emitted)
  /\ UNCHANGED <<emitted, topics, out, marking, pending, requests, subscribed, connectedOnce,
                 refetching, boundVars, historyVars>>

Request(op, S) ==
  requests' = IF conn' = "open" /\ S # {} THEN Append(requests, [op |-> op, topics |-> S])
              ELSE requests

(***************************************************************************)
(* onopen: subscribe to all topics, and on a reconnect run the handlers.   *)
(* Bug: the handlers run on the first connect only.                        *)
(***************************************************************************)
OnOpen_Once ==
  /\ conn = "upgraded"
  /\ conn' = "open"
  /\ Request("sub", subscribed)
  /\ refetching' = (refetching \/ ~connectedOnce)
  /\ connectedOnce' = TRUE
  /\ UNCHANGED <<engineVars, subscribed, boundVars, historyVars>>
OnOpen ==
  /\ conn = "upgraded"
  /\ conn' = "open"
  /\ Request("sub", subscribed)
  /\ refetching' = (refetching \/ connectedOnce)
  /\ connectedOnce' = TRUE
  /\ UNCHANGED <<engineVars, subscribed, boundVars, historyVars>>

Subscribe(x) ==
  /\ changes < MaxChanges /\ changes' = changes + 1
  /\ x \notin subscribed
  /\ subscribed' = subscribed \cup {x}
  /\ conn' = conn
  /\ Request("sub", {x})
  /\ UNCHANGED <<engineVars, connectedOnce, refetching, capacity, drops,
                 historyVars>>

Unsubscribe(x) ==
  /\ changes < MaxChanges /\ changes' = changes + 1
  /\ x \in subscribed
  /\ subscribed' = subscribed \ {x}
  /\ conn' = conn
  /\ Request("unsub", {x})
  /\ owed' = {n \in owed : IsSubscribed(subscribed', emitted[n].topic)}
  /\ UNCHANGED <<engineVars, connectedOnce, refetching, capacity, drops, newest>>

(* onmessage: an event invalidates queries; a LagMarker does nothing. *)
OnMessage ==
  /\ conn = "open" /\ out # <<>>
  /\ out' = Tail(out)
  /\ IF Head(out) = Lag THEN UNCHANGED <<refetching, newest>>
     ELSE
       /\ refetching' = TRUE
       /\ newest' = [newest EXCEPT ![Channel(Head(out))] = Head(out)]
  /\ UNCHANGED <<emitted, cursor, topics, marking, pending, requests, conn, subscribed,
                 connectedOnce, boundVars, owed>>

(* The invalidated queries read the engine's state. *)
Refetch ==
  /\ refetching
  /\ refetching' = FALSE
  /\ owed' = {}
  /\ UNCHANGED <<engineVars, requests, conn, subscribed, connectedOnce, boundVars,
                 newest>>

(* The connection is lost with all that is in it; onclose sets the timer. *)
OnClose ==
  /\ conn # "waiting" /\ drops < MaxDrops
  /\ drops' = drops + 1
  /\ conn' = "waiting"
  /\ topics' = {} /\ out' = <<>> /\ marking' = FALSE /\ pending' = Nothing
  /\ requests' = <<>> /\ newest' = NoArrival
  /\ UNCHANGED <<emitted, cursor, subscribed, connectedOnce, refetching,
                 capacity, changes, owed>>

Next ==
  \/ \E e \in Event : Emit(e)
  \/ Forward \/ HandleClientFrame
  \/ Upgrade \/ OnOpen \/ OnMessage \/ Refetch \/ OnClose
  \/ \E x \in Filters : Subscribe(x) \/ Unsubscribe(x)

Spec == Init /\ [][Next]_vars
-----------------------------------------------------------------------------
(* The engine forwards exactly the topics the client asked for, once no
   request is on its way, however connections and calls interleave. *)
SubscriptionsAgree == conn = "open" /\ requests = <<>> => topics = subscribed

Quiet ==
  /\ conn = "open" /\ requests = <<>> /\ ~refetching
  /\ cursor = Len(emitted) /\ out = <<>> /\ ~marking /\ pending = Nothing

(* A quiet client has read the engine's state since every event it was
   subscribed to, those emitted while it was away included, with the two
   exceptions the code makes: events the connection dropped (its queue full or
   its receiver lagging), and events forwarded before the sub frame that asks
   for their topic arrived, be it that of a call of subscribe, of the first
   connect or of a reconnect, whose refetch does not wait for it. *)
QuietClientIsCurrent == Quiet => owed = {}

NotAStatus(n) == n # Lag /\ Channel(n) = Firehose

(* On one connection the events other than statuses are queued and arrive in
   the order of their emission, none twice, whatever overflows. *)
ArrivesInOrder ==
  \A k \in DOMAIN out : NotAStatus(out[k]) =>
    /\ newest[Firehose] < out[k]
    /\ \A l \in DOMAIN out : NotAStatus(out[l]) /\ k < l => out[k] < out[l]
=============================================================================
