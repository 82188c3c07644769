------------------------- MODULE EventStream_proofs -------------------------
(***************************************************************************)
(* Proofs about EventStream, for any topics, queue sizes and bounds: the   *)
(* types, with the bound of the outbound queue; that the subscriptions     *)
(* agree; that a quiet client has read what it waited for; and that the    *)
(* events which are not statuses arrive in order.                          *)
(***************************************************************************)
EXTENDS EventStream, SequenceTheorems, FiniteSetTheorems, TLAPS

(***************************************************************************)
(* What a turn of the loop leaves in the queue when it takes event n: the  *)
(* old frames, the event, and statuses that waited.                        *)
(***************************************************************************)
LEMMA EnqueueFacts ==
  ASSUME TypeOK, NEW n \in Indices, Enqueue(n)
  PROVE  /\ out' \in Seq(Indices \cup {Lag}) /\ Len(out') <= capacity
         /\ Len(out) + 1 <= Len(out')
         /\ \A k \in 1..Len(out) : out'[k] = out[k]
         /\ out'[Len(out) + 1] = n
         /\ \A k \in Len(out) + 2 .. Len(out') :
              \E t \in Topics : pending[t] # 0 /\ out'[k] = pending[t]
         /\ pending' \in [Topics -> 0..MaxEvents]
         /\ \A t \in Topics : pending'[t] \in {pending[t], 0}
         /\ owed' \subseteq owed
         /\ marking' = marking
<1>1. /\ out \in Seq(Indices \cup {Lag}) /\ Len(out) \in Nat
      /\ capacity \in Nat /\ Len(out) < capacity
      /\ pending \in [Topics -> 0..MaxEvents] /\ MaxEvents \in Nat
  BY StreamAssumption, LenProperties DEF TypeOK, Enqueue
<1>2. IsFiniteSet(Waiting(pending))
  BY StreamAssumption, FS_Subset DEF Waiting
<1>3. Cardinality(Waiting(pending)) \in Nat
  BY <1>2, FS_CardinalityType
<1> DEFINE room == capacity - Len(out) - 1
           size(order) == IF Len(order) < room THEN Len(order) ELSE room
           sent(order) == SubSeq(order, 1, size(order))
           back(order) == IF Len(order) > room THEN {order[room + 1]} ELSE {}
<1>4. PICK order \in SetToSeqs(Waiting(pending)) :
        /\ out' = Append(out, n) \o [k \in DOMAIN sent(order) |-> pending[sent(order)[k]]]
        /\ pending' = [t \in Topics |-> IF t \in back(order) THEN pending[t] ELSE 0]
        /\ Lose({pending[t] : t \in Waiting(pending) \ (back(order) \cup ToSet(sent(order)))})
        /\ UNCHANGED marking
  BY DEF Enqueue
<1>5. order \in [1..Cardinality(Waiting(pending)) -> Waiting(pending)]
  BY <1>4 DEF SetToSeqs
<1>6. order \in Seq(Waiting(pending))
  BY <1>3, <1>5, IsASeq
<1>7. /\ room \in Nat /\ Len(order) \in Nat
      /\ size(order) \in Nat /\ size(order) <= Len(order) /\ size(order) <= room
  BY <1>1, <1>6, LenProperties
<1>8. /\ sent(order) \in Seq(Waiting(pending)) /\ Len(sent(order)) = size(order)
      /\ \A k \in 1..size(order) : sent(order)[k] = order[k]
  <2>1. \A k \in 1..size(order) : order[k] \in Waiting(pending)
    BY <1>6, <1>7, ElementOfSeq
  <2>2. sent(order) \in Seq(Waiting(pending))
        /\ Len(sent(order)) = (IF 1 <= size(order) THEN size(order) - 1 + 1 ELSE 0)
        /\ \A k \in 1 .. size(order) - 1 + 1 : sent(order)[k] = order[1 + k - 1]
    BY <1>6, <1>7, SubSeqProperties
  <2> QED BY <1>7, <2>1, <2>2
<1> DEFINE s == sent(order)
           late == [k \in DOMAIN s |-> pending[s[k]]]
<1>9. /\ DOMAIN s = 1..size(order)
      /\ \A k \in 1..size(order) : s[k] \in Topics /\ pending[s[k]] # 0
  BY <1>7, <1>8, ElementOfSeq, LenProperties DEF Waiting
<1>10. /\ late \in Seq(Indices) /\ Len(late) = size(order)
       /\ \A k \in 1..size(order) : late[k] = pending[s[k]]
  <2>1. \A k \in 1..size(order) : pending[s[k]] \in Indices
    BY <1>1, <1>9 DEF Indices
  <2>2. late \in [1..size(order) -> Indices]
    BY <1>9, <2>1
  <2>3. \A k \in 1..size(order) : late[k] = pending[s[k]]
    BY <1>9
  <2> HIDE DEF s, late
  <2>4. late \in Seq(Indices)
    BY <1>7, <2>2, IsASeq
  <2>5. Len(late) \in Nat /\ DOMAIN late = 1..Len(late)
    BY <2>4, LenProperties
  <2>6. DOMAIN late = 1..size(order)
    BY <2>2
  <2>7. Len(late) = size(order)
    BY <1>7, <2>4, <2>6, LenProperties
  <2> QED BY <2>3, <2>4, <2>7
<1>11. /\ Append(out, n) \in Seq(Indices \cup {Lag}) /\ Len(Append(out, n)) = Len(out) + 1
       /\ \A k \in 1..Len(out) : Append(out, n)[k] = out[k]
       /\ Append(out, n)[Len(out) + 1] = n
  BY <1>1, AppendProperties
<1>12. out' = Append(out, n) \o late
  BY <1>4
<1> HIDE DEF s, late, room, size, sent, back
<1>13. late \in Seq(Indices \cup {Lag})
  BY <1>10, SeqMonotonic
<1> DEFINE a == Append(out, n)
<1>14. /\ a \in Seq(Indices \cup {Lag}) /\ Len(a) = Len(out) + 1
       /\ \A k \in 1..Len(out) : a[k] = out[k]
       /\ a[Len(out) + 1] = n
  BY <1>11
<1>15. out' = a \o late
  BY <1>12
<1> HIDE DEF a
<1>16. /\ a \o late \in Seq(Indices \cup {Lag})
       /\ Len(a \o late) = Len(a) + Len(late)
       /\ \A k \in 1 .. Len(a) + Len(late) :
            (a \o late)[k] = IF k <= Len(a) THEN a[k] ELSE late[k - Len(a)]
  BY <1>13, <1>14, ConcatProperties
<1>17. /\ out' \in Seq(Indices \cup {Lag})
       /\ Len(out') = Len(out) + 1 + size(order)
       /\ \A k \in 1 .. Len(out) + 1 + size(order) :
            out'[k] = IF k <= Len(out) + 1 THEN a[k] ELSE late[k - (Len(out) + 1)]
  BY <1>10, <1>14, <1>15, <1>16
<1>18. Len(out') <= capacity
  BY <1>1, <1>7, <1>17 DEF room
<1>19. \A k \in 1..Len(out) : out'[k] = out[k]
  BY <1>1, <1>7, <1>14, <1>17
<1>20. out'[Len(out) + 1] = n
  BY <1>1, <1>7, <1>14, <1>17
<1>21. \A k \in Len(out) + 2 .. Len(out') :
         \E t \in Topics : pending[t] # 0 /\ out'[k] = pending[t]
  <2> SUFFICES ASSUME NEW k \in Len(out) + 2 .. Len(out')
               PROVE  \E t \in Topics : pending[t] # 0 /\ out'[k] = pending[t]
    OBVIOUS
  <2> DEFINE j == k - (Len(out) + 1)
  <2>1. j \in 1..size(order) /\ out'[k] = late[j]
    BY <1>1, <1>7, <1>17
  <2> QED BY <1>9, <1>10, <2>1
<1>22. /\ pending' \in [Topics -> 0..MaxEvents]
       /\ \A t \in Topics : pending'[t] \in {pending[t], 0}
  BY <1>1, <1>4
<1>23. owed' \subseteq owed /\ marking' = marking
  BY <1>4 DEF Lose
<1> QED BY <1>1, <1>7, <1>17, <1>18, <1>19, <1>20, <1>21, <1>22, <1>23

LEMMA MarkerFacts ==
  ASSUME TypeOK
  PROVE  /\ WithLagMarker(out) \in Seq(Indices \cup {Lag})
         /\ Len(WithLagMarker(out)) <= capacity
         /\ Len(out) <= Len(WithLagMarker(out))
         /\ \A k \in 1..Len(out) : WithLagMarker(out)[k] = out[k]
         /\ \A k \in 1..Len(WithLagMarker(out)) :
              k > Len(out) => WithLagMarker(out)[k] = Lag
<1>1. /\ out \in Seq(Indices \cup {Lag}) /\ Len(out) \in Nat
      /\ capacity \in Nat /\ Len(out) <= capacity
  BY StreamAssumption, LenProperties DEF TypeOK
<1>2. /\ Append(out, Lag) \in Seq(Indices \cup {Lag}) /\ Len(Append(out, Lag)) = Len(out) + 1
      /\ \A k \in 1..Len(out) : Append(out, Lag)[k] = out[k]
      /\ Append(out, Lag)[Len(out) + 1] = Lag
  BY <1>1, AppendProperties
<1>3. CASE Len(out) < capacity
  BY <1>1, <1>2, <1>3 DEF WithLagMarker
<1>4. CASE ~(Len(out) < capacity)
  BY <1>1, <1>4 DEF WithLagMarker
<1> QED BY <1>3, <1>4

Requests == [op : {"sub", "unsub"}, topics : SUBSET Filters]

LEMMA RequestFacts ==
  ASSUME TypeOK, NEW op \in {"sub", "unsub"}, NEW S \in SUBSET Filters, Request(op, S)
  PROVE  /\ requests' \in Seq(Requests)
         /\ \/ requests' = requests /\ (conn' # "open" \/ S = {})
            \/ /\ conn' = "open" /\ S # {}
               /\ Len(requests') = Len(requests) + 1
               /\ \A k \in 1..Len(requests) : requests'[k] = requests[k]
               /\ requests'[Len(requests) + 1] = [op |-> op, topics |-> S]
<1>1. requests \in Seq(Requests)
  BY DEF TypeOK, Requests
<1> DEFINE r == [op |-> op, topics |-> S]
<1>2. r \in Requests
  BY DEF Requests
<1>3. requests' = IF conn' = "open" /\ S # {} THEN Append(requests, r) ELSE requests
  BY DEF Request
<1> HIDE DEF r
<1>4. /\ Append(requests, r) \in Seq(Requests) /\ Len(Append(requests, r)) = Len(requests) + 1
      /\ \A k \in 1..Len(requests) : Append(requests, r)[k] = requests[k]
      /\ Append(requests, r)[Len(requests) + 1] = r
  BY <1>1, <1>2, AppendProperties
<1>5. CASE conn' = "open" /\ S # {}
  <2>1. requests' = Append(requests, r)
    BY <1>3, <1>5
  <2> QED BY <1>4, <1>5, <2>1 DEF r
<1>6. CASE ~(conn' = "open" /\ S # {})
  BY <1>1, <1>3, <1>6
<1> QED BY <1>5, <1>6

(* The tail of a sequence, by its places.                                   *)
LEMMA TailFacts ==
  ASSUME NEW S, NEW q \in Seq(S), q # <<>>
  PROVE  /\ Len(q) \in Nat \ {0} /\ Head(q) = q[1] /\ q[1] \in S
         /\ Tail(q) \in Seq(S) /\ Len(Tail(q)) = Len(q) - 1
         /\ \A k \in 1 .. Len(q) - 1 : Tail(q)[k] = q[k + 1]
<1>1. /\ Head(q) \in S /\ Tail(q) \in Seq(S) /\ Len(Tail(q)) = Len(q) - 1
      /\ \A k \in 1..Len(Tail(q)) : Tail(q)[k] = q[k + 1]
  BY HeadTailProperties
<1>2. Len(q) \in Nat /\ (Len(q) = 0 => q = <<>>)
  BY LenProperties, EmptySeq
<1>3. Head(q) = q[1]
  BY <1>2
<1> QED BY <1>1, <1>2, <1>3

(***************************************************************************)
(* What a turn of the loop of forward_events does, by its cases.           *)
(***************************************************************************)
Taken(n) ==
  \/ PassOver(n)
  \/ IsSubscribed(topics, emitted[n].topic) /\ (Enqueue(n) \/ Overflow(n))

LEMMA ForwardTypes ==
  ASSUME TypeOK, Forward
  PROVE  TypeOK'
<1>1. /\ emitted' = emitted /\ topics' = topics /\ requests' = requests
      /\ conn' = conn /\ subscribed' = subscribed /\ connectedOnce' = connectedOnce
      /\ refetching' = refetching /\ capacity' = capacity /\ drops' = drops
      /\ changes' = changes /\ newest' = newest
  BY DEF Forward, TryMarker, Lagged, clientVars, boundVars
<1>2. /\ Len(emitted) \in Nat /\ cursor \in Nat /\ MaxEvents \in Nat /\ Broadcast \in Nat
      /\ cursor <= Len(emitted) /\ Len(emitted) <= MaxEvents
  BY StreamAssumption, LenProperties DEF TypeOK
<1>3. /\ cursor' \in 0..Len(emitted)
      /\ out' \in Seq(Indices \cup {Lag}) /\ Len(out') <= capacity
      /\ marking' \in BOOLEAN
      /\ pending' \in [Topics -> 0..MaxEvents]
      /\ owed' \subseteq owed
  <2>1. CASE TryMarker
    BY <2>1, MarkerFacts DEF TryMarker, TypeOK
  <2>2. CASE Lagged
    <3>1. Len(emitted) - Broadcast \in 0..Len(emitted)
      BY <1>2, <2>2 DEF Lagged
    <3> QED BY <2>2, <3>1, MarkerFacts DEF Lagged, Lose, TypeOK
  <2>3. CASE /\ cursor < Len(emitted) /\ cursor' = cursor + 1
             /\ Taken(cursor + 1)
    <3> DEFINE n == cursor + 1
    <3>1. n \in Indices /\ n \in 1..Len(emitted) /\ emitted[n] \in Event
      BY <1>2, <2>3, ElementOfSeq DEF Indices, TypeOK
    <3>2. cursor' \in 0..Len(emitted)
      BY <1>2, <2>3
    <3>3. CASE PassOver(n)
      BY <3>2, <3>3 DEF PassOver, Lose, TypeOK
    <3>4. CASE Enqueue(n)
      <4> HIDE DEF n
      <4>1. /\ out' \in Seq(Indices \cup {Lag}) /\ Len(out') <= capacity
            /\ pending' \in [Topics -> 0..MaxEvents] /\ owed' \subseteq owed
            /\ marking' = marking
        BY <3>1, <3>4, EnqueueFacts
      <4> QED BY <3>2, <4>1 DEF TypeOK
    <3>5. CASE Overflow(n)
      <4>1. emitted[n].topic \in Topics /\ n \in 0..MaxEvents
        BY <1>2, <3>1 DEF Event, Indices
      <4>2. pending' \in [Topics -> 0..MaxEvents]
        BY <3>5, <4>1 DEF Overflow, TypeOK
      <4>3. owed' \subseteq owed /\ marking' \in BOOLEAN /\ out' = out
        BY <3>5 DEF Overflow, Lose
      <4> QED BY <3>2, <4>2, <4>3 DEF TypeOK
    <3> QED BY <2>3, <3>3, <3>4, <3>5 DEF Taken
  <2> QED BY <2>1, <2>2, <2>3 DEF Forward, Taken
<1> QED BY <1>1, <1>3 DEF TypeOK

LEMMA TypesNext ==
  ASSUME TypeOK, [Next]_vars
  PROVE  TypeOK'
<1>0. /\ Len(emitted) \in Nat /\ cursor \in Nat /\ MaxEvents \in Nat
      /\ cursor <= Len(emitted) /\ Len(emitted) <= MaxEvents
      /\ MaxDrops \in Nat /\ MaxChanges \in Nat
  BY StreamAssumption, LenProperties DEF TypeOK
<1>1. ASSUME NEW e \in Event, Emit(e) PROVE TypeOK'
  <2>1. emitted' \in Seq(Event) /\ Len(emitted') = Len(emitted) + 1
    BY <1>1, AppendProperties DEF Emit, TypeOK
  <2>2. owed' \subseteq Indices
    <3>1. Len(emitted) + 1 \in Indices
      BY <1>0, <1>1 DEF Emit, Indices
    <3> QED BY <1>1, <3>1 DEF Emit, TypeOK
  <2>3. cursor \in 0..Len(emitted') /\ Len(emitted') <= MaxEvents
    BY <1>0, <1>1, <2>1 DEF Emit
  <2> QED BY <1>1, <2>1, <2>2, <2>3 DEF Emit, TypeOK, clientVars, boundVars
<1>2. CASE Forward
  BY <1>2, ForwardTypes
<1>3. CASE HandleClientFrame
  <2>1. requests \in Seq(Requests)
    BY DEF TypeOK, Requests
  <2>2. requests[1] \in Requests /\ Head(requests) = requests[1] /\ Tail(requests) \in Seq(Requests)
    BY <1>3, <2>1, TailFacts DEF HandleClientFrame
  <2>3. topics' \subseteq Filters
    BY <1>3, <2>2 DEF HandleClientFrame, Requests, TypeOK
  <2> QED BY <1>3, <2>2, <2>3 DEF HandleClientFrame, TypeOK, Requests, clientVars, boundVars, historyVars
<1>4. CASE Upgrade
  BY <1>0, <1>4 DEF Upgrade, TypeOK, boundVars, historyVars
<1>5. CASE OnOpen
  <2>1. requests' \in Seq(Requests)
    BY <1>5, RequestFacts DEF OnOpen, TypeOK
  <2> QED BY <1>5, <2>1 DEF OnOpen, TypeOK, Requests, engineVars, boundVars, historyVars
<1>6. CASE OnMessage
  <2>1. /\ Tail(out) \in Seq(Indices \cup {Lag}) /\ Len(Tail(out)) = Len(out) - 1
        /\ Head(out) \in Indices \cup {Lag} /\ Len(out) \in Nat
    BY <1>6, TailFacts DEF OnMessage, TypeOK
  <2>2. capacity \in Nat /\ Len(out) <= capacity
    BY StreamAssumption DEF TypeOK
  <2>3. Len(Tail(out)) <= capacity
    BY <2>1, <2>2
  <2>4. newest' \in [Filters -> 0..MaxEvents]
    BY <1>6, <2>1 DEF OnMessage, TypeOK, Indices, Lag
  <2> QED BY <1>6, <2>1, <2>3, <2>4 DEF OnMessage, TypeOK, boundVars
<1>7. CASE Refetch
  BY <1>7 DEF Refetch, TypeOK, engineVars, boundVars
<1>8. CASE OnClose
  <2>1. drops' \in 0..MaxDrops
    BY <1>0, <1>8 DEF OnClose, TypeOK
  <2>2. out' \in Seq(Indices \cup {Lag}) /\ Len(out') <= capacity
    BY <1>8, StreamAssumption, EmptySeq DEF OnClose, TypeOK
  <2>3. requests' \in Seq([op : {"sub", "unsub"}, topics : SUBSET Filters])
    BY <1>8, EmptySeq DEF OnClose
  <2>4. newest' \in [Filters -> 0..MaxEvents] /\ pending' \in [Topics -> 0..MaxEvents]
    BY <1>0, <1>8 DEF OnClose, NoArrival, Nothing
  <2> QED BY <1>8, <2>1, <2>2, <2>3, <2>4 DEF OnClose, TypeOK
<1>9. ASSUME NEW x \in Filters, Subscribe(x) PROVE TypeOK'
  <2>1. requests' \in Seq(Requests)
    BY <1>9, RequestFacts DEF Subscribe
  <2>2. changes' \in 0..MaxChanges
    BY <1>0, <1>9 DEF Subscribe, TypeOK
  <2> QED BY <1>9, <2>1, <2>2 DEF Subscribe, TypeOK, Requests, engineVars, historyVars
<1>10. ASSUME NEW x \in Filters, Unsubscribe(x) PROVE TypeOK'
  <2>1. requests' \in Seq(Requests)
    BY <1>10, RequestFacts DEF Unsubscribe
  <2>2. changes' \in 0..MaxChanges
    BY <1>0, <1>10 DEF Unsubscribe, TypeOK
  <2> QED BY <1>10, <2>1, <2>2 DEF Unsubscribe, TypeOK, Requests, engineVars
<1>11. CASE UNCHANGED vars
  BY <1>11 DEF vars, TypeOK, engineVars, clientVars, boundVars, historyVars
<1> QED
  BY <1>1, <1>2, <1>3, <1>4, <1>5, <1>6, <1>7, <1>8, <1>9, <1>10, <1>11 DEF Next

LEMMA TypesInit ==
  Init => TypeOK
<1> SUFFICES ASSUME Init PROVE TypeOK
  OBVIOUS
<1>1. /\ emitted \in Seq(Event) /\ Len(emitted) = 0
      /\ requests \in Seq([op : {"sub", "unsub"}, topics : SUBSET Filters])
      /\ out \in Seq(Indices \cup {Lag}) /\ Len(out) = 0
  BY EmptySeq DEF Init
<1>2. /\ MaxEvents \in Nat /\ MaxDrops \in Nat /\ MaxChanges \in Nat /\ capacity \in Nat
  BY StreamAssumption DEF Init
<1>3. newest \in [Filters -> 0..MaxEvents] /\ pending \in [Topics -> 0..MaxEvents]
  BY <1>2 DEF Init, NoArrival, Nothing
<1>4. cursor \in 0..Len(emitted) /\ drops \in 0..MaxDrops /\ changes \in 0..MaxChanges
  BY <1>1, <1>2 DEF Init
<1>5. /\ topics \subseteq Filters /\ subscribed \subseteq Filters /\ owed \subseteq Indices
      /\ marking \in BOOLEAN /\ connectedOnce \in BOOLEAN /\ refetching \in BOOLEAN
      /\ conn \in {"waiting", "upgraded", "open"} /\ capacity \in Capacities
  BY DEF Init, Filters
<1>6. Len(emitted) <= MaxEvents /\ Len(out) <= capacity
  BY <1>1, <1>2
<1> QED BY <1>1, <1>3, <1>4, <1>5, <1>6 DEF TypeOK

(***************************************************************************)
(* Every variable keeps its type, and the queue of a connection never      *)
(* holds more than OUTBOUND_CAPACITY frames: the marker and the statuses   *)
(* that follow a frame find room or wait.                                  *)
(***************************************************************************)
THEOREM StreamTypes == Spec => []TypeOK
  BY TypesInit, TypesNext, PTL DEF Spec
-----------------------------------------------------------------------------
(***************************************************************************)
(* The subscriptions. A request on its way is a debt of the engine: the    *)
(* last one about a filter says whether the client wants it, and a filter  *)
(* that no request mentions is already as the client wants it.             *)
(***************************************************************************)
Settled(x) ==
  (\A k \in DOMAIN requests : x \notin requests[k].topics)
    => (x \in topics <=> x \in subscribed)
LastWord(x, k) ==
  /\ x \in requests[k].topics
  /\ \A l \in DOMAIN requests : l > k => x \notin requests[l].topics
SubInv ==
  /\ conn # "open" => topics = {} /\ requests = <<>>
  /\ conn = "open" => \A x \in Filters : Settled(x)
  /\ conn = "open" => \A x \in Filters : \A k \in DOMAIN requests :
                        LastWord(x, k) => (requests[k].op = "sub" <=> x \in subscribed)

LEMMA SubUnchanged ==
  ASSUME SubInv, UNCHANGED <<conn, topics, requests, subscribed>>
  PROVE  SubInv'
BY DEF SubInv, Settled, LastWord

LEMMA SubHandle ==
  ASSUME TypeOK, SubInv, HandleClientFrame
  PROVE  SubInv'
<1>1. /\ requests \in Seq(Requests) /\ requests # <<>>
      /\ topics \subseteq Filters
  BY DEF TypeOK, Requests, HandleClientFrame
<1>2. /\ Len(requests) \in Nat \ {0} /\ DOMAIN requests = 1..Len(requests)
      /\ Head(requests) = requests[1] /\ requests[1] \in Requests
      /\ Tail(requests) \in Seq(Requests) /\ Len(Tail(requests)) = Len(requests) - 1
      /\ \A k \in 1 .. Len(requests) - 1 : Tail(requests)[k] = requests[k + 1]
  BY <1>1, TailFacts, LenProperties
<1>3. PICK q \in Seq(Requests) : q = Tail(requests)
  BY <1>2
<1>4. /\ requests' = q /\ Len(q) = Len(requests) - 1
      /\ DOMAIN q = 1..Len(q)
      /\ \A k \in 1..Len(q) : q[k] = requests[k + 1]
  BY <1>2, <1>3, LenProperties DEF HandleClientFrame
<1>5. /\ conn' = conn /\ subscribed' = subscribed
      /\ conn = "open"
      /\ topics' = IF requests[1].op = "sub" THEN topics \cup requests[1].topics
                   ELSE topics \ requests[1].topics
  BY <1>1, <1>2 DEF HandleClientFrame, clientVars, SubInv
<1>6. ASSUME NEW x \in Filters PROVE Settled(x)'
  <2> SUFFICES ASSUME \A k \in DOMAIN q : x \notin q[k].topics
               PROVE  x \in topics' <=> x \in subscribed
    BY <1>4, <1>5 DEF Settled
  <2>1. \A l \in DOMAIN requests : l > 1 => x \notin requests[l].topics
    <3> SUFFICES ASSUME NEW l \in DOMAIN requests, l > 1 PROVE x \notin requests[l].topics
      OBVIOUS
    <3>1. l - 1 \in 1..Len(q) /\ (l - 1) + 1 = l
      BY <1>2, <1>4
    <3> QED BY <1>4, <3>1
  <2>2. CASE x \in requests[1].topics
    <3>1. 1 \in DOMAIN requests
      BY <1>2
    <3>2. LastWord(x, 1)
      BY <2>1, <2>2 DEF LastWord
    <3>3. requests[1].op = "sub" <=> x \in subscribed
      BY <1>5, <3>1, <3>2 DEF SubInv
    <3> QED BY <1>5, <2>2, <3>3
  <2>3. CASE x \notin requests[1].topics
    <3>1. \A l \in DOMAIN requests : x \notin requests[l].topics
      BY <1>2, <2>1, <2>3
    <3> QED BY <1>5, <2>3, <3>1 DEF SubInv, Settled
  <2> QED BY <2>2, <2>3
<1>7. ASSUME NEW x \in Filters, NEW k \in DOMAIN q, LastWord(x, k)'
      PROVE  q[k].op = "sub" <=> x \in subscribed
  <2>1. /\ k + 1 \in DOMAIN requests /\ q[k] = requests[k + 1]
        /\ x \in q[k].topics
        /\ \A l \in DOMAIN q : l > k => x \notin q[l].topics
    BY <1>2, <1>4, <1>7 DEF LastWord
  <2>2. ASSUME NEW l \in DOMAIN requests, l > k + 1 PROVE x \notin requests[l].topics
    <3>1. l - 1 \in 1..Len(q) /\ (l - 1) + 1 = l /\ l - 1 > k
      BY <1>2, <1>4, <2>2
    <3> QED BY <1>4, <2>1, <3>1
  <2>3. LastWord(x, k + 1)
    BY <2>1, <2>2 DEF LastWord
  <2> QED BY <1>5, <2>1, <2>3 DEF SubInv
<1> QED BY <1>4, <1>5, <1>6, <1>7 DEF SubInv

(* The call of subscribe or unsubscribe with one filter, and the sub frame of onopen. *)
LEMMA SubRequest ==
  ASSUME TypeOK, SubInv, NEW op \in {"sub", "unsub"}, NEW S \in SUBSET Filters,
         Request(op, S), topics' = topics,
         \/ conn' = conn
         \/ conn = "upgraded" /\ conn' = "open" /\ subscribed \subseteq S,
         \A x \in S : x \in subscribed' <=> op = "sub",
         \A x \in Filters \ S : x \in subscribed' <=> x \in subscribed
  PROVE  SubInv'
<1>1. /\ Len(requests) \in Nat /\ DOMAIN requests = 1..Len(requests)
  BY LenProperties DEF TypeOK
<1>2. requests' \in Seq(Requests)
  BY RequestFacts
<1>3. PICK q \in Seq(Requests) : q = requests'
  BY <1>2
<1>4. /\ Len(q) \in Nat /\ DOMAIN q = 1..Len(q)
  BY LenProperties
<1>5. \/ q = requests /\ (conn' # "open" \/ S = {})
      \/ /\ conn' = "open" /\ S # {}
         /\ Len(q) = Len(requests) + 1
         /\ \A k \in 1..Len(requests) : q[k] = requests[k]
         /\ q[Len(requests) + 1] = [op |-> op, topics |-> S]
  BY <1>3, RequestFacts
<1>6. CASE q = requests /\ conn' # "open"
  BY <1>3, <1>6 DEF SubInv
<1>7. CASE q = requests /\ S = {} /\ conn' = "open"
  <2>1. \A x \in Filters : x \in subscribed' <=> x \in subscribed
    BY <1>7
  <2>2. CASE conn = "open"
    BY <1>3, <1>7, <2>1, <2>2 DEF SubInv, Settled, LastWord
  <2>3. CASE conn # "open"
    BY <1>3, <1>7, <2>1, <2>3 DEF SubInv, Settled, LastWord
  <2> QED BY <2>2, <2>3
<1>8. CASE /\ conn' = "open" /\ S # {}
           /\ Len(q) = Len(requests) + 1
           /\ \A k \in 1..Len(requests) : q[k] = requests[k]
           /\ q[Len(requests) + 1] = [op |-> op, topics |-> S]
  <2> DEFINE m == Len(requests) + 1
  <2>1. /\ m \in DOMAIN q /\ q[m].topics = S /\ q[m].op = op
        /\ \A k \in DOMAIN q :
             k # m => k \in DOMAIN requests /\ k < m /\ q[k] = requests[k]
        /\ DOMAIN requests \subseteq DOMAIN q
    BY <1>1, <1>4, <1>8
  <2>2. \A x \in Filters : x \notin S => (x \in topics <=> x \in subscribed) \/ conn = "open"
    BY <1>8 DEF SubInv
  <2> HIDE DEF m
  <2>3. ASSUME NEW x \in Filters PROVE Settled(x)'
    <3> SUFFICES ASSUME \A k \in DOMAIN q : x \notin q[k].topics
                 PROVE  x \in topics <=> x \in subscribed'
      BY <1>3 DEF Settled
    <3>1. x \notin S
      BY <2>1
    <3>2. \A k \in DOMAIN requests : x \notin requests[k].topics
      BY <1>8, <2>1, <1>1
    <3>3. x \in topics <=> x \in subscribed
      BY <2>2, <3>1, <3>2 DEF SubInv, Settled
    <3> QED BY <3>1, <3>3
  <2>4. ASSUME NEW x \in Filters, NEW k \in DOMAIN q, LastWord(x, k)'
        PROVE  q[k].op = "sub" <=> x \in subscribed'
    <3>1. /\ x \in q[k].topics
          /\ \A l \in DOMAIN q : l > k => x \notin q[l].topics
      BY <1>3, <2>4 DEF LastWord
    <3>2. CASE k = m
      BY <2>1, <3>1, <3>2
    <3>3. CASE k # m
      <4>1. k \in DOMAIN requests /\ k < m /\ q[k] = requests[k]
        BY <2>1, <3>3
      <4>2. x \notin S /\ m > k
        BY <1>1, <2>1, <3>1, <4>1 DEF m
      <4>3. \A l \in DOMAIN requests : l > k => x \notin requests[l].topics
        BY <1>1, <1>8, <2>1, <3>1
      <4>4. LastWord(x, k)
        BY <3>1, <4>1, <4>3 DEF LastWord
      <4>5. conn = "open"
        <5>1. requests # <<>>
          BY <1>1, <4>1
        <5> QED BY <5>1 DEF SubInv
      <4> QED BY <4>1, <4>2, <4>4, <4>5 DEF SubInv
    <3> QED BY <3>2, <3>3
  <2> QED BY <1>3, <1>8, <2>3, <2>4 DEF SubInv
<1> QED BY <1>5, <1>6, <1>7, <1>8

LEMMA SubNext ==
  ASSUME TypeOK, SubInv, [Next]_vars
  PROVE  SubInv'
<1>1. ASSUME NEW e \in Event, Emit(e) PROVE SubInv'
  BY <1>1, SubUnchanged DEF Emit, clientVars
<1>2. CASE Forward
  BY <1>2, SubUnchanged DEF Forward, TryMarker, Lagged, clientVars
<1>3. CASE HandleClientFrame
  BY <1>3, SubHandle
<1>4. CASE Upgrade
  BY <1>4 DEF Upgrade, SubInv
<1>5. CASE OnOpen
  <2>1. /\ conn = "upgraded" /\ conn' = "open" /\ topics' = topics /\ subscribed' = subscribed
        /\ subscribed \in SUBSET Filters /\ Request("sub", subscribed)
    BY <1>5 DEF OnOpen, engineVars, TypeOK
  <2> QED BY <2>1, SubRequest
<1>6. CASE OnMessage
  BY <1>6, SubUnchanged DEF OnMessage
<1>7. CASE Refetch
  BY <1>7, SubUnchanged DEF Refetch, engineVars
<1>8. CASE OnClose
  BY <1>8 DEF OnClose, SubInv
<1>9. ASSUME NEW x \in Filters, Subscribe(x) PROVE SubInv'
  <2>1. /\ conn' = conn /\ topics' = topics /\ subscribed' = subscribed \cup {x}
        /\ {x} \in SUBSET Filters /\ Request("sub", {x})
    BY <1>9 DEF Subscribe, engineVars
  <2>2. /\ \A y \in {x} : y \in subscribed' <=> "sub" = "sub"
        /\ \A y \in Filters \ {x} : y \in subscribed' <=> y \in subscribed
    BY <2>1
  <2> QED BY <2>1, <2>2, SubRequest
<1>10. ASSUME NEW x \in Filters, Unsubscribe(x) PROVE SubInv'
  <2>1. /\ conn' = conn /\ topics' = topics /\ subscribed' = subscribed \ {x}
        /\ {x} \in SUBSET Filters /\ Request("unsub", {x})
    BY <1>10 DEF Unsubscribe, engineVars
  <2>2. /\ \A y \in {x} : y \in subscribed' <=> "unsub" = "sub"
        /\ \A y \in Filters \ {x} : y \in subscribed' <=> y \in subscribed
    BY <2>1
  <2> QED BY <2>1, <2>2, SubRequest
<1>11. CASE UNCHANGED vars
  BY <1>11, SubUnchanged DEF vars, engineVars, clientVars
<1> QED
  BY <1>1, <1>2, <1>3, <1>4, <1>5, <1>6, <1>7, <1>8, <1>9, <1>10, <1>11 DEF Next

LEMMA SubInit ==
  Init => SubInv
BY DEF Init, SubInv

(***************************************************************************)
(* A filter that some request mentions has a last word.                    *)
(***************************************************************************)
LastInv ==
  \A x \in Filters :
    (\E k \in DOMAIN requests : x \in requests[k].topics) => \E k \in DOMAIN requests : LastWord(x, k)

LEMMA LastInit ==
  Init => LastInv
BY DEF Init, LastInv

LEMMA LastHandle ==
  ASSUME TypeOK, LastInv, HandleClientFrame
  PROVE  LastInv'
<1>1. /\ requests \in Seq(Requests) /\ requests # <<>> /\ requests' = Tail(requests)
  BY DEF TypeOK, Requests, HandleClientFrame
<1>2. /\ Len(requests) \in Nat \ {0} /\ DOMAIN requests = 1..Len(requests)
      /\ Tail(requests) \in Seq(Requests) /\ Len(Tail(requests)) = Len(requests) - 1
      /\ \A k \in 1 .. Len(requests) - 1 : Tail(requests)[k] = requests[k + 1]
  BY <1>1, TailFacts, LenProperties
<1>3. PICK q \in Seq(Requests) : q = Tail(requests)
  BY <1>2
<1>4. /\ requests' = q /\ Len(q) = Len(requests) - 1 /\ DOMAIN q = 1..Len(q)
      /\ \A k \in 1..Len(q) : q[k] = requests[k + 1]
  BY <1>1, <1>2, <1>3, LenProperties
<1>5. ASSUME NEW x \in Filters, NEW k \in DOMAIN q, x \in q[k].topics
      PROVE  \E j \in DOMAIN q : LastWord(x, j)'
  <2>1. k + 1 \in DOMAIN requests /\ x \in requests[k + 1].topics
    BY <1>2, <1>4, <1>5
  <2>2. PICK m \in DOMAIN requests : LastWord(x, m)
    BY <2>1 DEF LastInv
  <2>3. m > 1
    <3>1. ~(k + 1 > m)
      BY <2>1, <2>2 DEF LastWord
    <3> QED BY <1>2, <1>4, <3>1
  <2>4. m - 1 \in DOMAIN q /\ q[m - 1] = requests[m]
    <3>1. m - 1 \in 1..Len(q) /\ (m - 1) + 1 = m
      BY <1>2, <1>4, <2>3
    <3> QED BY <1>4, <3>1
  <2>5. ASSUME NEW l \in DOMAIN q, l > m - 1 PROVE x \notin q[l].topics
    <3>1. l + 1 \in DOMAIN requests /\ l + 1 > m
      BY <1>2, <1>4, <2>5
    <3> QED BY <1>4, <2>2, <3>1 DEF LastWord
  <2> QED BY <1>4, <2>2, <2>4, <2>5 DEF LastWord
<1> QED BY <1>4, <1>5 DEF LastInv

LEMMA LastRequest ==
  ASSUME TypeOK, LastInv, NEW op \in {"sub", "unsub"}, NEW S \in SUBSET Filters, Request(op, S)
  PROVE  LastInv'
<1>1. Len(requests) \in Nat /\ DOMAIN requests = 1..Len(requests)
  BY LenProperties DEF TypeOK
<1>2. PICK q \in Seq(Requests) : q = requests'
  BY RequestFacts
<1>3. Len(q) \in Nat /\ DOMAIN q = 1..Len(q)
  BY LenProperties
<1>4. \/ q = requests
      \/ /\ Len(q) = Len(requests) + 1
         /\ \A k \in 1..Len(requests) : q[k] = requests[k]
         /\ q[Len(requests) + 1] = [op |-> op, topics |-> S]
  BY <1>2, RequestFacts
<1>5. CASE q = requests
  BY <1>2, <1>5 DEF LastInv, LastWord
<1>6. CASE /\ Len(q) = Len(requests) + 1
           /\ \A k \in 1..Len(requests) : q[k] = requests[k]
           /\ q[Len(requests) + 1] = [op |-> op, topics |-> S]
  <2>1. PICK m \in Nat : m = Len(requests) + 1
    BY <1>1
  <2>2. m \in DOMAIN q /\ q[m].topics = S /\ \A l \in DOMAIN q : ~(l > m)
    BY <1>1, <1>3, <1>6, <2>1
  <2>3. \A k \in DOMAIN q : k # m => k \in DOMAIN requests /\ q[k] = requests[k]
    BY <1>1, <1>3, <1>6, <2>1
  <2>4. ASSUME NEW x \in Filters, NEW k \in DOMAIN q, x \in q[k].topics
        PROVE  \E j \in DOMAIN q : LastWord(x, j)'
    <3>1. CASE x \in S
      BY <1>2, <2>2, <3>1 DEF LastWord
    <3>2. CASE x \notin S
      <4>1. k # m
        BY <2>2, <2>4, <3>2
      <4>2. PICK j \in DOMAIN requests : LastWord(x, j)
        BY <2>3, <2>4, <4>1 DEF LastInv
      <4>3. j \in DOMAIN q /\ q[j] = requests[j]
        BY <1>1, <1>3, <1>6
      <4>4. \A l \in DOMAIN q : l > j => x \notin q[l].topics
        BY <2>2, <2>3, <3>2, <4>2 DEF LastWord
      <4> QED BY <1>2, <4>2, <4>3, <4>4 DEF LastWord
    <3> QED BY <3>1, <3>2
  <2> QED BY <1>2, <2>4 DEF LastInv
<1> QED BY <1>4, <1>5, <1>6

LEMMA LastNext ==
  ASSUME TypeOK, LastInv, [Next]_vars
  PROVE  LastInv'
<1>1. ASSUME UNCHANGED requests PROVE LastInv'
  BY <1>1 DEF LastInv, LastWord
<1>2. ASSUME NEW e \in Event, Emit(e) PROVE LastInv'
  BY <1>1, <1>2 DEF Emit
<1>3. CASE Forward
  BY <1>1, <1>3 DEF Forward
<1>4. CASE HandleClientFrame
  BY <1>4, LastHandle
<1>5. CASE Upgrade \/ OnMessage \/ Refetch
  BY <1>1, <1>5 DEF Upgrade, OnMessage, Refetch
<1>6. CASE OnOpen
  <2>1. subscribed \in SUBSET Filters /\ Request("sub", subscribed)
    BY <1>6 DEF OnOpen, TypeOK
  <2> QED BY <2>1, LastRequest
<1>7. CASE OnClose
  BY <1>7 DEF OnClose, LastInv
<1>8. ASSUME NEW x \in Filters, Subscribe(x) PROVE LastInv'
  <2>1. {x} \in SUBSET Filters /\ Request("sub", {x})
    BY <1>8 DEF Subscribe
  <2> QED BY <2>1, LastRequest
<1>9. ASSUME NEW x \in Filters, Unsubscribe(x) PROVE LastInv'
  <2>1. {x} \in SUBSET Filters /\ Request("unsub", {x})
    BY <1>9 DEF Unsubscribe
  <2> QED BY <2>1, LastRequest
<1>10. CASE UNCHANGED vars
  BY <1>1, <1>10 DEF vars
<1> QED BY <1>2, <1>3, <1>4, <1>5, <1>6, <1>7, <1>8, <1>9, <1>10 DEF Next

(* What the client wants, the engine has or is asked for. *)
LEMMA WantedIsAsked ==
  ASSUME SubInv, LastInv, conn = "open", NEW t \in Topics,
         IsSubscribed(subscribed, t), ~IsSubscribed(topics, t)
  PROVE  AskedFor(t)
<1>1. PICK x \in Filters : /\ x \in subscribed /\ x \notin topics
                          /\ \A S : x \in S => IsSubscribed(S, t)
  BY DEF IsSubscribed, Filters
<1>2. \E k \in DOMAIN requests : x \in requests[k].topics
  BY <1>1 DEF SubInv, Settled
<1>3. PICK k \in DOMAIN requests : LastWord(x, k)
  BY <1>2 DEF LastInv
<1>4. requests[k].op = "sub"
  BY <1>1, <1>3 DEF SubInv
<1>5. IsSubscribed(requests[k].topics, t)
  BY <1>1, <1>3 DEF LastWord
<1> QED BY <1>4, <1>5 DEF AskedFor

LEMMA SubAgrees ==
  ASSUME TypeOK, SubInv
  PROVE  SubscriptionsAgree
<1> SUFFICES ASSUME conn = "open", requests = <<>> PROVE topics = subscribed
  BY DEF SubscriptionsAgree
<1>1. \A x \in Filters : x \in topics <=> x \in subscribed
  BY DEF SubInv, Settled
<1> QED BY <1>1 DEF TypeOK

(***************************************************************************)
(* When no sub or unsub frame is on its way, the engine's set of topics of *)
(* the connection is the client's, however reconnects and calls of         *)
(* subscribe and unsubscribe interleave (handle_client_frame, onopen).     *)
(***************************************************************************)
THEOREM SubscriptionsConverge == Spec => []SubscriptionsAgree
<1>1. Init => TypeOK /\ SubInv
  BY TypesInit, SubInit
<1>2. (TypeOK /\ SubInv) /\ [Next]_vars => (TypeOK /\ SubInv)'
  BY TypesNext, SubNext
<1>3. TypeOK /\ SubInv => SubscriptionsAgree
  BY SubAgrees
<1> QED BY <1>1, <1>2, <1>3, PTL DEF Spec
-----------------------------------------------------------------------------
(***************************************************************************)
(* The order. Nothing queued, waiting or arrived is newer than the cursor, *)
(* and only statuses wait: so the event that the loop takes is newer than  *)
(* everything before it, and what is put behind it is no rival of it.      *)
(***************************************************************************)
QueueOk == \A k \in DOMAIN out : out[k] <= cursor
PendingOk ==
  \A t \in Topics : pending[t] # 0 => pending[t] <= cursor /\ emitted[pending[t]].kind = "status"
OrderInv ==
  /\ QueueOk
  /\ PendingOk
  /\ newest[Firehose] <= cursor
  /\ ArrivesInOrder

LEMMA Sizes ==
  ASSUME TypeOK
  PROVE  /\ Len(emitted) \in Nat /\ DOMAIN emitted = 1..Len(emitted)
         /\ cursor \in Nat /\ cursor <= Len(emitted)
         /\ MaxEvents \in Nat /\ Broadcast \in Nat /\ Len(emitted) <= MaxEvents
         /\ Len(out) \in Nat /\ DOMAIN out = 1..Len(out)
         /\ \A k \in DOMAIN out : out[k] \in Nat
         /\ \A t \in Topics : pending[t] \in Nat
         /\ newest[Firehose] \in Nat
         /\ \A n \in DOMAIN emitted : emitted[n] \in Event
<1>1. /\ Len(emitted) \in Nat /\ DOMAIN emitted = 1..Len(emitted)
      /\ Len(out) \in Nat /\ DOMAIN out = 1..Len(out)
  BY LenProperties DEF TypeOK
<1>2. /\ \A k \in DOMAIN out : out[k] \in Indices \cup {Lag}
      /\ \A n \in DOMAIN emitted : emitted[n] \in Event
  BY <1>1, ElementOfSeq DEF TypeOK
<1>3. MaxEvents \in Nat /\ Broadcast \in Nat
  BY StreamAssumption
<1>4. \A k \in DOMAIN out : out[k] \in Nat
  BY <1>2 DEF Indices, Lag
<1>5. /\ \A t \in Topics : pending[t] \in Nat
      /\ newest[Firehose] \in Nat
  BY <1>3 DEF TypeOK, Filters
<1> QED BY <1>1, <1>2, <1>3, <1>4, <1>5 DEF TypeOK

(* A step that takes nothing from emitted and moves neither queue nor arrivals. *)
LEMMA OrderKept ==
  ASSUME TypeOK, OrderInv, cursor' \in Nat, cursor <= cursor',
         UNCHANGED <<out, pending, newest>>,
         \A n \in 1..Len(emitted) : emitted'[n] = emitted[n]
  PROVE  OrderInv'
<1>1. \A n \in Nat : n <= cursor => (NotAStatus(n)' <=> NotAStatus(n))
  BY Sizes DEF NotAStatus, Channel, Lag
<1>2. QueueOk'
  BY Sizes DEF OrderInv, QueueOk
<1>3. PendingOk'
  <2> SUFFICES ASSUME NEW t \in Topics, pending[t] # 0
               PROVE  pending[t] <= cursor' /\ emitted'[pending[t]].kind = "status"
    BY DEF PendingOk
  <2>1. pending[t] <= cursor /\ emitted[pending[t]].kind = "status" /\ pending[t] \in Nat
    BY Sizes DEF OrderInv, PendingOk
  <2> QED BY <2>1, Sizes
<1>4. newest'[Firehose] <= cursor'
  BY Sizes DEF OrderInv
<1>5. \A k \in DOMAIN out : NotAStatus(out[k])' <=> NotAStatus(out[k])
  BY <1>1, Sizes DEF OrderInv, QueueOk, NotAStatus, Channel
<1>6. ArrivesInOrder'
  <2>1. \A k \in DOMAIN out : out'[k] = out[k]
    OBVIOUS
  <2>2. ArrivesInOrder
    BY DEF OrderInv
  <2> QED BY <1>5, <2>1, <2>2 DEF ArrivesInOrder
<1> QED BY <1>2, <1>3, <1>4, <1>6 DEF OrderInv

(* The queue grows: behind the old frames there is at most one event that is not
   a status, right behind them, and it is newer than the cursor was. *)
LEMMA OrderGrows ==
  ASSUME TypeOK, TypeOK', OrderInv, UNCHANGED <<emitted, newest>>, cursor <= cursor',
         Len(out) <= Len(out'),
         \A k \in 1..Len(out) : out'[k] = out[k],
         \A k \in Len(out) + 1 .. Len(out') :
           /\ out'[k] <= cursor'
           /\ NotAStatus(out'[k]) => k = Len(out) + 1 /\ out'[k] > cursor,
         PendingOk'
  PROVE  OrderInv'
<1>1. /\ Len(out) \in Nat /\ DOMAIN out = 1..Len(out) /\ \A k \in DOMAIN out : out[k] \in Nat
      /\ cursor \in Nat /\ newest[Firehose] \in Nat
  BY Sizes
<1>2. PICK q \in Seq(Indices \cup {Lag}) : q = out'
  BY DEF TypeOK
<1>3. /\ Len(q) \in Nat /\ DOMAIN q = 1..Len(q) /\ \A k \in DOMAIN q : q[k] \in Nat
      /\ cursor' \in Nat
  <2>1. \A k \in 1..Len(q) : q[k] \in Indices \cup {Lag}
    BY <1>2, ElementOfSeq
  <2>2. MaxEvents \in Nat /\ Len(emitted) \in Nat
    BY Sizes
  <2>3. cursor' \in 0..Len(emitted)
    BY DEF TypeOK
  <2> QED BY <1>2, <2>1, <2>2, <2>3, LenProperties DEF Indices, Lag
<1>4. /\ Len(out) <= Len(q)
      /\ \A k \in 1..Len(out) : q[k] = out[k]
      /\ \A k \in Len(out) + 1 .. Len(q) :
           /\ q[k] <= cursor'
           /\ NotAStatus(q[k]) => k = Len(out) + 1 /\ q[k] > cursor
  BY <1>2
<1>5. \A k \in DOMAIN q : q[k] <= cursor'
  BY <1>1, <1>3, <1>4 DEF OrderInv, QueueOk
<1>6. QueueOk'
  BY <1>2, <1>5 DEF QueueOk
<1>7. newest[Firehose] <= cursor'
  BY <1>1, <1>3 DEF OrderInv
<1>8. \A k \in DOMAIN q : NotAStatus(q[k]) =>
        /\ newest[Firehose] < q[k]
        /\ \A l \in DOMAIN q : NotAStatus(q[l]) /\ k < l => q[k] < q[l]
  <2> SUFFICES ASSUME NEW k \in DOMAIN q, NotAStatus(q[k])
               PROVE  /\ newest[Firehose] < q[k]
                      /\ \A l \in DOMAIN q : NotAStatus(q[l]) /\ k < l => q[k] < q[l]
    OBVIOUS
  <2>1. CASE k <= Len(out)
    <3>1. k \in DOMAIN out /\ q[k] = out[k] /\ NotAStatus(out[k])
      BY <1>1, <1>3, <1>4, <2>1
    <3>2. /\ newest[Firehose] < out[k]
          /\ \A l \in DOMAIN out : NotAStatus(out[l]) /\ k < l => out[k] < out[l]
          /\ out[k] <= cursor
      BY <3>1 DEF OrderInv, QueueOk, ArrivesInOrder
    <3>3. ASSUME NEW l \in DOMAIN q, NotAStatus(q[l]), k < l PROVE q[k] < q[l]
      <4>1. CASE l <= Len(out)
        BY <1>1, <1>3, <1>4, <3>1, <3>2, <3>3, <4>1
      <4>2. CASE l > Len(out)
        BY <1>1, <1>3, <1>4, <3>1, <3>2, <3>3, <4>2
      <4> QED BY <1>1, <1>3, <4>1, <4>2
    <3> QED BY <3>1, <3>2, <3>3
  <2>2. CASE k > Len(out)
    <3>1. k = Len(out) + 1 /\ q[k] > cursor
      BY <1>1, <1>3, <1>4, <2>2
    <3>2. newest[Firehose] < q[k]
      BY <1>1, <1>3, <3>1 DEF OrderInv
    <3>3. ASSUME NEW l \in DOMAIN q, NotAStatus(q[l]), k < l PROVE FALSE
      BY <1>1, <1>3, <1>4, <3>1, <3>3
    <3> QED BY <3>2, <3>3
  <2> QED BY <1>1, <1>3, <2>1, <2>2
<1>9. ArrivesInOrder'
  <2>1. ArrivesInOrder' <=>
          \A k \in DOMAIN q : NotAStatus(q[k]) =>
            /\ newest[Firehose] < q[k]
            /\ \A l \in DOMAIN q : NotAStatus(q[l]) /\ k < l => q[k] < q[l]
    BY <1>2 DEF ArrivesInOrder, NotAStatus, Channel
  <2> QED BY <1>8, <2>1
<1> QED BY <1>6, <1>7, <1>9 DEF OrderInv

LEMMA LagIsNone ==
  \A n : n = Lag => ~NotAStatus(n)
BY DEF NotAStatus

(* An event is a status exactly when it does not go through the firehose's channel. *)
LEMMA StatusChannel ==
  ASSUME NEW n, emitted[n] \in Event
  PROVE  /\ Channel(n) \in Filters
         /\ emitted[n].kind = "status" => Channel(n) \in Topics /\ ~NotAStatus(n)
         /\ emitted[n].kind # "status" => Channel(n) = Firehose
<1>1. emitted[n].topic \in Topics /\ Firehose \notin Topics
  BY StreamAssumption DEF Event
<1> QED BY <1>1 DEF Channel, NotAStatus, Filters

LEMMA OrderForward ==
  ASSUME TypeOK, OrderInv, Forward
  PROVE  OrderInv'
<1>0. TypeOK'
  BY ForwardTypes
<1>1. emitted' = emitted /\ newest' = newest
  BY DEF Forward, TryMarker, Lagged
<1>2. /\ Len(emitted) \in Nat /\ DOMAIN emitted = 1..Len(emitted)
      /\ cursor \in Nat /\ cursor <= Len(emitted)
      /\ Broadcast \in Nat /\ Len(out) \in Nat
  BY Sizes
<1>3. ASSUME cursor' \in Nat, cursor <= cursor', out' = WithLagMarker(out), pending' = pending
      PROVE  OrderInv'
  <2>1. PICK q : q = WithLagMarker(out)
    OBVIOUS
  <2>2. /\ q \in Seq(Indices \cup {Lag}) /\ Len(out) <= Len(q)
        /\ \A k \in 1..Len(out) : q[k] = out[k]
        /\ \A k \in 1..Len(q) : k > Len(out) => q[k] = Lag
    BY <2>1, MarkerFacts
  <2>3. out' = q
    BY <1>3, <2>1
  <2>4. Len(q) \in Nat
    BY <2>2, LenProperties
  <2>5. \A k \in Len(out) + 1 .. Len(q) : q[k] = Lag
    BY <1>2, <2>2, <2>4
  <2>6. \A k \in Len(out) + 1 .. Len(out') :
           /\ out'[k] <= cursor'
           /\ NotAStatus(out'[k]) => k = Len(out) + 1 /\ out'[k] > cursor
    <3> SUFFICES ASSUME NEW k \in Len(out) + 1 .. Len(q)
                 PROVE  q[k] <= cursor' /\ ~NotAStatus(q[k])
      BY <2>3
    <3> QED BY <1>3, <2>5, LagIsNone DEF Lag
  <2>7. PendingOk'
    <3>1. \A t \in Topics : pending[t] # 0 => pending[t] <= cursor /\ emitted[pending[t]].kind = "status"
      BY DEF OrderInv, PendingOk
    <3>2. \A t \in Topics : pending[t] \in Nat
      BY Sizes
    <3> QED BY <1>1, <1>2, <1>3, <3>1, <3>2 DEF PendingOk
  <2>8. Len(out) <= Len(out') /\ \A k \in 1..Len(out) : out'[k] = out[k]
    BY <2>2, <2>3
  <2> QED BY <1>0, <1>1, <1>3, <2>6, <2>7, <2>8, OrderGrows
<1>4. CASE TryMarker
  BY <1>2, <1>3, <1>4 DEF TryMarker
<1>5. CASE Lagged
  BY <1>2, <1>3, <1>5 DEF Lagged
<1>6. CASE /\ cursor < Len(emitted) /\ cursor' = cursor + 1
           /\ Taken(cursor + 1)
  <2>1. PICK n \in Nat : n = cursor + 1
    BY <1>2
  <2>2. /\ n \in Indices /\ n \in 1..Len(emitted) /\ emitted[n] \in Event /\ cursor' = n
        /\ cursor <= n /\ n > cursor
    BY <1>2, <1>6, <2>1, Sizes DEF Indices
  <2>3. /\ \A t \in Topics : pending[t] # 0 =>
             pending[t] <= cursor /\ emitted[pending[t]].kind = "status"
        /\ \A t \in Topics : pending[t] \in Nat
    BY Sizes DEF OrderInv, PendingOk
  <2>4. CASE PassOver(n)
    <3>1. \A k \in 1..Len(emitted) : emitted'[k] = emitted[k]
      BY <1>1
    <3> QED BY <1>1, <2>2, <2>4, <3>1, OrderKept DEF PassOver
  <2>5. CASE Enqueue(n)
    <3>1. PICK q : q = out'
      OBVIOUS
    <3>2. /\ q \in Seq(Indices \cup {Lag})
          /\ Len(out) + 1 <= Len(q)
          /\ \A k \in 1..Len(out) : q[k] = out[k]
          /\ q[Len(out) + 1] = n
          /\ \A k \in Len(out) + 2 .. Len(q) :
               \E t \in Topics : pending[t] # 0 /\ q[k] = pending[t]
          /\ \A t \in Topics : pending'[t] \in {pending[t], 0}
      BY <2>2, <2>5, <3>1, EnqueueFacts
    <3>3. Len(q) \in Nat
      BY <3>2, LenProperties
    <3>4. \A k \in Len(out) + 1 .. Len(out') :
            /\ out'[k] <= cursor'
            /\ NotAStatus(out'[k]) => k = Len(out) + 1 /\ out'[k] > cursor
      <4> SUFFICES ASSUME NEW k \in Len(out) + 1 .. Len(q)
                   PROVE  /\ q[k] <= n
                          /\ NotAStatus(q[k]) => k = Len(out) + 1 /\ q[k] > cursor
        BY <2>2, <3>1
      <4>1. CASE k = Len(out) + 1
        BY <1>2, <2>2, <3>2, <4>1
      <4>2. CASE k # Len(out) + 1
        <5>1. k \in Len(out) + 2 .. Len(q)
          BY <1>2, <3>3, <4>2
        <5>2. PICK t \in Topics : pending[t] # 0 /\ q[k] = pending[t]
          BY <3>2, <5>1
        <5>3. /\ pending[t] <= cursor /\ emitted[pending[t]].kind = "status"
              /\ pending[t] \in 1..Len(emitted)
          BY <1>2, <2>3, <5>2
        <5>4. ~NotAStatus(q[k])
          BY <5>2, <5>3, StatusChannel, Sizes
        <5> QED BY <1>2, <2>2, <5>2, <5>3, <5>4
      <4> QED BY <4>1, <4>2
    <3>5. PendingOk'
      <4> SUFFICES ASSUME NEW t \in Topics, pending'[t] # 0
                   PROVE  pending'[t] <= n /\ emitted[pending'[t]].kind = "status"
        BY <1>1, <2>2 DEF PendingOk
      <4>1. pending'[t] = pending[t]
        BY <3>2
      <4> QED BY <1>2, <2>2, <2>3, <4>1
    <3>6. Len(out) <= Len(out') /\ \A k \in 1..Len(out) : out'[k] = out[k]
      BY <1>2, <3>1, <3>2, <3>3
    <3> QED BY <1>0, <1>1, <2>2, <3>4, <3>5, <3>6, OrderGrows
  <2>6. CASE Overflow(n)
    <3>1. out' = out
      BY <2>6 DEF Overflow
    <3>2. \A t \in Topics : pending'[t] = pending[t]
                              \/ (pending'[t] = n /\ emitted[n].kind = "status")
      BY <2>6 DEF Overflow, TypeOK
    <3>3. PendingOk'
      <4> SUFFICES ASSUME NEW t \in Topics, pending'[t] # 0
                   PROVE  pending'[t] <= n /\ emitted[pending'[t]].kind = "status"
        BY <1>1, <2>2 DEF PendingOk
      <4> QED BY <1>2, <2>2, <2>3, <3>2
    <3>4. \A k \in Len(out) + 1 .. Len(out') :
            /\ out'[k] <= cursor'
            /\ NotAStatus(out'[k]) => k = Len(out) + 1 /\ out'[k] > cursor
      BY <1>2, <3>1
    <3> QED BY <1>0, <1>1, <1>2, <2>2, <3>1, <3>3, <3>4, OrderGrows
  <2> QED BY <1>6, <2>1, <2>4, <2>5, <2>6 DEF Taken
<1> QED BY <1>4, <1>5, <1>6 DEF Forward, Taken

LEMMA OrderArrival ==
  ASSUME TypeOK, OrderInv, OnMessage
  PROVE  OrderInv'
<1>1. /\ out \in Seq(Indices \cup {Lag}) /\ out # <<>> /\ out' = Tail(out)
      /\ emitted' = emitted /\ cursor' = cursor /\ pending' = pending
      /\ newest' = IF Head(out) = Lag THEN newest
                   ELSE [newest EXCEPT ![Channel(Head(out))] = Head(out)]
  BY DEF OnMessage, TypeOK
<1>2. /\ Len(out) \in Nat \ {0} /\ Head(out) = out[1]
      /\ Tail(out) \in Seq(Indices \cup {Lag}) /\ Len(Tail(out)) = Len(out) - 1
      /\ \A k \in 1 .. Len(out) - 1 : Tail(out)[k] = out[k + 1]
  BY <1>1, TailFacts
<1>3. PICK q \in Seq(Indices \cup {Lag}) : q = Tail(out)
  BY <1>2
<1>4. /\ out' = q /\ Len(q) = Len(out) - 1 /\ DOMAIN q = 1..Len(q)
      /\ \A k \in 1..Len(q) : q[k] = out[k + 1]
      /\ DOMAIN out = 1..Len(out)
      /\ \A k \in DOMAIN out : out[k] \in Nat
      /\ cursor \in Nat /\ newest[Firehose] \in Nat /\ cursor <= Len(emitted)
      /\ Len(emitted) \in Nat
  BY <1>1, <1>2, <1>3, Sizes, LenProperties
<1>5. /\ \A k \in DOMAIN out : out[k] <= cursor
      /\ newest[Firehose] <= cursor
      /\ \A k \in DOMAIN out : NotAStatus(out[k]) =>
           /\ newest[Firehose] < out[k]
           /\ \A l \in DOMAIN out : NotAStatus(out[l]) /\ k < l => out[k] < out[l]
  BY DEF OrderInv, QueueOk, ArrivesInOrder
<1>6. \A k \in 1..Len(q) : k + 1 \in DOMAIN out /\ 1 \in DOMAIN out /\ q[k] = out[k + 1]
  BY <1>2, <1>4
<1>7. QueueOk'
  BY <1>1, <1>4, <1>5, <1>6 DEF QueueOk
<1>8. PendingOk'
  BY <1>1 DEF OrderInv, PendingOk
<1>9. /\ 1 \in DOMAIN out
      /\ \/ newest'[Firehose] = newest[Firehose]
         \/ (newest'[Firehose] = out[1] /\ NotAStatus(out[1]))
  <2>1. 1 \in DOMAIN out
    BY <1>2, <1>4
  <2>2. CASE out[1] = Lag
    BY <1>1, <1>2, <2>1, <2>2
  <2>3. CASE out[1] # Lag
    <3>1. out[1] \in 1..Len(emitted)
      BY <1>4, <1>5, <2>1, <2>3 DEF Lag
    <3>2. emitted[out[1]] \in Event
      BY <3>1, Sizes
    <3>3. newest' = [newest EXCEPT ![Channel(out[1])] = out[1]]
      BY <1>1, <1>2, <2>3
    <3>4. newest \in [Filters -> 0..MaxEvents] /\ Firehose \in Filters
      BY DEF TypeOK, Filters
    <3>5. Firehose \notin Topics
      BY StreamAssumption
    <3>6. CASE Channel(out[1]) = Firehose
      BY <2>1, <2>3, <3>3, <3>4, <3>6 DEF NotAStatus
    <3>7. CASE Channel(out[1]) # Firehose
      BY <2>1, <3>3, <3>4, <3>7
    <3> QED BY <3>6, <3>7
  <2> QED BY <2>2, <2>3
<1>10. newest'[Firehose] <= cursor'
  BY <1>1, <1>5, <1>9
<1>11. \A k \in DOMAIN q : NotAStatus(q[k]) =>
         /\ newest'[Firehose] < q[k]
         /\ \A l \in DOMAIN q : NotAStatus(q[l]) /\ k < l => q[k] < q[l]
  <2> SUFFICES ASSUME NEW k \in DOMAIN q, NotAStatus(q[k])
               PROVE  /\ newest'[Firehose] < q[k]
                      /\ \A l \in DOMAIN q : NotAStatus(q[l]) /\ k < l => q[k] < q[l]
    OBVIOUS
  <2>1. k \in 1..Len(q) /\ k \in Nat /\ q[k] = out[k + 1] /\ k + 1 \in DOMAIN out /\ 1 < k + 1
    BY <1>2, <1>4, <1>6
  <2>2. NotAStatus(out[k + 1])
    BY <2>1
  <2>3. newest'[Firehose] < q[k]
    BY <1>5, <1>9, <2>1, <2>2
  <2>4. ASSUME NEW l \in DOMAIN q, NotAStatus(q[l]), k < l PROVE q[k] < q[l]
    <3>1. l \in 1..Len(q) /\ q[l] = out[l + 1] /\ l + 1 \in DOMAIN out /\ k + 1 < l + 1
      BY <1>2, <1>4, <1>6, <2>1, <2>4
    <3>2. NotAStatus(out[l + 1])
      BY <2>4, <3>1
    <3> QED BY <1>5, <2>1, <2>2, <3>1, <3>2
  <2> QED BY <2>3, <2>4
<1>12. ArrivesInOrder'
  <2>1. PICK m \in Nat : m = newest'[Firehose]
    BY <1>4, <1>9
  <2>2. ArrivesInOrder' <=>
          \A k \in DOMAIN q : NotAStatus(q[k]) =>
            /\ m < q[k]
            /\ \A l \in DOMAIN q : NotAStatus(q[l]) /\ k < l => q[k] < q[l]
    BY <1>1, <1>4, <2>1 DEF ArrivesInOrder, NotAStatus, Channel
  <2> QED BY <1>11, <2>1, <2>2
<1> QED BY <1>7, <1>8, <1>10, <1>12 DEF OrderInv

LEMMA OrderNext ==
  ASSUME TypeOK, OrderInv, [Next]_vars
  PROVE  OrderInv'
<1>0. /\ cursor \in Nat /\ Len(emitted) \in Nat /\ cursor <= Len(emitted)
      /\ emitted \in Seq(Event)
  BY Sizes DEF TypeOK
<1>1. ASSUME NEW e \in Event, Emit(e) PROVE OrderInv'
  <2>1. \A n \in 1..Len(emitted) : emitted'[n] = emitted[n]
    BY <1>0, <1>1, AppendProperties DEF Emit
  <2> QED BY <1>0, <1>1, <2>1, OrderKept DEF Emit
<1>2. CASE Forward
  BY <1>2, OrderForward
<1>3. CASE Upgrade
  BY <1>0, <1>3, OrderKept DEF Upgrade, historyVars
<1>4. CASE OnMessage
  BY <1>4, OrderArrival
<1>5. CASE OnClose
  <2>1. out' = <<>> /\ pending' = Nothing /\ newest' = NoArrival /\ cursor' = cursor
    BY <1>5 DEF OnClose
  <2>2. DOMAIN out' = {}
    BY <2>1
  <2>3. newest'[Firehose] = 0 /\ \A t \in Topics : pending'[t] = 0
    BY <2>1 DEF NoArrival, Nothing, Filters
  <2>4. QueueOk' /\ ArrivesInOrder'
    BY <2>2 DEF QueueOk, ArrivesInOrder
  <2>5. PendingOk'
    BY <2>3 DEF PendingOk
  <2>6. newest'[Firehose] <= cursor'
    BY <1>0, <2>1, <2>3
  <2> QED BY <2>4, <2>5, <2>6 DEF OrderInv
<1>6. CASE UNCHANGED <<emitted, cursor, out, pending, newest>>
  BY <1>0, <1>6, OrderKept
<1>7. \/ HandleClientFrame \/ OnOpen \/ Refetch
      \/ (\E x \in Filters : Subscribe(x) \/ Unsubscribe(x)) \/ UNCHANGED vars
      => UNCHANGED <<emitted, cursor, out, pending, newest>>
  BY DEF HandleClientFrame, OnOpen, Refetch, Subscribe, Unsubscribe, vars, engineVars, historyVars
<1> QED BY <1>1, <1>2, <1>3, <1>4, <1>5, <1>6, <1>7 DEF Next

LEMMA OrderInit ==
  Init => OrderInv
<1> SUFFICES ASSUME Init PROVE OrderInv
  OBVIOUS
<1>1. DOMAIN out = {} /\ newest[Firehose] = 0 /\ cursor = 0
      /\ \A t \in Topics : pending[t] = 0
  BY DEF Init, NoArrival, Nothing, Filters
<1> QED BY <1>1 DEF OrderInv, QueueOk, PendingOk, ArrivesInOrder

(***************************************************************************)
(* On one connection the events that are not statuses are queued and       *)
(* arrive in the order of their emission, none twice, although the queue   *)
(* overflows, statuses are coalesced and the receiver skips (forward_      *)
(* events).                                                                *)
(***************************************************************************)
THEOREM EventsInOrder == Spec => []ArrivesInOrder
<1>1. Init => TypeOK /\ OrderInv
  BY TypesInit, OrderInit
<1>2. (TypeOK /\ OrderInv) /\ [Next]_vars => (TypeOK /\ OrderInv)'
  BY TypesNext, OrderNext
<1>3. OrderInv => ArrivesInOrder
  BY DEF OrderInv
<1> QED BY <1>1, <1>2, <1>3, PTL DEF Spec
-----------------------------------------------------------------------------
(***************************************************************************)
(* What the client is owed. An owed event reaches it: a refetch is due, or *)
(* the loop has the event before it, or a newer one is in the queue or     *)
(* waits for the queue, which will bring the refetch.                      *)
(***************************************************************************)
Queued(n) == \E k \in DOMAIN out : out[k] >= n
Held(n) == \E t \in Topics : pending[t] >= n
Covered(n) == refetching \/ n > cursor \/ Queued(n) \/ Held(n)
Awaited(n) ==
  /\ connectedOnce
  /\ n \in DOMAIN emitted /\ IsSubscribed(subscribed, emitted[n].topic)
OwedInv ==
  /\ \A n \in owed : Awaited(n)
  /\ conn = "open" => \A n \in owed : Covered(n)

(* A step that adds no debt and touches nothing that covers one. *)
LEMMA OwedKept ==
  ASSUME OwedInv, owed' \subseteq owed,
         UNCHANGED <<emitted, conn, subscribed, connectedOnce>>,
         conn = "open" => \A n \in owed' : Covered(n) => Covered(n)'
  PROVE  OwedInv'
<1>1. \A n \in owed' : Awaited(n)'
  BY DEF OwedInv, Awaited, IsSubscribed
<1>2. conn' = "open" => \A n \in owed' : Covered(n)'
  <2> SUFFICES ASSUME conn = "open", NEW n \in owed' PROVE Covered(n)'
    OBVIOUS
  <2> QED BY DEF OwedInv
<1> QED BY <1>1, <1>2 DEF OwedInv

LEMMA OwedForward ==
  ASSUME TypeOK, SubInv, LastInv, OwedInv, Forward
  PROVE  OwedInv'
<1>1. /\ UNCHANGED <<emitted, conn, subscribed, connectedOnce, refetching>>
  BY DEF Forward, TryMarker, Lagged, clientVars
<1>2. /\ Len(emitted) \in Nat /\ DOMAIN emitted = 1..Len(emitted)
      /\ cursor \in Nat /\ cursor <= Len(emitted)
      /\ Broadcast \in Nat /\ Len(out) \in Nat /\ DOMAIN out = 1..Len(out)
      /\ \A k \in DOMAIN out : out[k] \in Nat
      /\ \A t \in Topics : pending[t] \in Nat
  BY Sizes
<1>3. \A n \in owed : n \in Nat
  BY <1>2 DEF OwedInv, Awaited
<1>4. ASSUME NEW n, Len(out) <= Len(out'), DOMAIN out' = 1..Len(out'), Len(out') \in Nat,
             \A k \in 1..Len(out) : out'[k] = out[k], Queued(n)
      PROVE  Queued(n)'
  <2>1. PICK k \in 1..Len(out) : out[k] >= n
    BY <1>2, <1>4 DEF Queued
  <2>2. k \in DOMAIN out' /\ out'[k] >= n
    BY <1>2, <1>4, <2>1
  <2> QED BY <2>2 DEF Queued
<1>5. ASSUME out' = WithLagMarker(out), pending' = pending, owed' \subseteq owed,
             cursor' \in Nat, \A n \in owed' : n > cursor => n > cursor'
      PROVE  OwedInv'
  <2>1. PICK q : q = WithLagMarker(out)
    OBVIOUS
  <2>2. /\ q \in Seq(Indices \cup {Lag}) /\ Len(out) <= Len(q)
        /\ \A k \in 1..Len(out) : q[k] = out[k]
    BY <2>1, MarkerFacts
  <2>3. DOMAIN q = 1..Len(q) /\ Len(q) \in Nat /\ out' = q
    BY <1>5, <2>1, <2>2, LenProperties
  <2>4. \A n : Queued(n) => Queued(n)'
    BY <1>4, <2>2, <2>3
  <2>5. ASSUME NEW n \in owed', Covered(n) PROVE Covered(n)'
    <3>1. Held(n) => Held(n)'
      BY <1>5 DEF Held
    <3> QED BY <1>1, <1>5, <2>4, <2>5, <3>1 DEF Covered
  <2> QED BY <1>1, <1>5, <2>5, OwedKept
<1>6. CASE TryMarker
  BY <1>2, <1>5, <1>6 DEF TryMarker
<1>7. CASE Lagged
  <2>0. Len(emitted) - Broadcast \in Nat
    BY <1>2, <1>7 DEF Lagged
  <2>1. PICK c \in Nat : c = Len(emitted) - Broadcast
    BY <2>0
  <2>2. owed' = owed \ (cursor + 1 .. c) /\ cursor' = c
    BY <1>7, <2>1 DEF Lagged, Lose
  <2>3. \A n \in owed' : n > cursor => n > c
    BY <1>2, <1>3, <2>2
  <2> QED BY <1>5, <1>7, <2>2, <2>3 DEF Lagged
<1>8. CASE /\ cursor < Len(emitted) /\ cursor' = cursor + 1
           /\ Taken(cursor + 1)
  <2>1. PICK n \in Nat : n = cursor + 1
    BY <1>2
  <2>2. /\ n \in Indices /\ n \in 1..Len(emitted) /\ emitted[n] \in Event /\ cursor' = n
    BY <1>2, <1>8, <2>1, Sizes DEF Indices
  <2>3. CASE PassOver(n)
    <3>1. n \notin owed' \/ conn # "open"
      <4>1. CASE AskedFor(emitted[n].topic)
        BY <2>3, <4>1 DEF PassOver, Lose
      <4>2. CASE ~AskedFor(emitted[n].topic) /\ conn = "open"
        <5>1. emitted[n].topic \in Topics /\ ~IsSubscribed(topics, emitted[n].topic)
          BY <2>2, <2>3 DEF Event, PassOver
        <5>2. ~IsSubscribed(subscribed, emitted[n].topic)
          BY <4>2, <5>1, WantedIsAsked
        <5>3. n \notin owed
          BY <5>2 DEF OwedInv, Awaited
        <5> QED BY <2>3, <5>3 DEF PassOver, Lose
      <4> QED BY <4>1, <4>2
    <3>2. out' = out /\ pending' = pending /\ owed' \subseteq owed
      BY <2>3 DEF PassOver, Lose
    <3>3. ASSUME conn = "open", NEW m \in owed', Covered(m) PROVE Covered(m)'
      <4>1. m \in Nat /\ (m > cursor => m > n)
        BY <1>2, <1>3, <2>1, <3>1, <3>2, <3>3
      <4>2. (Queued(m) => Queued(m)') /\ (Held(m) => Held(m)')
        BY <3>2 DEF Queued, Held
      <4> QED BY <1>1, <2>2, <3>3, <4>1, <4>2 DEF Covered
    <3> QED BY <1>1, <3>2, <3>3, OwedKept
  <2>4. CASE Enqueue(n)
    <3>1. PICK q : q = out'
      OBVIOUS
    <3>2. /\ q \in Seq(Indices \cup {Lag}) /\ Len(out) + 1 <= Len(q)
          /\ q[Len(out) + 1] = n
          /\ owed' \subseteq owed
      BY <2>2, <2>4, <3>1, EnqueueFacts
    <3>3. DOMAIN q = 1..Len(q) /\ Len(q) \in Nat
      BY <3>2, LenProperties
    <3>4. ASSUME NEW m \in owed' PROVE Covered(m)'
      <4>1. m \in Nat
        BY <1>3, <3>2
      <4>2. CASE m > n
        BY <2>2, <4>2 DEF Covered
      <4>3. CASE ~(m > n)
        <5>1. Len(out) + 1 \in DOMAIN q /\ q[Len(out) + 1] >= m
          BY <1>2, <2>1, <3>2, <3>3, <4>1, <4>3
        <5> QED BY <3>1, <5>1 DEF Covered, Queued
      <4> QED BY <4>2, <4>3
    <3> QED BY <1>1, <3>2, <3>4, OwedKept
  <2>5. CASE Overflow(n) /\ emitted[n].kind = "status"
    <3>1. /\ pending' = [pending EXCEPT ![emitted[n].topic] = n] /\ owed' = owed
          /\ emitted[n].topic \in Topics
      BY <2>2, <2>5 DEF Overflow, Event
    <3>2. \E t \in Topics : pending'[t] = n
      BY <3>1 DEF TypeOK
    <3>3. ASSUME NEW m \in owed' PROVE Covered(m)'
      <4>1. m \in Nat
        BY <1>3, <3>1
      <4>2. CASE m > n
        BY <2>2, <4>2 DEF Covered
      <4>3. CASE ~(m > n)
        <5>1. \E t \in Topics : pending'[t] >= m
          BY <2>1, <3>2, <4>1, <4>3
        <5> QED BY <5>1 DEF Covered, Held
      <4> QED BY <4>2, <4>3
    <3> QED BY <1>1, <3>1, <3>3, OwedKept
  <2>6. CASE Overflow(n) /\ emitted[n].kind # "status"
    <3>1. out' = out /\ pending' = pending /\ owed' = owed \ {n}
      BY <2>6 DEF Overflow, Lose
    <3>2. ASSUME NEW m \in owed', Covered(m) PROVE Covered(m)'
      <4>1. m \in Nat /\ (m > cursor => m > n)
        BY <1>2, <1>3, <2>1, <3>1
      <4>2. (Queued(m) => Queued(m)') /\ (Held(m) => Held(m)')
        BY <3>1 DEF Queued, Held
      <4> QED BY <1>1, <2>2, <3>2, <4>1, <4>2 DEF Covered
    <3> QED BY <1>1, <3>1, <3>2, OwedKept
  <2> QED BY <1>8, <2>1, <2>3, <2>4, <2>5, <2>6 DEF Taken
<1> QED BY <1>6, <1>7, <1>8 DEF Forward, Taken

LEMMA OwedNext ==
  ASSUME TypeOK, SubInv, LastInv, OwedInv, [Next]_vars
  PROVE  OwedInv'
<1>0. /\ Len(emitted) \in Nat /\ DOMAIN emitted = 1..Len(emitted)
      /\ cursor \in Nat /\ cursor <= Len(emitted)
      /\ emitted \in Seq(Event)
  BY Sizes DEF TypeOK
<1>1. ASSUME NEW e \in Event, Emit(e) PROVE OwedInv'
  <2>1. PICK q \in Seq(Event) : q = Append(emitted, e)
    BY <1>0, AppendProperties
  <2>2. /\ emitted' = q /\ Len(q) = Len(emitted) + 1 /\ DOMAIN q = 1..Len(q)
        /\ \A n \in 1..Len(emitted) : q[n] = emitted[n]
        /\ q[Len(emitted) + 1] = e
    BY <1>0, <1>1, <2>1, AppendProperties, LenProperties DEF Emit
  <2>3. UNCHANGED <<cursor, out, pending, conn, subscribed, connectedOnce, refetching>>
    BY <1>1 DEF Emit, clientVars
  <2> DEFINE m == Len(emitted) + 1
  <2>4. /\ \A n \in owed' : n \in owed \/ n = m
        /\ m \in owed' => m \in owed \/ (connectedOnce /\ IsSubscribed(subscribed, e.topic))
    BY <1>1 DEF Emit
  <2>5. m > cursor /\ m \in 1..Len(q) /\ q[m] = e
    BY <1>0, <2>2
  <2> HIDE DEF m
  <2>6. ASSUME NEW n \in owed' PROVE Awaited(n)'
    <3>1. CASE n \in owed
      <4>1. /\ connectedOnce /\ n \in 1..Len(emitted)
            /\ IsSubscribed(subscribed, emitted[n].topic)
        BY <1>0, <3>1 DEF OwedInv, Awaited
      <4>2. n \in DOMAIN q /\ q[n] = emitted[n]
        BY <1>0, <2>2, <4>1
      <4> QED BY <2>2, <2>3, <4>1, <4>2 DEF Awaited, IsSubscribed
    <3>2. CASE n = m /\ m \notin owed
      BY <2>2, <2>3, <2>4, <2>5, <3>2 DEF Awaited, IsSubscribed
    <3> QED BY <2>4, <3>1, <3>2
  <2>7. ASSUME conn' = "open", NEW n \in owed' PROVE Covered(n)'
    <3>1. CASE n \in owed
      <4>1. Covered(n)
        BY <2>3, <2>7, <3>1 DEF OwedInv
      <4> QED BY <2>3, <4>1 DEF Covered, Queued, Held
    <3>2. CASE n = m
      BY <2>3, <2>5, <3>2 DEF Covered
    <3> QED BY <2>4, <3>1, <3>2
  <2> QED BY <2>6, <2>7 DEF OwedInv
<1>2. CASE Forward
  BY <1>2, OwedForward
<1>3. CASE HandleClientFrame
  BY <1>3, OwedKept DEF HandleClientFrame, clientVars, historyVars, Covered, Queued, Held
<1>4. CASE Upgrade
  BY <1>4 DEF Upgrade, historyVars, OwedInv, Awaited, IsSubscribed
<1>5. CASE OnOpen
  <2>1. /\ connectedOnce' = TRUE /\ refetching' = (refetching \/ connectedOnce)
        /\ UNCHANGED <<emitted, subscribed, owed>>
    BY <1>5 DEF OnOpen, engineVars, historyVars
  <2>2. \A n \in owed' : connectedOnce /\ Awaited(n)'
    BY <2>1 DEF OwedInv, Awaited, IsSubscribed
  <2>3. \A n \in owed' : Covered(n)'
    BY <2>1, <2>2 DEF Covered
  <2> QED BY <2>2, <2>3 DEF OwedInv
<1>6. CASE OnMessage
  <2>1. /\ out \in Seq(Indices \cup {Lag}) /\ out # <<>> /\ out' = Tail(out)
        /\ UNCHANGED <<emitted, cursor, pending, conn, subscribed, connectedOnce, owed>>
        /\ refetching' = IF Head(out) = Lag THEN refetching ELSE TRUE
    BY <1>6 DEF OnMessage, TypeOK
  <2>2. /\ Len(out) \in Nat \ {0} /\ Head(out) = out[1]
        /\ Tail(out) \in Seq(Indices \cup {Lag}) /\ Len(Tail(out)) = Len(out) - 1
        /\ \A k \in 1 .. Len(out) - 1 : Tail(out)[k] = out[k + 1]
    BY <2>1, TailFacts
  <2>3. PICK q \in Seq(Indices \cup {Lag}) : q = Tail(out)
    BY <2>2
  <2>4. /\ out' = q /\ Len(q) = Len(out) - 1 /\ DOMAIN q = 1..Len(q)
        /\ \A k \in 1..Len(q) : q[k] = out[k + 1]
        /\ DOMAIN out = 1..Len(out)
    BY <2>1, <2>2, <2>3, LenProperties
  <2>5. ASSUME NEW n \in owed', Covered(n) PROVE Covered(n)'
    <3>1. n \in Nat /\ n >= 1
      BY <1>0, <2>1 DEF OwedInv, Awaited
    <3>2. CASE out[1] # Lag
      BY <2>1, <2>2, <3>2 DEF Covered
    <3>3. CASE out[1] = Lag
      <4>1. refetching' = refetching
        BY <2>1, <2>2, <3>3
      <4>2. Held(n) => Held(n)'
        BY <2>1 DEF Held
      <4>3. ASSUME Queued(n) PROVE Queued(n)'
        <5>1. PICK k \in 1..Len(out) : out[k] >= n
          BY <2>4, <4>3 DEF Queued
        <5>2. k # 1
          BY <3>1, <3>3, <5>1 DEF Lag
        <5>3. k - 1 \in 1..Len(q) /\ (k - 1) + 1 = k
          BY <2>2, <2>4, <5>2
        <5>4. k - 1 \in DOMAIN q /\ q[k - 1] >= n
          BY <2>4, <5>1, <5>3
        <5> QED BY <2>4, <5>4 DEF Queued
      <4> QED BY <2>1, <2>5, <4>1, <4>2, <4>3 DEF Covered
    <3> QED BY <3>2, <3>3
  <2> QED BY <2>1, <2>5, OwedKept
<1>7. CASE Refetch
  BY <1>7 DEF Refetch, OwedInv
<1>8. CASE OnClose
  <2>1. conn' = "waiting" /\ UNCHANGED <<emitted, subscribed, connectedOnce, owed>>
    BY <1>8 DEF OnClose
  <2> QED BY <2>1 DEF OwedInv, Awaited, IsSubscribed
<1>9. ASSUME NEW x \in Filters, Subscribe(x) PROVE OwedInv'
  <2>1. /\ UNCHANGED <<emitted, cursor, out, pending, conn, connectedOnce, refetching, owed>>
        /\ subscribed' = subscribed \cup {x}
    BY <1>9 DEF Subscribe, engineVars, historyVars
  <2>2. \A n \in owed' : Awaited(n)'
    BY <2>1 DEF OwedInv, Awaited, IsSubscribed
  <2>3. conn' = "open" => \A n \in owed' : Covered(n)'
    BY <2>1 DEF OwedInv, Covered, Queued, Held
  <2> QED BY <2>2, <2>3 DEF OwedInv
<1>10. ASSUME NEW x \in Filters, Unsubscribe(x) PROVE OwedInv'
  <2>1. /\ UNCHANGED <<emitted, cursor, out, pending, conn, connectedOnce, refetching>>
        /\ owed' = {n \in owed : IsSubscribed(subscribed', emitted[n].topic)}
    BY <1>10 DEF Unsubscribe, engineVars
  <2>2. \A n \in owed' : Awaited(n)'
    BY <2>1 DEF OwedInv, Awaited, IsSubscribed
  <2>3. conn' = "open" => \A n \in owed' : Covered(n)'
    BY <2>1 DEF OwedInv, Covered, Queued, Held
  <2> QED BY <2>2, <2>3 DEF OwedInv
<1>11. CASE UNCHANGED vars
  <2>1. UNCHANGED <<emitted, cursor, out, pending, conn, subscribed, connectedOnce, refetching, owed>>
    BY <1>11 DEF vars, engineVars, clientVars, historyVars
  <2> QED BY <2>1, OwedKept DEF Covered, Queued, Held
<1> QED
  BY <1>1, <1>2, <1>3, <1>4, <1>5, <1>6, <1>7, <1>8, <1>9, <1>10, <1>11 DEF Next

LEMMA OwedInit ==
  Init => OwedInv
BY DEF Init, OwedInv

LEMMA OwedIsQuiet ==
  ASSUME TypeOK, OwedInv
  PROVE  QuietClientIsCurrent
<1> SUFFICES ASSUME Quiet, NEW n \in owed PROVE FALSE
  BY DEF QuietClientIsCurrent
<1>1. /\ n \in 1..Len(emitted) /\ Len(emitted) \in Nat
  BY Sizes DEF OwedInv, Awaited
<1>2. /\ ~refetching /\ cursor = Len(emitted) /\ out = <<>> /\ pending = Nothing
      /\ Covered(n)
  BY DEF Quiet, OwedInv
<1>3. ~(n > cursor)
  BY <1>1, <1>2
<1>4. ~Queued(n)
  BY <1>2 DEF Queued
<1>5. ~Held(n)
  BY <1>1, <1>2 DEF Held, Nothing
<1> QED BY <1>2, <1>3, <1>4, <1>5 DEF Covered

(***************************************************************************)
(* When everything has come to rest, the client has read the engine's      *)
(* state since every event it was subscribed to that the engine did not    *)
(* drop on overflow or lag and that did not overtake the sub frame asking  *)
(* for it: a reconnect's handlers, a queued frame or a status that waits   *)
(* for the queue brings the refetch (forward_events, onopen,               *)
(* useEngineInvalidation). The proof shows that no other event is missed:  *)
(* one is passed over either because the client does not want it or while  *)
(* a sub frame for its topic is on its way.                                *)
(***************************************************************************)
THEOREM QuietMeansCurrent == Spec => []QuietClientIsCurrent
<1>1. Init => TypeOK /\ SubInv /\ LastInv /\ OwedInv
  BY TypesInit, SubInit, LastInit, OwedInit
<1>2. (TypeOK /\ SubInv /\ LastInv /\ OwedInv) /\ [Next]_vars => (TypeOK /\ SubInv /\ LastInv /\ OwedInv)'
  BY TypesNext, SubNext, LastNext, OwedNext
<1>3. TypeOK /\ SubInv /\ LastInv /\ OwedInv => QuietClientIsCurrent
  BY OwedIsQuiet
<1> QED BY <1>1, <1>2, <1>3, PTL DEF Spec
=============================================================================
