------------------------- MODULE ChatHistory_proofs -------------------------
(***************************************************************************)
(* Proofs about ChatHistory, for any providers, ids, turns and crashes:    *)
(* the types, what a restart resumes, that a refused session stays         *)
(* refused, and that history and transcript are whole.                     *)
(***************************************************************************)
EXTENDS ChatHistory, SequenceTheorems, TLAPS

(* What is left to do of a write: of an id that was told, or of a refusal.   *)
Tell3(id) == Steps(<<"sid", "history", "report">>, id)
Tell2(id) == Steps(<<"history", "report">>, id)
Tell1(id) == Steps(<<"report">>, id)
Drop4(id) == Steps(<<"history", "invalid", "remove", "retry">>, id)
Drop3(id) == Steps(<<"invalid", "remove", "retry">>, id)
Drop2(id) == Steps(<<"remove", "retry">>, id)
Drop1(id) == Steps(<<"retry">>, id)

(* The flat file's id is not resumed, once a provider has one of its own. *)
Supersedes(p, id) == legacy = None \/ legacy \in invalid[p] \/ id = legacy

(* The ids that must not be asked for, and the moment at which one of them  *)
(* still stands in the .sid file: its removal is the next operation.        *)
Barred(p) == invalid[p] \ interrupted[p]
USE DEF Barred

Clearing(p) ==
  turn # Idle /\ turn.provider = p /\ todo = Drop2(turn.id) /\ sid[p] = turn.id

FilesOk(p) ==
  /\ invalid[p] \subseteq used
  /\ sid[p] # None => Supersedes(p, sid[p]) /\ (sid[p] \in Barred(p) => Clearing(p))
  /\ turn = Idle \/ turn.provider # p => memory[p] \in {Absent, OnDisk(p)}

Message(n, id) == [turn |-> n, kind |-> "user_message", id |-> id]

TurnOk ==
  LET p == turn.provider  id == turn.id
  IN /\ id \in used
     /\ Supersedes(p, id)
     /\ turn.current # None => turn.current \in history[p]
     /\ ~turn.announced => turn.message
     /\ \/ /\ todo = <<>>
           /\ memory[p] = OnDisk(p) /\ id \notin Barred(p)
           /\ memory[p] = IF turn.resumed \/ turn.announced THEN id ELSE None
           /\ turn.announced => turn.current = id /\ Message(turn.n, id) \in rows \cup tasks
        \/ /\ todo \in {Tell3(id), Tell2(id), Tell1(id)}
           /\ turn.announced /\ turn.message
           /\ memory[p] = id /\ id \notin Barred(p)
           /\ todo # Tell3(id) => sid[p] = id
           /\ todo = Tell1(id) => id \in history[p]
        \/ /\ todo \in {Drop4(id), Drop3(id), Drop2(id), Drop1(id)}
           /\ memory[p] = None
           /\ todo \in {Drop2(id), Drop1(id)} => id \in invalid[p]
           /\ todo = Drop1(id) => sid[p] = None
           /\ todo \in {Drop4(id), Drop3(id)} => id \notin Barred(p)

RowsOk == \A r \in rows \cup tasks : \E p \in Providers : r.id \in history[p]

AnswersOk ==
  \A a \in answers :
    a.provider \notin Late /\ a.turn \notin cut =>
      \A k \in {"user_message", "assistant_text"} :
        [turn |-> a.turn, kind |-> k, id |-> a.id] \in rows \cup tasks

HistoryInv ==
  /\ TypeOK
  /\ \A p \in Providers : FilesOk(p)
  /\ turn # Idle => TurnOk
  /\ RowsOk
  /\ AnswersOk

LEMMA Constants ==
  /\ Legacy \in AllIds /\ Ids \subseteq AllIds
  /\ None \notin AllIds /\ Absent \notin AllIds /\ None # Absent
BY HistoryAssumption DEF HistoryAssumption, AllIds

(* A turn at work is not the idle record. *)
LEMMA AtWork ==
  /\ \A t \in Turn : t # Idle
  /\ TypeOK /\ turn # Idle =>
       /\ turn \in Turn /\ turn.provider \in Providers /\ turn.id \in AllIds /\ turn.n \in Turns
       /\ turn.current \in AllIds \cup {None}
BY DEF TypeOK, Turn, Idle

(***************************************************************************)
(* The plans: each is the file operations that are left, then the report   *)
(* of the id or the retry.                                                 *)
(***************************************************************************)
LEMMA Tuples ==
  ASSUME NEW S, NEW x \in S, NEW y \in S, NEW z \in S
  PROVE  /\ <<x>> \in Seq(S) /\ <<x>> # <<>> /\ Head(<<x>>) = x /\ Tail(<<x>>) = <<>>
         /\ <<x, y>> \in Seq(S) /\ <<x, y>> # <<>> /\ Head(<<x, y>>) = x /\ Tail(<<x, y>>) = <<y>>
         /\ <<x, y, z>> \in Seq(S) /\ <<x, y, z>> # <<>> /\ Head(<<x, y, z>>) = x
         /\ Tail(<<x, y, z>>) = <<y, z>>
<1>1. <<x>> \in Seq(S) /\ <<x, y>> \in Seq(S) /\ <<x, y, z>> \in Seq(S)
  OBVIOUS
<1>2. Head(<<x>>) = x /\ Head(<<x, y>>) = x /\ Head(<<x, y, z>>) = x
  OBVIOUS
<1>3. <<x>> # <<>> /\ <<x, y>> # <<>> /\ <<x, y, z>> # <<>>
  OBVIOUS
<1>4. Tail(<<x>>) = <<>>
  OBVIOUS
<1>5. Tail(<<x, y>>) = <<y>>
  OBVIOUS
<1>6. Tail(<<x, y, z>>) = <<y, z>>
  OBVIOUS
<1> QED BY <1>1, <1>2, <1>3, <1>4, <1>5, <1>6

LEMMA FourTuple ==
  ASSUME NEW S, NEW w \in S, NEW x \in S, NEW y \in S, NEW z \in S
  PROVE  /\ <<w, x, y, z>> \in Seq(S) /\ <<w, x, y, z>> # <<>>
         /\ Head(<<w, x, y, z>>) = w /\ Tail(<<w, x, y, z>>) = <<x, y, z>>
<1>1. <<w, x, y, z>> \in Seq(S) /\ <<w, x, y, z>> # <<>> /\ Head(<<w, x, y, z>>) = w
  OBVIOUS
<1>2. Tail(<<w, x, y, z>>) = <<x, y, z>>
  OBVIOUS
<1> QED BY <1>1, <1>2

At(o, id) == [op |-> o, id |-> id]

LEMMA PlanTuples ==
  ASSUME NEW id
  PROVE  /\ Tell3(id) = <<At("sid", id), At("history", id), At("report", id)>>
         /\ Tell2(id) = <<At("history", id), At("report", id)>>
         /\ Tell1(id) = <<At("report", id)>>
         /\ Drop4(id) = <<At("history", id), At("invalid", id), At("remove", id), At("retry", id)>>
         /\ Drop3(id) = <<At("invalid", id), At("remove", id), At("retry", id)>>
         /\ Drop2(id) = <<At("remove", id), At("retry", id)>>
         /\ Drop1(id) = <<At("retry", id)>>
<1> USE DEF Steps, At
<1>1. Tell3(id) = <<At("sid", id), At("history", id), At("report", id)>>
  BY DEF Tell3
<1>2. Tell2(id) = <<At("history", id), At("report", id)>>
  BY DEF Tell2
<1>3. Tell1(id) = <<At("report", id)>>
  BY DEF Tell1
<1>4. Drop4(id) = <<At("history", id), At("invalid", id), At("remove", id), At("retry", id)>>
  BY DEF Drop4
<1>5. Drop3(id) = <<At("invalid", id), At("remove", id), At("retry", id)>>
  BY DEF Drop3
<1>6. Drop2(id) = <<At("remove", id), At("retry", id)>>
  BY DEF Drop2
<1>7. Drop1(id) = <<At("retry", id)>>
  BY DEF Drop1
<1> QED BY <1>1, <1>2, <1>3, <1>4, <1>5, <1>6, <1>7

(* Each plan's first operation, and the plan that is left after it. *)
LEMMA Plans ==
  ASSUME NEW id \in AllIds
  PROVE  /\ {Tell3(id), Tell2(id), Tell1(id), Drop4(id), Drop3(id), Drop2(id), Drop1(id)} \subseteq Seq(Step)
         /\ Tell3(id) # <<>> /\ Head(Tell3(id)) = At("sid", id) /\ Tail(Tell3(id)) = Tell2(id)
         /\ Tell2(id) # <<>> /\ Head(Tell2(id)) = At("history", id) /\ Tail(Tell2(id)) = Tell1(id)
         /\ Tell1(id) # <<>> /\ Head(Tell1(id)) = At("report", id) /\ Tail(Tell1(id)) = <<>>
         /\ Drop4(id) # <<>> /\ Head(Drop4(id)) = At("history", id) /\ Tail(Drop4(id)) = Drop3(id)
         /\ Drop3(id) # <<>> /\ Head(Drop3(id)) = At("invalid", id) /\ Tail(Drop3(id)) = Drop2(id)
         /\ Drop2(id) # <<>> /\ Head(Drop2(id)) = At("remove", id) /\ Tail(Drop2(id)) = Drop1(id)
         /\ Drop1(id) # <<>> /\ Head(Drop1(id)) = At("retry", id) /\ Tail(Drop1(id)) = <<>>
<1>1. \A o \in {"sid", "history", "invalid", "remove", "report", "retry"} : At(o, id) \in Step
  BY DEF At, Step
<1>2. /\ At("sid", id) \in Step /\ At("history", id) \in Step /\ At("report", id) \in Step
      /\ At("invalid", id) \in Step /\ At("remove", id) \in Step /\ At("retry", id) \in Step
  BY <1>1
<1> HIDE DEF At
<1> DEFINE s == At("sid", id)    h == At("history", id)  p == At("report", id)
           i == At("invalid", id)  m == At("remove", id)  y == At("retry", id)
<1>3. s \in Step /\ h \in Step /\ p \in Step /\ i \in Step /\ m \in Step /\ y \in Step
  BY <1>2
<1>4. /\ s = At("sid", id) /\ h = At("history", id) /\ p = At("report", id)
      /\ i = At("invalid", id) /\ m = At("remove", id) /\ y = At("retry", id)
      /\ Tell3(id) = <<s, h, p>> /\ Tell2(id) = <<h, p>> /\ Tell1(id) = <<p>>
      /\ Drop4(id) = <<h, i, m, y>> /\ Drop3(id) = <<i, m, y>> /\ Drop2(id) = <<m, y>> /\ Drop1(id) = <<y>>
  BY PlanTuples
<1> HIDE DEF s, h, p, i, m, y
<1>5. /\ Tell3(id) \in Seq(Step) /\ Tell3(id) # <<>> /\ Head(Tell3(id)) = At("sid", id)
      /\ Tail(Tell3(id)) = Tell2(id)
  <2>1. <<s, h, p>> \in Seq(Step) /\ <<s, h, p>> # <<>> /\ Head(<<s, h, p>>) = s /\ Tail(<<s, h, p>>) = <<h, p>>
    BY <1>3, Tuples
  <2> QED BY <1>4, <2>1
<1>6. /\ Tell2(id) \in Seq(Step) /\ Tell2(id) # <<>> /\ Head(Tell2(id)) = At("history", id)
      /\ Tail(Tell2(id)) = Tell1(id)
  <2>1. <<h, p>> \in Seq(Step) /\ <<h, p>> # <<>> /\ Head(<<h, p>>) = h /\ Tail(<<h, p>>) = <<p>>
    BY <1>3, Tuples
  <2> QED BY <1>4, <2>1
<1>7. /\ Tell1(id) \in Seq(Step) /\ Tell1(id) # <<>> /\ Head(Tell1(id)) = At("report", id)
      /\ Tail(Tell1(id)) = <<>>
  <2>1. <<p>> \in Seq(Step) /\ <<p>> # <<>> /\ Head(<<p>>) = p /\ Tail(<<p>>) = <<>>
    BY <1>3, Tuples
  <2> QED BY <1>4, <2>1
<1>8. /\ Drop4(id) \in Seq(Step) /\ Drop4(id) # <<>> /\ Head(Drop4(id)) = At("history", id)
      /\ Tail(Drop4(id)) = Drop3(id)
  <2>1. <<h, i, m, y>> \in Seq(Step) /\ <<h, i, m, y>> # <<>> /\ Head(<<h, i, m, y>>) = h /\ Tail(<<h, i, m, y>>) = <<i, m, y>>
    BY <1>3, FourTuple
  <2> QED BY <1>4, <2>1
<1>9. /\ Drop3(id) \in Seq(Step) /\ Drop3(id) # <<>> /\ Head(Drop3(id)) = At("invalid", id)
      /\ Tail(Drop3(id)) = Drop2(id)
  <2>1. <<i, m, y>> \in Seq(Step) /\ <<i, m, y>> # <<>> /\ Head(<<i, m, y>>) = i /\ Tail(<<i, m, y>>) = <<m, y>>
    BY <1>3, Tuples
  <2> QED BY <1>4, <2>1
<1>10. /\ Drop2(id) \in Seq(Step) /\ Drop2(id) # <<>> /\ Head(Drop2(id)) = At("remove", id)
      /\ Tail(Drop2(id)) = Drop1(id)
  <2>1. <<m, y>> \in Seq(Step) /\ <<m, y>> # <<>> /\ Head(<<m, y>>) = m /\ Tail(<<m, y>>) = <<y>>
    BY <1>3, Tuples
  <2> QED BY <1>4, <2>1
<1>11. /\ Drop1(id) \in Seq(Step) /\ Drop1(id) # <<>> /\ Head(Drop1(id)) = At("retry", id)
      /\ Tail(Drop1(id)) = <<>>
  <2>1. <<y>> \in Seq(Step) /\ <<y>> # <<>> /\ Head(<<y>>) = y /\ Tail(<<y>>) = <<>>
    BY <1>3, Tuples
  <2> QED BY <1>4, <2>1
<1> QED BY <1>5, <1>6, <1>7, <1>8, <1>9, <1>10, <1>11

(* No plan is another one: they differ in their first operations and lengths. *)
LEMMA PlansDiffer ==
  ASSUME NEW id
  PROVE  /\ Tell3(id) # Tell2(id) /\ Tell3(id) # Tell1(id) /\ Tell2(id) # Tell1(id)
         /\ {Tell3(id), Tell2(id), Tell1(id)} \cap {Drop4(id), Drop3(id), Drop2(id), Drop1(id)} = {}
         /\ Drop4(id) \notin {Drop3(id), Drop2(id), Drop1(id)}
         /\ Drop3(id) \notin {Drop2(id), Drop1(id)} /\ Drop2(id) # Drop1(id)
<1>1. \A a, b \in {"sid", "history", "invalid", "remove", "report", "retry"} :
        At(a, id) = At(b, id) => a = b
  BY DEF At
<1>2. /\ Len(Tell3(id)) = 3 /\ Len(Tell2(id)) = 2 /\ Len(Tell1(id)) = 1
      /\ Len(Drop4(id)) = 4 /\ Len(Drop3(id)) = 3 /\ Len(Drop2(id)) = 2 /\ Len(Drop1(id)) = 1
  BY PlanTuples
<1>3. /\ Tell3(id)[1] = At("sid", id) /\ Tell2(id)[1] = At("history", id) /\ Tell1(id)[1] = At("report", id)
      /\ Drop3(id)[1] = At("invalid", id) /\ Drop2(id)[1] = At("remove", id) /\ Drop1(id)[1] = At("retry", id)
  BY PlanTuples
<1> QED BY <1>1, <1>2, <1>3

(* A row is found by its id as long as histories only grow. *)
LEMMA RowsKept ==
  ASSUME RowsOk, \A p \in Providers : history[p] \subseteq history'[p],
         \A r \in rows' \cup tasks' : r \in rows \cup tasks \/ \E p \in Providers : r.id \in history'[p]
  PROVE  RowsOk'
BY DEF RowsOk

(* What a crash takes is cut; nothing else is lost. *)
LEMMA AnswersKept ==
  ASSUME AnswersOk, UNCHANGED answers, cut \subseteq cut',
         \A r \in rows \cup tasks : r.turn \in cut' \/ r \in rows' \cup tasks'
  PROVE  AnswersOk'
<1> SUFFICES ASSUME NEW a \in answers, a.provider \notin Late, a.turn \notin cut',
                    NEW k \in {"user_message", "assistant_text"}
             PROVE  [turn |-> a.turn, kind |-> k, id |-> a.id] \in rows' \cup tasks'
  BY DEF AnswersOk
<1>1. [turn |-> a.turn, kind |-> k, id |-> a.id] \in rows \cup tasks
  BY DEF AnswersOk
<1> QED BY <1>1

(* But where its removal is the next operation, no .sid file holds a barred id. *)
LEMMA SidFree ==
  ASSUME HistoryInv, NEW q \in Providers,
         turn = Idle \/ q # turn.provider \/ todo # Drop2(turn.id)
  PROVE  sid[q] # None => sid[q] \notin Barred(q)
BY DEF HistoryInv, FilesOk, Clearing

LEMMA QuietFiles ==
  ASSUME HistoryInv, NEW q \in Providers, todo = <<>>
  PROVE  sid[q] # None => sid[q] \notin Barred(q)
<1>1. turn # Idle => todo # Drop2(turn.id)
  BY AtWork, Plans DEF HistoryInv
<1> QED BY <1>1, SidFree

LEMMA StartKeepsInv ==
  ASSUME HistoryInv, NEW p \in Providers, StartTurn(p)
  PROVE  HistoryInv'
<1> DEFINE id == turn'.id
<1>1. /\ turn = Idle /\ todo = <<>> /\ UNCHANGED <<sid, history, invalid, legacy, interrupted, rows, tasks, answers, cut, todo>>
      /\ turns + 1 \in Turns /\ turns' = turns + 1 /\ turns' \in 0..MaxTurns
      /\ memory' = [memory EXCEPT ![p] = Handle(p)]
      /\ turn' = [phase |-> "running", n |-> turns + 1, provider |-> p, id |-> id,
                  resumed |-> Handle(p) # None, announced |-> FALSE, current |-> None, message |-> TRUE]
      /\ id \in SessionFor(Handle(p)) /\ used' = used \cup {id}
  <2>1. turn = Idle /\ turns < MaxTurns /\ turns \in 0..MaxTurns /\ MaxTurns \in Nat
    BY HistoryAssumption DEF HistoryAssumption, HistoryInv, TypeOK, StartTurn
  <2>2. todo = <<>>
    BY <2>1 DEF HistoryInv, TypeOK
  <2> QED BY <2>1, <2>2 DEF StartTurn, files, historyVars, Turns
<1>2. /\ memory \in [Providers -> AllIds \cup {None, Absent}] /\ sid[p] \in AllIds \cup {None}
      /\ legacy \in {Legacy, None} /\ invalid[p] \subseteq AllIds /\ used \subseteq AllIds
      /\ FilesOk(p) /\ memory[p] \in {Absent, OnDisk(p)}
      /\ sid[p] # None => sid[p] \notin Barred(p)
  BY <1>1, QuietFiles DEF HistoryInv, TypeOK, FilesOk
<1>3. OnDisk(p) \in AllIds \cup {None} /\ Handle(p) = OnDisk(p)
  BY <1>2, Constants DEF OnDisk, Handle
<1>4. /\ id \in AllIds /\ id \notin Barred(p) /\ Supersedes(p, id)
      /\ OnDisk(p) = IF Handle(p) # None THEN id ELSE None
  <2>1. CASE OnDisk(p) = None
    <3>1. id \in Ids \ used
      BY <1>1, <1>3, <2>1 DEF SessionFor
    <3>2. legacy = None \/ legacy \in invalid[p]
      BY <1>2, <2>1, Constants DEF OnDisk
    <3> QED BY <1>2, <1>3, <2>1, <3>1, <3>2, Constants DEF FilesOk, Supersedes
  <2>2. CASE OnDisk(p) # None
    <3>1. id = OnDisk(p)
      BY <1>1, <1>3, <2>2 DEF SessionFor
    <3> QED BY <1>2, <1>3, <2>2, <3>1, Constants DEF FilesOk, Supersedes, OnDisk
  <2> QED BY <2>1, <2>2
<1> HIDE DEF id
<1>5. turn' \in Turn
  BY <1>1, <1>4 DEF Turn
<1>6. TypeOK'
  <2>1. memory' \in [Providers -> AllIds \cup {None, Absent}]
    BY <1>1, <1>2, <1>3
  <2> QED BY <1>1, <1>4, <1>5, <2>1 DEF HistoryInv, TypeOK, StartTurn
<1>7. ASSUME NEW q \in Providers PROVE FilesOk(q)'
  <2>1. q # p => memory'[q] = memory[q]
    BY <1>1, <1>2
  <2>2. turn'.provider = p /\ turn' # Idle
    BY <1>1, <1>5, AtWork
  <2>3. OnDisk(q)' = OnDisk(q) /\ Supersedes(q, sid[q])' = Supersedes(q, sid[q])
    BY <1>1 DEF OnDisk, Supersedes
  <2>4. /\ FilesOk(q) /\ memory[q] \in {Absent, OnDisk(q)} /\ used \subseteq used'
        /\ sid[q] # None => sid[q] \notin Barred(q)
    BY <1>1, QuietFiles DEF HistoryInv, FilesOk
  <2> QED BY <1>1, <2>1, <2>2, <2>3, <2>4 DEF FilesOk
<1>8. TurnOk'
  <2>1. /\ turn'.provider = p /\ turn'.id = id /\ turn'.resumed = (Handle(p) # None)
        /\ turn'.announced = FALSE /\ turn'.current = None /\ turn'.message = TRUE
    BY <1>1
  <2>2. memory'[p] = OnDisk(p) /\ OnDisk(p)' = OnDisk(p)
    BY <1>1, <1>2, <1>3 DEF OnDisk
  <2> QED BY <1>1, <1>3, <1>4, <2>1, <2>2 DEF TurnOk, Supersedes, OnDisk
<1>9. RowsOk'
  BY <1>1, RowsKept DEF HistoryInv
<1>10. AnswersOk'
  BY <1>1, AnswersKept DEF HistoryInv
<1> QED BY <1>6, <1>7, <1>8, <1>9, <1>10 DEF HistoryInv

(* A turn that has nothing left to write, and one that has. *)
LEMMA QuietTurn ==
  ASSUME HistoryInv, turn # Idle, todo = <<>>
  PROVE  LET p == turn.provider  id == turn.id
         IN /\ memory[p] = OnDisk(p) /\ id \notin Barred(p)
            /\ memory[p] = IF turn.resumed \/ turn.announced THEN id ELSE None
            /\ turn.announced => turn.current = id /\ Message(turn.n, id) \in rows \cup tasks
BY AtWork, Plans DEF HistoryInv, TurnOk

(* The files of the providers the turn is not of are left alone. *)
LEMMA OthersKept ==
  ASSUME HistoryInv, turn # Idle, NEW q \in Providers, q # turn.provider,
         memory'[q] = memory[q], sid'[q] = sid[q], invalid'[q] = invalid[q],
         interrupted'[q] = interrupted[q], legacy' = legacy, used \subseteq used'
  PROVE  FilesOk(q)'
<1>1. OnDisk(q)' = OnDisk(q) /\ Supersedes(q, sid[q])' = Supersedes(q, sid[q])
  BY DEF OnDisk, Supersedes
<1>2. FilesOk(q) /\ memory[q] \in {Absent, OnDisk(q)} /\ (sid[q] # None => sid[q] \notin Barred(q))
  BY SidFree DEF HistoryInv, FilesOk
<1> QED BY <1>1, <1>2 DEF FilesOk

LEMMA AnnounceKeepsInv ==
  ASSUME HistoryInv, Announce
  PROVE  HistoryInv'
<1> DEFINE p == turn.provider
           id == turn.id
<1>1. /\ turn # Idle /\ todo = <<>> /\ ~turn.announced
      /\ memory' = [memory EXCEPT ![p] = id] /\ todo' = Tell3(id)
      /\ turn' = [turn EXCEPT !.announced = TRUE]
      /\ UNCHANGED <<sid, history, invalid, legacy, tasks, rows, used, turns, crashes, answers, interrupted, cut>>
  BY DEF Announce, files, historyVars, Tell3
<1>2. /\ TypeOK /\ FilesOk(p) /\ TurnOk /\ turn \in Turn /\ p \in Providers /\ id \in AllIds
      /\ id \notin Barred(p) /\ turn.message
      /\ memory \in [Providers -> AllIds \cup {None, Absent}]
  BY <1>1, AtWork, QuietTurn DEF HistoryInv, TurnOk, TypeOK
<1>3. /\ turn' \in Turn /\ turn' # Idle /\ turn'.provider = p /\ turn'.id = id /\ turn'.n = turn.n
      /\ turn'.announced /\ turn'.message /\ turn'.current = turn.current
  BY <1>1, <1>2, AtWork DEF Turn
<1>4. TypeOK'
  BY <1>1, <1>2, <1>3, Plans DEF TypeOK
<1>5. ASSUME NEW q \in Providers PROVE FilesOk(q)'
  <2>1. CASE q = p
    BY <1>1, <1>2, <1>3, <2>1, QuietFiles DEF FilesOk, Supersedes
  <2>2. CASE q # p
    BY <1>1, <1>2, <2>2, OthersKept
  <2> QED BY <2>1, <2>2
<1>6. TurnOk'
  <2>1. memory'[p] = id
    BY <1>1, <1>2
  <2>2. todo' # Tell1(id)
    BY <1>1, PlansDiffer
  <2> QED BY <1>1, <1>2, <1>3, <2>1, <2>2 DEF TurnOk, Supersedes
<1>7. RowsOk'
  BY <1>1, RowsKept DEF HistoryInv
<1>8. AnswersOk'
  BY <1>1, AnswersKept DEF HistoryInv
<1> QED BY <1>4, <1>5, <1>6, <1>7, <1>8 DEF HistoryInv

LEMMA RefusalKeepsInv ==
  ASSUME HistoryInv, ResumeInvalid
  PROVE  HistoryInv'
<1> DEFINE p == turn.provider
           id == turn.id
<1>1. /\ turn # Idle /\ todo = <<>> /\ turn.resumed
      /\ memory' = [memory EXCEPT ![p] = None] /\ todo' = Drop4(memory[p])
      /\ UNCHANGED <<sid, history, invalid, legacy, turn, tasks, rows, used, turns, crashes, answers, interrupted, cut>>
  BY DEF ResumeInvalid, files, historyVars, Drop4
<1>2. /\ TypeOK /\ FilesOk(p) /\ TurnOk /\ turn \in Turn /\ p \in Providers /\ id \in AllIds
      /\ id \notin Barred(p) /\ memory[p] = id
      /\ memory \in [Providers -> AllIds \cup {None, Absent}]
  BY <1>1, AtWork, QuietTurn DEF HistoryInv, TypeOK
<1>3. TypeOK'
  BY <1>1, <1>2, Plans DEF TypeOK
<1>4. ASSUME NEW q \in Providers PROVE FilesOk(q)'
  <2>1. CASE q = p
    BY <1>1, <1>2, <2>1, QuietFiles DEF FilesOk, Supersedes
  <2>2. CASE q # p
    BY <1>1, <1>2, <2>2, OthersKept
  <2> QED BY <2>1, <2>2
<1>5. TurnOk'
  <2>1. memory'[p] = None
    BY <1>1, <1>2
  <2>2. todo' = Drop4(id) /\ todo' \notin {Drop2(id), Drop1(id)}
    BY <1>1, <1>2, PlansDiffer
  <2> QED BY <1>1, <1>2, <2>1, <2>2 DEF TurnOk, Supersedes
<1>6. RowsOk'
  BY <1>1, RowsKept DEF HistoryInv
<1>7. AnswersOk'
  BY <1>1, AnswersKept DEF HistoryInv
<1> QED BY <1>1, <1>3, <1>4, <1>5, <1>6, <1>7 DEF HistoryInv

LEMMA FeedKeepsInv ==
  ASSUME HistoryInv, FeedItem
  PROVE  HistoryInv'
<1> DEFINE p == turn.provider
           answer == [turn |-> turn.n, provider |-> p, id |-> turn.id]
           row == [turn |-> turn.n, kind |-> "assistant_text", id |-> turn.current]
<1>1. /\ turn # Idle /\ todo = <<>> /\ (turn.announced \/ p \in Late)
      /\ answers' = answers \cup {answer}
      /\ tasks' = IF turn.current = None THEN tasks ELSE tasks \cup {row}
      /\ UNCHANGED <<memory, sid, history, invalid, legacy, turn, todo, rows, used, turns, crashes, interrupted, cut>>
  BY DEF FeedItem, files
<1>2. /\ TypeOK /\ TurnOk /\ turn \in Turn /\ p \in Providers /\ turn.id \in AllIds /\ turn.n \in Turns
      /\ turn.current \in AllIds \cup {None} /\ RowsOk /\ AnswersOk
      /\ turn.announced => turn.current = turn.id /\ Message(turn.n, turn.id) \in rows \cup tasks
  BY <1>1, AtWork, QuietTurn DEF HistoryInv
<1>3. answer \in Answer /\ (turn.current # None => row \in Row) /\ tasks \subseteq tasks'
  BY <1>1, <1>2 DEF Answer, Row
<1>4. TypeOK'
  BY <1>1, <1>2, <1>3 DEF TypeOK
<1>5. ASSUME NEW q \in Providers PROVE FilesOk(q)'
  BY <1>1, QuietFiles DEF HistoryInv, FilesOk, Supersedes, OnDisk
<1>6. TurnOk'
  BY <1>1, <1>2, <1>3 DEF TurnOk, Supersedes, OnDisk
<1>7. RowsOk'
  <2>1. turn.current # None => row.id \in history[p]
    BY <1>2 DEF TurnOk
  <2> QED BY <1>1, <1>2, <2>1 DEF RowsOk
<1>8. AnswersOk'
  <2> SUFFICES ASSUME NEW a \in answers', a.provider \notin Late, a.turn \notin cut,
                      NEW k \in {"user_message", "assistant_text"}
               PROVE  [turn |-> a.turn, kind |-> k, id |-> a.id] \in rows' \cup tasks'
    BY <1>1 DEF AnswersOk
  <2>1. CASE a \in answers
    BY <1>1, <1>2, <1>3, <2>1 DEF AnswersOk
  <2>2. CASE a = answer
    <3>1. turn.announced /\ turn.current = turn.id /\ turn.current # None
      BY <1>1, <1>2, <2>2, Constants
    <3> QED BY <1>1, <1>2, <1>3, <2>2, <3>1 DEF Message
  <2> QED BY <1>1, <2>1, <2>2
<1> QED BY <1>1, <1>4, <1>5, <1>6, <1>7, <1>8 DEF HistoryInv

(* What a file operation leaves: the plan of the turn, one operation shorter. *)
LEMMA WriteFollowsPlan ==
  ASSUME HistoryInv, WriteFile
  PROVE  LET p == turn.provider  id == turn.id  s == Head(todo)
         IN /\ turn \in Turn /\ turn # Idle /\ p \in Providers /\ id \in AllIds /\ id \in used
            /\ turn' = turn /\ memory' = memory /\ s.id = id
            /\ \/ todo = Tell3(id) /\ s.op = "sid" /\ todo' = Tell2(id)
               \/ todo = Tell2(id) /\ s.op = "history" /\ todo' = Tell1(id)
               \/ todo = Drop4(id) /\ s.op = "history" /\ todo' = Drop3(id)
               \/ todo = Drop3(id) /\ s.op = "invalid" /\ todo' = Drop2(id)
               \/ todo = Drop2(id) /\ s.op = "remove" /\ todo' = Drop1(id)
<1> DEFINE id == turn.id
           s == Head(todo)
<1>1. /\ todo # <<>> /\ s.op \in {"sid", "history", "invalid", "remove"}
      /\ todo' = Tail(todo) /\ turn' = turn /\ memory' = memory
  BY DEF WriteFile
<1>2. turn \in Turn /\ turn # Idle /\ turn.provider \in Providers /\ id \in AllIds /\ TurnOk
  BY <1>1, AtWork DEF HistoryInv, TypeOK
<1>3. \A o \in {"sid", "history", "invalid", "remove", "report", "retry"} :
        At(o, id).op = o /\ At(o, id).id = id
  BY DEF At
<1>4. id \in used /\ todo \in {Tell3(id), Tell2(id), Tell1(id), Drop4(id), Drop3(id), Drop2(id), Drop1(id)}
  BY <1>1, <1>2 DEF TurnOk
<1>5. todo # Tell1(id) /\ todo # Drop1(id)
  BY <1>1, <1>2, <1>3, Plans
<1> QED BY <1>1, <1>2, <1>3, <1>4, <1>5, Plans

LEMMA WriteKeepsInv ==
  ASSUME HistoryInv, WriteFile
  PROVE  HistoryInv'
<1> DEFINE p == turn.provider
           id == turn.id
           s == Head(todo)
<1>1. /\ turn \in Turn /\ turn # Idle /\ p \in Providers /\ id \in AllIds /\ id \in used
      /\ turn' = turn /\ memory' = memory /\ s.id = id
      /\ \/ todo = Tell3(id) /\ s.op = "sid" /\ todo' = Tell2(id)
         \/ todo = Tell2(id) /\ s.op = "history" /\ todo' = Tell1(id)
         \/ todo = Drop4(id) /\ s.op = "history" /\ todo' = Drop3(id)
         \/ todo = Drop3(id) /\ s.op = "invalid" /\ todo' = Drop2(id)
         \/ todo = Drop2(id) /\ s.op = "remove" /\ todo' = Drop1(id)
  BY WriteFollowsPlan
<1>2. /\ UNCHANGED <<legacy, tasks, rows, used, turns, crashes, answers, cut>>
      /\ s.op = "sid" => sid' = [sid EXCEPT ![p] = id]
      /\ s.op = "remove" => sid' = [sid EXCEPT ![p] = None]
      /\ s.op \in {"history", "invalid"} => sid' = sid
      /\ history' = IF s.op = "history" THEN [history EXCEPT ![p] = @ \cup {id}] ELSE history
      /\ invalid' = IF s.op = "invalid" THEN [invalid EXCEPT ![p] = @ \cup {id}] ELSE invalid
      /\ interrupted' = IF s.op = "remove" THEN [interrupted EXCEPT ![p] = @ \ {id}] ELSE interrupted
  BY <1>1 DEF WriteFile
<1>3. /\ TypeOK /\ FilesOk(p) /\ TurnOk /\ RowsOk
      /\ sid \in [Providers -> AllIds \cup {None}]
      /\ history \in [Providers -> SUBSET AllIds] /\ invalid \in [Providers -> SUBSET AllIds]
      /\ interrupted \in [Providers -> SUBSET AllIds]
  BY <1>1 DEF HistoryInv, TypeOK
<1>4. /\ sid' \in [Providers -> AllIds \cup {None}]
      /\ history' \in [Providers -> SUBSET AllIds] /\ invalid' \in [Providers -> SUBSET AllIds]
      /\ interrupted' \in [Providers -> SUBSET AllIds]
      /\ sid'[p] = CASE s.op = "sid" -> id [] s.op = "remove" -> None [] OTHER -> sid[p]
      /\ history'[p] = history[p] \cup (IF s.op = "history" THEN {id} ELSE {})
      /\ invalid'[p] = invalid[p] \cup (IF s.op = "invalid" THEN {id} ELSE {})
      /\ interrupted'[p] = interrupted[p] \ (IF s.op = "remove" THEN {id} ELSE {})
      /\ \A q \in Providers : q # p => /\ sid'[q] = sid[q] /\ history'[q] = history[q]
                                       /\ invalid'[q] = invalid[q] /\ interrupted'[q] = interrupted[q]
  <2>1. CASE s.op = "sid"
    BY <1>1, <1>2, <1>3, <2>1
  <2>2. CASE s.op = "history"
    BY <1>1, <1>2, <1>3, <2>2
  <2>3. CASE s.op = "invalid"
    BY <1>1, <1>2, <1>3, <2>3
  <2>4. CASE s.op = "remove"
    BY <1>1, <1>2, <1>3, <2>4
  <2> QED BY <1>1, <2>1, <2>2, <2>3, <2>4
<1>5. TypeOK'
  <2>1. todo' \in Seq(Step)
    BY <1>1, Plans
  <2> QED BY <1>1, <1>2, <1>3, <1>4, <2>1 DEF TypeOK
<1>6. Supersedes(p, id) /\ Supersedes(p, id)'
  BY <1>1, <1>2, <1>3, <1>4 DEF TurnOk, Supersedes
<1>7. /\ todo \in {Tell3(id), Tell2(id)} =>
           turn.announced /\ turn.message /\ memory[p] = id /\ id \notin Barred(p)
      /\ todo = Tell2(id) => sid[p] = id
      /\ todo \in {Drop4(id), Drop3(id), Drop2(id)} => memory[p] = None
      /\ todo \in {Drop4(id), Drop3(id)} => id \notin Barred(p)
      /\ todo = Drop2(id) => id \in invalid[p]
      /\ turn.current # None => turn.current \in history[p]
      /\ ~turn.announced => turn.message
  BY <1>1, <1>3, Plans, PlansDiffer DEF TurnOk
<1>8. ASSUME NEW q \in Providers PROVE FilesOk(q)'
  <2>1. CASE q = p
    <3>1. invalid'[p] \subseteq used'
      BY <1>1, <1>2, <1>3, <1>4 DEF FilesOk
    <3>2. sid'[p] # None => Supersedes(p, sid[p])'
      <4>1. CASE s.op = "sid"
        BY <1>1, <1>2, <1>4, <1>6, <4>1 DEF Supersedes
      <4>2. CASE s.op # "sid"
        BY <1>1, <1>2, <1>3, <1>4, <4>2 DEF FilesOk, Supersedes
      <4> QED BY <4>1, <4>2
    <3>3. ASSUME sid'[p] # None, sid'[p] \in Barred(p)' PROVE Clearing(p)'
      <4>1. s.op # "sid"
        BY <1>1, <1>4, <1>7, <3>3
      <4>2. s.op # "remove" /\ sid'[p] = sid[p]
        BY <1>1, <1>4, <3>3, <4>1
      <4>3. todo # Drop2(id)
        BY <1>1, <4>1, <4>2, PlansDiffer
      <4>4. sid[p] \notin Barred(p)
        BY <1>1, <3>3, <4>2, <4>3, SidFree
      <4>5. s.op = "invalid" /\ sid[p] = id
        BY <1>1, <1>4, <3>3, <4>2, <4>4
      <4> QED BY <1>1, <4>2, <4>5 DEF Clearing
    <3> QED BY <1>1, <2>1, <3>1, <3>2, <3>3 DEF FilesOk
  <2>2. CASE q # p
    BY <1>1, <1>2, <1>4, <2>2, OthersKept
  <2> QED BY <2>1, <2>2
<1>9. TurnOk'
  <2>1. id \in used' /\ (turn.current # None => turn.current \in history'[p])
    BY <1>1, <1>2, <1>4, <1>7
  <2>2. CASE s.op = "sid"
    <3>1. /\ todo' \in {Tell3(id), Tell2(id), Tell1(id)} /\ turn.announced /\ turn.message
          /\ memory'[p] = id /\ id \notin Barred(p)' /\ sid'[p] = id /\ todo' # Tell1(id)
      BY <1>1, <1>4, <1>7, <2>2, PlansDiffer
    <3> QED BY <1>1, <1>6, <1>7, <2>1, <3>1 DEF TurnOk
  <2>3. CASE todo = Tell2(id) /\ s.op = "history" /\ todo' = Tell1(id)
    <3>1. /\ todo' \in {Tell3(id), Tell2(id), Tell1(id)} /\ turn.announced /\ turn.message
          /\ memory'[p] = id /\ id \notin Barred(p)' /\ sid'[p] = id /\ id \in history'[p]
      BY <1>1, <1>4, <1>7, <2>3
    <3> QED BY <1>1, <1>6, <1>7, <2>1, <3>1 DEF TurnOk
  <2>4. CASE todo = Drop4(id) /\ s.op = "history" /\ todo' = Drop3(id)
    <3>1. /\ todo' \in {Drop4(id), Drop3(id), Drop2(id), Drop1(id)} /\ memory'[p] = None
          /\ todo' \notin {Drop2(id), Drop1(id)} /\ id \notin Barred(p)'
      BY <1>1, <1>4, <1>7, <2>4, PlansDiffer
    <3> QED BY <1>1, <1>6, <1>7, <2>1, <3>1 DEF TurnOk
  <2>5. CASE s.op = "invalid"
    <3>1. /\ todo' \in {Drop4(id), Drop3(id), Drop2(id), Drop1(id)} /\ memory'[p] = None
          /\ id \in invalid'[p] /\ todo' \notin {Drop1(id), Drop3(id), Drop4(id)}
      BY <1>1, <1>4, <1>7, <2>5, PlansDiffer
    <3> QED BY <1>1, <1>6, <1>7, <2>1, <3>1 DEF TurnOk
  <2>6. CASE s.op = "remove"
    <3>1. /\ todo' = Drop1(id) /\ memory'[p] = None /\ id \in invalid'[p] /\ sid'[p] = None
          /\ todo' \notin {Drop3(id), Drop4(id)}
      BY <1>1, <1>4, <1>7, <2>6, PlansDiffer
    <3> QED BY <1>1, <1>6, <1>7, <2>1, <3>1 DEF TurnOk
  <2> QED BY <1>1, <2>2, <2>3, <2>4, <2>5, <2>6
<1>10. RowsOk'
  <2>1. \A q \in Providers : history[q] \subseteq history'[q]
    BY <1>1, <1>4
  <2> QED BY <1>2, <1>3, <2>1, RowsKept
<1>11. AnswersOk'
  BY <1>2, AnswersKept DEF HistoryInv
<1> QED BY <1>1, <1>5, <1>8, <1>9, <1>10, <1>11 DEF HistoryInv

LEMMA StoreKeepsInv ==
  ASSUME HistoryInv, StoreMessage
  PROVE  HistoryInv'
<1> DEFINE p == turn.provider
           id == turn.id
           row == Message(turn.n, id)
<1>1. /\ todo # <<>> /\ Head(todo).op = "report" /\ todo' = Tail(todo)
      /\ turn' = [turn EXCEPT !.current = id, !.message = FALSE]
      /\ tasks' = IF turn.message THEN tasks \cup {row} ELSE tasks
      /\ UNCHANGED <<memory, sid, history, invalid, legacy, rows, used, turns, crashes, answers, interrupted, cut>>
  BY DEF StoreMessage, files, historyVars, Message
<1>2. /\ TypeOK /\ turn \in Turn /\ turn # Idle /\ p \in Providers /\ id \in AllIds /\ turn.n \in Turns
      /\ FilesOk(p) /\ TurnOk /\ RowsOk
  BY <1>1, AtWork DEF HistoryInv, TypeOK
<1>3. todo = Tell1(id) /\ todo' = <<>>
  <2>1. \A o \in {"sid", "history", "invalid", "remove", "report", "retry"} : At(o, id).op = o
    BY DEF At
  <2>2. todo \in {Tell3(id), Tell2(id), Tell1(id), Drop4(id), Drop3(id), Drop2(id), Drop1(id)}
    BY <1>1, <1>2 DEF TurnOk
  <2> QED BY <1>1, <1>2, <2>1, <2>2, Plans
<1>4. /\ turn.announced /\ turn.message /\ memory[p] = id /\ id \notin Barred(p)
      /\ sid[p] = id /\ id \in history[p] /\ Supersedes(p, id) /\ id \in used
  BY <1>2, <1>3, Plans, PlansDiffer DEF TurnOk
<1>5. /\ turn' \in Turn /\ turn' # Idle /\ turn'.provider = p /\ turn'.id = id /\ turn'.n = turn.n
      /\ turn'.announced /\ turn'.current = id
  BY <1>1, <1>2, <1>4, AtWork DEF Turn
<1>6. row \in Row /\ row.id = id
  BY <1>2 DEF Row, Message
<1>7. TypeOK'
  BY <1>1, <1>2, <1>3, <1>5, <1>6 DEF TypeOK
<1>8. ASSUME NEW q \in Providers PROVE FilesOk(q)'
  <2>1. CASE q = p
    <3>1. sid[p] # None => sid[p] \notin Barred(p)
      BY <1>2, <1>3, PlansDiffer, SidFree
    <3> QED BY <1>1, <1>2, <1>5, <2>1, <3>1 DEF FilesOk, Supersedes
  <2>2. CASE q # p
    BY <1>1, <1>2, <2>2, OthersKept DEF HistoryInv
  <2> QED BY <2>1, <2>2
<1>9. TurnOk'
  <2>1. OnDisk(p) = id /\ OnDisk(p)' = id
    BY <1>1, <1>2, <1>4, Constants DEF OnDisk
  <2>2. Message(turn'.n, id) \in rows' \cup tasks'
    BY <1>1, <1>4, <1>5
  <2> QED BY <1>1, <1>3, <1>4, <1>5, <2>1, <2>2 DEF TurnOk, Supersedes
<1>10. RowsOk'
  BY <1>1, <1>2, <1>4, <1>6, RowsKept
<1>11. AnswersOk'
  BY <1>1, AnswersKept DEF HistoryInv
<1> QED BY <1>7, <1>8, <1>9, <1>10, <1>11 DEF HistoryInv

LEMMA RetryKeepsInv ==
  ASSUME HistoryInv, RetryFresh
  PROVE  HistoryInv'
<1> DEFINE p == turn.provider
           id == turn.id
           new == turn'.id
<1>1. /\ todo # <<>> /\ Head(todo).op = "retry" /\ todo' = Tail(todo)
      /\ turn' = [turn EXCEPT !.id = new, !.resumed = FALSE, !.announced = FALSE,
                              !.current = None, !.message = TRUE]
      /\ new \in Ids \ used /\ used' = used \cup {new}
      /\ UNCHANGED <<memory, sid, history, invalid, legacy, tasks, rows, turns, crashes, answers, interrupted, cut>>
  <2>1. /\ todo # <<>> /\ TypeOK
        /\ UNCHANGED <<memory, files, tasks, rows, turns, crashes, historyVars>>
    BY DEF RetryFresh, HistoryInv
  <2>2. turn \in Turn
    BY <2>1, AtWork DEF TypeOK
  <2>3. PICK fresh \in SessionFor(None) :
          /\ turn' = [turn EXCEPT !.id = fresh, !.resumed = FALSE, !.announced = FALSE,
                                  !.current = None, !.message = TRUE]
          /\ used' = used \cup {fresh}
    BY DEF RetryFresh
  <2>4. new = fresh
    BY <2>2, <2>3 DEF Turn
  <2> QED BY <2>1, <2>3, <2>4 DEF RetryFresh, files, historyVars, SessionFor
<1>2. /\ TypeOK /\ turn \in Turn /\ turn # Idle /\ p \in Providers /\ id \in AllIds
      /\ FilesOk(p) /\ TurnOk /\ legacy \in {Legacy, None}
  BY <1>1, AtWork DEF HistoryInv, TypeOK
<1> HIDE DEF new
<1>3. todo = Drop1(id) /\ todo' = <<>>
  <2>1. \A o \in {"sid", "history", "invalid", "remove", "report", "retry"} : At(o, id).op = o
    BY DEF At
  <2>2. todo \in {Tell3(id), Tell2(id), Tell1(id), Drop4(id), Drop3(id), Drop2(id), Drop1(id)}
    BY <1>1, <1>2 DEF TurnOk
  <2> QED BY <1>1, <1>2, <2>1, <2>2, Plans
<1>4. memory[p] = None /\ sid[p] = None /\ id \in invalid[p] /\ Supersedes(p, id)
  BY <1>2, <1>3, Plans, PlansDiffer DEF TurnOk
<1>5. /\ turn' \in Turn /\ turn' # Idle /\ turn'.provider = p /\ turn'.id = new /\ ~turn'.resumed
      /\ ~turn'.announced /\ turn'.current = None /\ turn'.message
  BY <1>1, <1>2, AtWork, Constants DEF Turn
<1>6. TypeOK'
  BY <1>1, <1>2, <1>3, <1>5, Constants DEF TypeOK
<1>7. ASSUME NEW q \in Providers PROVE FilesOk(q)'
  <2>1. CASE q = p
    BY <1>1, <1>2, <1>4, <1>5, <2>1 DEF FilesOk, Supersedes
  <2>2. CASE q # p
    BY <1>1, <1>2, <2>2, OthersKept
  <2> QED BY <2>1, <2>2
<1>8. TurnOk'
  <2>1. legacy = None \/ legacy \in invalid[p]
    BY <1>4 DEF Supersedes
  <2>2. OnDisk(p)' = None
    BY <1>1, <1>4, <2>1 DEF OnDisk
  <2>3. new \notin Barred(p)'
    BY <1>1, <1>2 DEF FilesOk
  <2> QED BY <1>1, <1>3, <1>4, <1>5, <2>1, <2>2, <2>3 DEF TurnOk, Supersedes
<1>9. RowsOk'
  BY <1>1, RowsKept DEF HistoryInv
<1>10. AnswersOk'
  BY <1>1, AnswersKept DEF HistoryInv
<1> QED BY <1>6, <1>7, <1>8, <1>9, <1>10 DEF HistoryInv

(* The end of the CLI, the end of the turn, and an insert of a row. *)
LEMMA EndsKeepInv ==
  ASSUME HistoryInv, Exit \/ EndTurn
  PROVE  HistoryInv'
<1> DEFINE p == turn.provider
<1>1. /\ turn # Idle /\ todo = <<>> /\ turn' \in {[turn EXCEPT !.phase = "exited"], Idle}
      /\ UNCHANGED <<memory, sid, history, invalid, legacy, todo, tasks, rows, used, turns, crashes, answers, interrupted, cut>>
  BY DEF Exit, EndTurn, files, historyVars
<1>2. /\ TypeOK /\ turn \in Turn /\ p \in Providers /\ FilesOk(p) /\ TurnOk /\ memory[p] = OnDisk(p)
  BY <1>1, AtWork, QuietTurn DEF HistoryInv
<1>3. turn' = Idle \/ (/\ turn' \in Turn /\ turn'.provider = p /\ turn'.id = turn.id /\ turn'.n = turn.n
                       /\ turn'.resumed = turn.resumed /\ turn'.announced = turn.announced
                       /\ turn'.current = turn.current /\ turn'.message = turn.message)
  BY <1>1, <1>2 DEF Turn
<1>4. TypeOK'
  BY <1>1, <1>2, <1>3 DEF TypeOK
<1>5. ASSUME NEW q \in Providers PROVE FilesOk(q)'
  <2>1. CASE q = p
    BY <1>1, <1>2, <2>1, QuietFiles DEF FilesOk, Supersedes, OnDisk
  <2>2. CASE q # p
    BY <1>1, <1>2, <2>2, OthersKept
  <2> QED BY <2>1, <2>2
<1>6. turn' # Idle => TurnOk'
  BY <1>1, <1>2, <1>3 DEF TurnOk, Supersedes, OnDisk
<1>7. RowsOk' /\ AnswersOk'
  BY <1>1, RowsKept, AnswersKept DEF HistoryInv
<1> QED BY <1>4, <1>5, <1>6, <1>7 DEF HistoryInv

LEMMA InsertKeepsInv ==
  ASSUME HistoryInv, NEW r \in tasks, Insert(r)
  PROVE  HistoryInv'
<1>1. /\ tasks' = tasks \ {r} /\ rows' = rows \cup {r} /\ rows' \cup tasks' = rows \cup tasks
      /\ UNCHANGED <<memory, sid, history, invalid, legacy, turn, todo, used, turns, crashes, answers, interrupted, cut>>
  BY DEF Insert, files, historyVars
<1>2. TypeOK'
  BY <1>1 DEF HistoryInv, TypeOK
<1>3. \A q \in Providers : FilesOk(q)'
  BY <1>1 DEF HistoryInv, FilesOk, Clearing, Supersedes, OnDisk
<1>4. turn' # Idle => TurnOk'
  BY <1>1 DEF HistoryInv, TurnOk, Supersedes, OnDisk
<1>5. RowsOk' /\ AnswersOk'
  BY <1>1 DEF HistoryInv, RowsOk, AnswersOk
<1> QED BY <1>2, <1>3, <1>4, <1>5 DEF HistoryInv

LEMMA RestartKeepsInv ==
  ASSUME HistoryInv, Restart
  PROVE  HistoryInv'
<1>1. /\ crashes < MaxCrashes /\ crashes' = crashes + 1
      /\ memory' = [p \in Providers |-> Absent] /\ turn' = Idle /\ todo' = <<>> /\ tasks' = {}
      /\ cut' = cut \cup {r.turn : r \in tasks} \cup (IF turn = Idle THEN {} ELSE {turn.n})
      /\ interrupted' = IF todo # <<>> /\ Head(todo).op = "remove"
                          THEN [interrupted EXCEPT ![turn.provider] = @ \cup {Head(todo).id}]
                          ELSE interrupted
      /\ UNCHANGED <<sid, history, invalid, legacy, rows, used, turns, answers>>
  BY DEF Restart, files
<1>2. TypeOK /\ turn \in Turn \cup {Idle} /\ tasks \subseteq Row
  BY DEF HistoryInv, TypeOK
<1>3. /\ interrupted' \in [Providers -> SUBSET AllIds]
      /\ \A q \in Providers : interrupted[q] \subseteq interrupted'[q]
      /\ \A q \in Providers : Clearing(q) => sid[q] \in interrupted'[q]
  <2>1. interrupted \in [Providers -> SUBSET AllIds] /\ todo \in Seq(Step) /\ (todo # <<>> => turn # Idle)
    BY <1>2 DEF TypeOK
  <2>2. ASSUME todo # <<>> PROVE Head(todo).id \in AllIds /\ turn.provider \in Providers
    <3>1. Head(todo) \in Step
      BY <2>1, <2>2, HeadTailProperties
    <3>2. Head(todo).id \in AllIds
      BY <3>1 DEF Step
    <3> QED BY <1>2, <2>1, <2>2, <3>2, AtWork
  <2>3. ASSUME NEW q \in Providers, Clearing(q) PROVE sid[q] \in interrupted'[q]
    <3>1. turn # Idle /\ turn.provider = q /\ sid[q] = turn.id /\ turn.id \in AllIds /\ todo = Drop2(turn.id)
      BY <1>2, <2>3, AtWork DEF Clearing
    <3>2. todo # <<>> /\ Head(todo).op = "remove" /\ Head(todo).id = turn.id
      BY <3>1, Plans DEF At
    <3> QED BY <1>1, <2>1, <3>1, <3>2
  <2> QED BY <1>1, <2>1, <2>2, <2>3
<1>4. TypeOK'
  <2>1. cut' \subseteq Turns
    BY <1>1, <1>2 DEF TypeOK, Turn, Row
  <2>2. crashes' \in 0..MaxCrashes
    BY <1>1, <1>2, HistoryAssumption DEF HistoryAssumption, TypeOK
  <2>3. memory' \in [Providers -> AllIds \cup {None, Absent}]
    BY <1>1
  <2>4. todo' \in Seq(Step)
    BY <1>1
  <2> QED BY <1>1, <1>2, <1>3, <2>1, <2>2, <2>3, <2>4 DEF TypeOK
<1>5. \A q \in Providers : FilesOk(q)'
  BY <1>1, <1>3 DEF HistoryInv, FilesOk, Supersedes
<1>6. RowsOk'
  BY <1>1, RowsKept DEF HistoryInv
<1>7. AnswersOk'
  BY <1>1, AnswersKept DEF HistoryInv
<1> QED BY <1>1, <1>4, <1>5, <1>6, <1>7 DEF HistoryInv
-----------------------------------------------------------------------------
LEMMA InitHasInv ==
  ASSUME Init
  PROVE  HistoryInv
<1>1. TypeOK
  BY HistoryAssumption, Constants DEF HistoryAssumption, Init, TypeOK
<1>2. \A p \in Providers : FilesOk(p)
  BY DEF Init, FilesOk
<1> QED BY <1>1, <1>2 DEF Init, HistoryInv, RowsOk, AnswersOk

LEMMA StepKeepsInv ==
  ASSUME HistoryInv, [Next]_vars
  PROVE  HistoryInv'
<1>1. CASE UNCHANGED vars
  BY <1>1 DEF HistoryInv, TypeOK, FilesOk, Clearing, TurnOk, RowsOk, AnswersOk, Supersedes, OnDisk,
              vars, files, historyVars
<1>2. CASE Next
  BY <1>2, StartKeepsInv, AnnounceKeepsInv, RefusalKeepsInv, FeedKeepsInv, EndsKeepInv,
     WriteKeepsInv, StoreKeepsInv, RetryKeepsInv, InsertKeepsInv, RestartKeepsInv DEF Next
<1> QED BY <1>1, <1>2

LEMMA HistoryAlways == Spec => []HistoryInv
BY InitHasInv, StepKeepsInv, PTL DEF Spec

(* The tracker, its files, the turn and the stored rows keep their types: an
   id is never taken for "no id" or for "no handle". *)
THEOREM HistoryTypes == Spec => []TypeOK
<1>1. HistoryInv => TypeOK
  BY DEF HistoryInv
<1> QED BY <1>1, HistoryAlways, PTL

(* Between turns every handle in memory agrees with what get_for_session
   would read from the files: a restart of the engine at that moment changes
   no provider's session. Of a death in the middle of a turn it says nothing:
   after it there is no handle in memory. *)
THEOREM RestartHarmless == Spec => []RestartAgrees
<1>1. HistoryInv => RestartAgrees
  BY DEF HistoryInv, FilesOk, RestartAgrees
<1> QED BY <1>1, HistoryAlways, PTL

(* An id whose refusal is in the .invalid file is not asked for again, whatever
   is written afterwards and wherever the engine dies, but for one moment: its
   death between the append to .invalid and the removal of .sid. *)
THEOREM RefusalsHold == Spec => []RefusedStaysRefused
<1>1. HistoryInv => RefusedStaysRefused
  BY QuietTurn DEF RefusedStaysRefused
<1> QED BY <1>1, HistoryAlways, PTL

(* session_ids_for_history finds every row of the chat that was stored for a
   provider it lists. *)
THEOREM HistoryComplete == Spec => []HistoryShowsRows
<1>1. ASSUME HistoryInv PROVE HistoryShowsRows
  <2> SUFFICES ASSUME NEW r \in rows, \A p \in Providers \ Listed : r.id \notin history[p]
               PROVE  r.id \in SessionIdsForHistory
    BY DEF HistoryShowsRows
  <2>1. PICK p \in Providers : r.id \in history[p]
    BY <1>1 DEF HistoryInv, RowsOk
  <2>2. r.id # None
    BY <1>1, Constants DEF HistoryInv, TypeOK, Row
  <2> QED BY <2>1, <2>2 DEF SessionIdsForHistory
<1> QED BY <1>1, HistoryAlways, PTL

(* Every answer of a provider that tells its id first is stored with the
   message it answers, under one id, once the inserts of its turn are done. *)
THEOREM TranscriptComplete == Spec => []TranscriptIsWhole
<1>1. ASSUME HistoryInv PROVE TranscriptIsWhole
  <2> SUFFICES ASSUME NEW a \in answers, a.provider \notin Late, Settled(a.turn),
                      NEW k \in {"user_message", "assistant_text"}
               PROVE  [turn |-> a.turn, kind |-> k, id |-> a.id] \in rows
    BY DEF TranscriptIsWhole
  <2>1. [turn |-> a.turn, kind |-> k, id |-> a.id] \in rows \cup tasks
    BY <1>1 DEF HistoryInv, AnswersOk, Settled
  <2>2. [turn |-> a.turn, kind |-> k, id |-> a.id] \notin tasks
    BY DEF Settled
  <2> QED BY <2>1, <2>2
<1> QED BY <1>1, HistoryAlways, PTL
=============================================================================
