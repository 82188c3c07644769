-------------------------- MODULE Routines_proofs --------------------------
(***************************************************************************)
(* Proofs about Routines, for every set of routines and runs: the guard of *)
(* the agent's folder, the types, the scheduler's tasks, and what the run  *)
(* history and the board say of the runs.                                  *)
(***************************************************************************)
EXTENDS Routines, FiniteSetTheorems, SequenceTheorems, TLAPS

Places == InProgress \cup {"unused", "done", "abandoned"}

(* The guard alone is inductive: what it needs is who holds it and where the *)
(* runs are.                                                                 *)
GuardTypes ==
  /\ pc \in [Runs -> Places]
  /\ folder \in Runs \cup {NoRun}

GuardInv == GuardTypes /\ FolderIsGuarded

(* Dropping futures, whichever they are, leaves no guard behind and takes    *)
(* none from a run that goes on.                                             *)
LEMMA DropKeepsGuard ==
  ASSUME GuardInv, NEW dropped, Drop(dropped)
  PROVE  GuardInv'
<1>1. GuardTypes'
  BY DEF GuardInv, GuardTypes, Drop, Places, InProgress, Droppable, Drafting
<1>2. ASSUME NEW x \in Runs, pc'[x] \in {"holding", "awaiting"}
      PROVE  folder' = x
  <2>1. pc[x] = pc'[x] /\ x \notin dropped
    BY <1>2 DEF GuardInv, GuardTypes, Drop, Droppable
  <2>2. folder = x
    BY <1>2, <2>1 DEF GuardInv, FolderIsGuarded
  <2> QED
    BY <2>1, <2>2 DEF Drop
<1>3. ASSUME folder' # NoRun
      PROVE  pc'[folder'] \in {"holding", "awaiting"}
  <2>1. folder' = folder /\ folder \in Runs /\ folder \notin dropped
    BY <1>3 DEF GuardInv, GuardTypes, Drop
  <2>2. pc'[folder] = pc[folder]
    BY <2>1 DEF Drop
  <2> QED
    BY <1>3, <2>1, <2>2 DEF GuardInv, FolderIsGuarded
<1> QED
  BY <1>1, <1>2, <1>3 DEF GuardInv, FolderIsGuarded

(* A run moves, and neither takes nor gives up the folder. *)
LEMMA MoveKeepsGuard ==
  ASSUME GuardInv, NEW x \in Runs, NEW place \in Places \ {"holding", "awaiting"},
         pc[x] \notin {"holding", "awaiting"},
         pc' = [pc EXCEPT ![x] = place], UNCHANGED folder
  PROVE  GuardInv'
<1>1. GuardTypes'
  BY DEF GuardInv, GuardTypes
<1>2. ASSUME NEW y \in Runs, pc'[y] \in {"holding", "awaiting"}
      PROVE  folder' = y
  <2>1. pc[y] \in {"holding", "awaiting"}
    BY <1>2 DEF GuardInv, GuardTypes
  <2> QED
    BY <2>1 DEF GuardInv, FolderIsGuarded
<1>3. ASSUME folder' # NoRun
      PROVE  pc'[folder'] \in {"holding", "awaiting"}
  <2>1. folder \in Runs /\ pc[folder] \in {"holding", "awaiting"}
    BY <1>3 DEF GuardInv, GuardTypes, FolderIsGuarded
  <2> QED
    BY <2>1 DEF GuardInv, GuardTypes
<1> QED
  BY <1>1, <1>2, <1>3 DEF GuardInv, FolderIsGuarded

(* The holder gives up the folder and moves on. *)
LEMMA ReleaseKeepsGuard ==
  ASSUME GuardInv, NEW x \in Runs, pc[x] \in {"holding", "awaiting"},
         pc' = [pc EXCEPT ![x] = "judging"], folder' = NoRun
  PROVE  GuardInv'
<1>1. GuardTypes'
  BY DEF GuardInv, GuardTypes, Places, InProgress
<1>2. ASSUME NEW y \in Runs, pc'[y] \in {"holding", "awaiting"}
      PROVE  FALSE
  <2>1. y # x /\ pc[y] \in {"holding", "awaiting"}
    BY <1>2 DEF GuardInv, GuardTypes
  <2>2. folder = x /\ folder = y
    BY <2>1 DEF GuardInv, FolderIsGuarded
  <2> QED
    BY <2>1, <2>2
<1> QED
  BY <1>1, <1>2 DEF GuardInv, FolderIsGuarded

LEMMA SyncKeepsGuard ==
  ASSUME GuardInv, SyncAgent
  PROVE  GuardInv'
<1>1. CASE started
  <2>1. PICK dropped : Drop(dropped)
    BY <1>1 DEF SyncAgent, Sync
  <2> QED
    BY <2>1, DropKeepsGuard
<1>2. CASE ~started
  BY <1>2 DEF SyncAgent, GuardInv, GuardTypes, FolderIsGuarded
<1> QED
  BY <1>1, <1>2

(* A run takes the folder only while no run is in it. *)
LEMMA TakeKeepsGuard ==
  ASSUME GuardInv, NEW x \in Runs, TakeFolder(x)
  PROVE  GuardInv'
<1>1. NoRun \notin Runs
  BY RoutinesAssumption DEF RoutinesAssumption
<1>2. GuardTypes'
  BY DEF GuardInv, GuardTypes, TakeFolder, Places, InProgress, Droppable
<1>3. ASSUME NEW y \in Runs, y # x
      PROVE  pc'[y] \notin {"holding", "awaiting"}
  <2>1. pc[y] \notin {"holding", "awaiting"}
    BY <1>1 DEF GuardInv, FolderIsGuarded, TakeFolder
  <2> QED
    BY <1>3, <2>1 DEF GuardInv, GuardTypes, TakeFolder
<1>4. pc'[x] = "holding" /\ folder' = x
  BY DEF GuardInv, GuardTypes, TakeFolder
<1> QED
  BY <1>2, <1>3, <1>4 DEF GuardInv, FolderIsGuarded

LEMMA SpawnKeepsGuard ==
  ASSUME GuardInv, NEW x \in Runs, SpawnSession(x)
  PROVE  GuardInv'
<1>1. folder = x /\ folder' = x
  BY DEF GuardInv, FolderIsGuarded, SpawnSession
<1>2. GuardTypes'
  BY DEF GuardInv, GuardTypes, SpawnSession, Places, InProgress, Droppable
<1>3. \A y \in Runs : pc'[y] = IF y = x THEN "awaiting" ELSE pc[y]
  BY DEF GuardInv, GuardTypes, SpawnSession
<1> QED
  BY <1>1, <1>2, <1>3 DEF GuardInv, FolderIsGuarded

LEMMA RunStepKeepsGuard ==
  ASSUME GuardInv, NEW x \in Runs, RunStep(x)
  PROVE  GuardInv'
<1> USE DEF Places, InProgress, Droppable, Drafting
<1>1. CASE TakeFolder(x)
  BY <1>1, TakeKeepsGuard
<1>2. CASE Conflict(x)
  BY <1>2, MoveKeepsGuard DEF Conflict
<1>3. CASE SeedFails(x)
  BY <1>3, ReleaseKeepsGuard DEF SeedFails
<1>4. CASE SpawnSession(x)
  BY <1>4, SpawnKeepsGuard
<1>5. ASSUME NEW o \in Outcome, Collect(x, o) PROVE GuardInv'
  BY <1>5, ReleaseKeepsGuard DEF Collect
<1>6. CASE SessionEnds(x)
  BY <1>6 DEF SessionEnds, GuardInv, GuardTypes, FolderIsGuarded
<1>7. CASE CreateCard(x)
  BY <1>7, MoveKeepsGuard DEF CreateCard
<1>8. CASE LinkCard(x)
  BY <1>8, MoveKeepsGuard DEF LinkCard
<1>9. CASE ReadForRecord(x)
  BY <1>9, MoveKeepsGuard DEF ReadForRecord
<1>10. CASE WriteRecord(x)
  BY <1>10, MoveKeepsGuard DEF WriteRecord
<1>11. CASE WriteRun(x)
  BY <1>11, MoveKeepsGuard DEF WriteRun
<1>12. CASE GiveUp(x)
  BY <1>12, MoveKeepsGuard DEF GiveUp
<1> QED
  BY <1>1, <1>2, <1>3, <1>4, <1>5, <1>6, <1>7, <1>8, <1>9, <1>10, <1>11, <1>12 DEF RunStep

LEMMA RestartKeepsGuard ==
  ASSUME GuardInv, Restart
  PROVE  GuardInv'
<1>1. \A x \in Runs : pc'[x] = IF pc[x] \in InProgress THEN "abandoned" ELSE pc[x]
  BY DEF Restart
<1>2. pc' \in [Runs -> Places]
  BY DEF GuardInv, GuardTypes, Restart, Places
<1>3. \A x \in Runs : pc'[x] \notin {"holding", "awaiting"}
  BY <1>1 DEF InProgress, Droppable, Drafting
<1>4. folder' = NoRun
  BY DEF Restart
<1> QED
  BY <1>2, <1>3, <1>4 DEF GuardInv, GuardTypes, FolderIsGuarded

LEMMA BeginKeepsGuard ==
  ASSUME GuardInv, NEW i \in Ids, NEW x \in Runs, Begin(i, x)
  PROVE  GuardInv'
BY MoveKeepsGuard DEF Begin, Places, InProgress, Droppable, Drafting

LEMMA GuardStep ==
  ASSUME GuardInv, [Next]_vars
  PROVE  GuardInv'
<1>1. CASE UNCHANGED <<pc, folder>>
  BY <1>1 DEF GuardInv, GuardTypes, FolderIsGuarded
<1>2. CASE Next
  <2>1. ASSUME NEW e \in Edits, EditStep(e)
        PROVE  GuardInv'
    <3>1. CASE SyncAfterEdit(e)
      BY <3>1, SyncKeepsGuard DEF SyncAfterEdit
    <3>2. CASE ~SyncAfterEdit(e)
      <4>1. UNCHANGED <<pc, folder>>
        BY <2>1, <3>2 DEF EditStep, CreateRoutine, UpdateRoutine, DeleteRoutine, ReadRoutines,
                          WriteRoutines, EditFails, EditDropped, callVars
      <4> QED BY <1>1, <4>1
    <3> QED BY <3>1, <3>2
  <2>2. CASE SchedulerSync
    BY <2>2, SyncKeepsGuard DEF SchedulerSync
  <2>3. CASE SchedulerStart \/ SetTimezone
    BY <2>3, DropKeepsGuard DEF SchedulerStart, SetTimezone, Sync
  <2>4. CASE SchedulerStop
    BY <2>4, DropKeepsGuard DEF SchedulerStop
  <2>5. ASSUME NEW i \in Ids, NEW x \in Runs, Fire(i, x) \/ RunNow(i, x)
        PROVE  GuardInv'
    BY <2>5, BeginKeepsGuard DEF Fire, RunNow
  <2>6. ASSUME NEW x \in Runs, RunStep(x)
        PROVE  GuardInv'
    BY <2>6, RunStepKeepsGuard
  <2>7. ASSUME NEW x \in Runs, ClientGone(x)
        PROVE  GuardInv'
    BY <2>7, DropKeepsGuard DEF ClientGone
  <2>8. CASE Restart
    BY <2>8, RestartKeepsGuard
  <2> QED
    BY <1>2, <2>1, <2>2, <2>3, <2>4, <2>5, <2>6, <2>7, <2>8 DEF Next
<1> QED
  BY <1>1, <1>2 DEF vars, callVars

(* The guard of an agent's folder is held exactly by the run that works      *)
(* under it, for any number of routines and runs, however many of them are   *)
(* aborted, dropped or lost in a restart: try_acquire and dispatch.          *)
THEOREM FolderGuard == Spec => []FolderIsGuarded
<1>1. Init => GuardInv
  BY DEF Init, GuardInv, GuardTypes, FolderIsGuarded, Places
<1>2. GuardInv /\ [Next]_vars => GuardInv'
  BY GuardStep
<1>3. GuardInv => FolderIsGuarded
  BY DEF GuardInv
<1> QED
  BY <1>1, <1>2, <1>3, PTL DEF Spec

(***************************************************************************)
(* Prune.  The rank of a position that is kept is the number of kept       *)
(* positions before it: it takes every value below their number, so the    *)
(* file that Prune makes is read from the kept positions, in their order.  *)
(***************************************************************************)
Kept(file) == {k \in DOMAIN file : ~Outdated(file, k)}

LEMMA PositionsFinite ==
  ASSUME NEW N \in Nat, NEW kept \in SUBSET (1..N)
  PROVE  IsFiniteSet(kept) /\ Cardinality(kept) \in Nat
<1>1. IsFiniteSet(1..N)
  <2>1. 1 \in Int /\ N \in Int
    OBVIOUS
  <2> QED BY <2>1, FS_Interval
<1>2. IsFiniteSet(kept)
  BY <1>1, FS_Subset
<1> QED BY <1>2, FS_CardinalityType

LEMMA RankGrows ==
  ASSUME NEW N \in Nat, NEW kept \in SUBSET (1..N)
  PROVE  /\ \A k \in kept : /\ Cardinality({j \in kept : j < k}) \in Nat
                            /\ Cardinality({j \in kept : j < k}) < Cardinality(kept)
         /\ \A j, k \in kept :
              j < k => Cardinality({m \in kept : m < j}) < Cardinality({m \in kept : m < k})
<1> DEFINE below(k) == {j \in kept : j < k}
           size == Cardinality(kept)
<1>0. kept \subseteq Nat
  OBVIOUS
<1>1. IsFiniteSet(kept) /\ size \in Nat /\ kept \subseteq Nat
  BY <1>0, PositionsFinite
<1>2. \A k \in kept : IsFiniteSet(below(k)) /\ Cardinality(below(k)) \in Nat
  BY <1>1, FS_Subset, FS_CardinalityType
<1>3. \A k \in kept : Cardinality(below(k)) < size
  <2> SUFFICES ASSUME NEW k \in kept PROVE Cardinality(below(k)) < size
    OBVIOUS
  <2>1. below(k) \subseteq kept /\ below(k) # kept
    BY <1>1
  <2> HIDE DEF below
  <2>2. Cardinality(below(k)) <= size /\ Cardinality(below(k)) # size
    BY <1>1, <2>1, FS_Subset
  <2> QED BY <1>1, <1>2, <2>2
<1>4. \A j, k \in kept : j < k => Cardinality(below(j)) < Cardinality(below(k))
  <2> SUFFICES ASSUME NEW j \in kept, NEW k \in kept, j < k
               PROVE  Cardinality(below(j)) < Cardinality(below(k))
    OBVIOUS
  <2>1. below(j) \subseteq below(k) /\ j \in below(k) /\ j \notin below(j)
    <3>1. \A m \in kept : m < j => m < k
      BY <1>1
    <3>2. ~(j < j)
      BY <1>1
    <3> QED BY <3>1, <3>2
  <2> HIDE DEF below
  <2>2. Cardinality(below(j)) <= Cardinality(below(k)) /\ Cardinality(below(j)) # Cardinality(below(k))
    BY <1>2, <2>1, FS_Subset
  <2> QED BY <1>2, <2>2
<1> QED BY <1>2, <1>3, <1>4

LEMMA RankIsOnto ==
  ASSUME NEW N \in Nat, NEW kept \in SUBSET (1..N), NEW n \in 1..Cardinality(kept)
  PROVE  /\ Cardinality(kept) \in Nat
         /\ \E k \in kept : Cardinality({j \in kept : j < k}) = n - 1
<1> DEFINE below(k) == {j \in kept : j < k}
           rank == [k \in kept |-> Cardinality(below(k))]
           size == Cardinality(kept)
           places == 0..(size - 1)
<1>1. IsFiniteSet(kept) /\ size \in Nat /\ kept \subseteq Nat
  BY PositionsFinite
<1>2. /\ \A k \in kept : Cardinality(below(k)) \in Nat /\ Cardinality(below(k)) < size
      /\ \A j, k \in kept : j < k => Cardinality(below(j)) < Cardinality(below(k))
  BY RankGrows
<1>5. rank \in [kept -> places]
  BY <1>1, <1>2
<1>6. \A j, k \in kept : rank[j] = rank[k] => j = k
  BY <1>1, <1>2
<1>7. rank \in Injection(kept, places)
  <2> HIDE DEF rank, places
  <2> QED BY <1>5, <1>6 DEF Injection, IsInjective
<1>8. IsFiniteSet(places) /\ Cardinality(places) = size
  <2> HIDE DEF size
  <2>1. 0 \in Int /\ size - 1 \in Int
    BY <1>1
  <2>2. Cardinality(places) = IF 0 > size - 1 THEN 0 ELSE (size - 1) - 0 + 1
    BY <2>1, FS_Interval
  <2>3. IsFiniteSet(places)
    BY <2>1, FS_Interval
  <2> QED BY <1>1, <2>2, <2>3
<1>9. rank \in Surjection(kept, places)
  <2> HIDE DEF rank, places
  <2> QED BY <1>1, <1>7, <1>8, FS_Injection
<1>10. n - 1 \in places
  BY <1>1
<1>11. \E k \in kept : rank[k] = n - 1
  <2> HIDE DEF rank, places
  <2> QED BY <1>9, <1>10 DEF Surjection
<1> QED BY <1>1, <1>11

(* What is left of a file was in it. *)
LEMMA PruneKeeps ==
  ASSUME NEW S, NEW file \in Seq(S)
  PROVE  /\ Prune(file) \in Seq(S)
         /\ \A n \in DOMAIN Prune(file) : \E k \in DOMAIN file : Prune(file)[n] = file[k]
<1> DEFINE kept == Kept(file)
           at(n) == CHOOSE k \in kept : Cardinality({j \in kept : j < k}) = n - 1
<1>1. Len(file) \in Nat /\ DOMAIN file = 1..Len(file) /\ kept \in SUBSET (1..Len(file))
  BY DEF Kept
<1>2. Prune(file) = [n \in 1..Cardinality(kept) |-> file[at(n)]]
  BY DEF Prune, Kept
<1> HIDE DEF kept
<1>3. Cardinality(kept) \in Nat
  BY <1>1, PositionsFinite
<1>4. \A n \in 1..Cardinality(kept) : at(n) \in kept
  BY <1>1, RankIsOnto
<1> HIDE DEF at
<1>5. \A n \in 1..Cardinality(kept) : file[at(n)] \in S
  <2>1. \A k \in 1..Len(file) : file[k] \in S
    OBVIOUS
  <2> QED BY <1>1, <1>4, <2>1
<1>6. Prune(file) \in [1..Cardinality(kept) -> S]
  BY <1>2, <1>5
<1>7. Prune(file) \in Seq(S)
  BY <1>3, <1>6
<1> QED BY <1>1, <1>2, <1>4, <1>7

(* What is left stands in the order it had, and everything kept is left. *)
LEMMA PruneOrders ==
  ASSUME NEW S, NEW file \in Seq(S)
  PROVE  \E at \in [DOMAIN Prune(file) -> Kept(file)] :
           /\ \A n \in DOMAIN Prune(file) : Prune(file)[n] = file[at[n]]
           /\ \A k \in Kept(file) : \E n \in DOMAIN Prune(file) : at[n] = k
           /\ \A m, n \in DOMAIN Prune(file) : m < n => at[m] < at[n]
<1> DEFINE kept == Kept(file)
           rank(k) == Cardinality({j \in kept : j < k})
           at(n) == CHOOSE k \in kept : rank(k) = n - 1
           size == Cardinality(kept)
<1>1. Len(file) \in Nat /\ DOMAIN file = 1..Len(file) /\ kept \in SUBSET (1..Len(file))
  BY DEF Kept
<1>2. Prune(file) = [n \in 1..size |-> file[at(n)]]
  BY DEF Prune, Kept
<1> HIDE DEF kept
<1>3. size \in Nat
  BY <1>1, PositionsFinite
<1>4. \A n \in 1..size : \E k \in kept : rank(k) = n - 1
  BY <1>1, RankIsOnto
<1>5. /\ \A k \in kept : rank(k) \in Nat /\ rank(k) < size
      /\ \A j, k \in kept : j < k => rank(j) < rank(k)
      /\ \A k \in kept : k \in Nat
  <2>1. PICK N \in Nat : N = Len(file)
    BY <1>1
  <2>2. kept \in SUBSET (1..N)
    BY <1>1, <2>1
  <2>3. /\ \A k \in kept : /\ Cardinality({j \in kept : j < k}) \in Nat
                           /\ Cardinality({j \in kept : j < k}) < Cardinality(kept)
        /\ \A j, k \in kept :
             j < k => Cardinality({m \in kept : m < j}) < Cardinality({m \in kept : m < k})
    BY <2>2, RankGrows
  <2>4. \A k \in kept : k \in Nat
    BY <2>2
  <2> QED BY <2>3, <2>4
<1> HIDE DEF rank, size
<1>6. \A n \in 1..size : at(n) \in kept /\ rank(at(n)) = n - 1
  BY <1>4
<1> HIDE DEF at
<1>7. \A m, n \in 1..size : m < n => at(m) < at(n)
  <2> SUFFICES ASSUME NEW m \in 1..size, NEW n \in 1..size, m < n, ~(at(m) < at(n))
               PROVE  FALSE
    OBVIOUS
  <2>1. PICK a \in kept : a = at(m) /\ rank(a) = m - 1
    BY <1>6
  <2>2. PICK b \in kept : b = at(n) /\ rank(b) = n - 1
    BY <1>6
  <2>3. rank(a) < rank(b)
    BY <1>3, <2>1, <2>2
  <2>4. a \in Nat /\ b \in Nat /\ ~(a < b) /\ rank(a) \in Nat /\ rank(b) \in Nat
    BY <1>5, <2>1, <2>2
  <2>5. a # b
    BY <2>3, <2>4
  <2>6. b < a
    BY <2>4, <2>5
  <2>7. rank(b) < rank(a)
    BY <1>5, <2>6
  <2> QED BY <2>3, <2>4, <2>7
<1>8. \A k \in kept : \E n \in 1..size : at(n) = k
  <2> SUFFICES ASSUME NEW k \in kept PROVE \E n \in 1..size : at(n) = k
    OBVIOUS
  <2>1. PICK n \in 1..size : n = rank(k) + 1
    BY <1>3, <1>5
  <2>2. PICK a \in kept : a = at(n) /\ rank(a) = n - 1
    BY <1>6
  <2>3. /\ rank(a) = rank(k) /\ rank(k) \in Nat /\ a \in Nat /\ k \in Nat
    BY <1>5, <2>1, <2>2
  <2>4. ~(a < k) /\ ~(k < a)
    <3>1. ~(a < k)
      BY <1>5, <2>3
    <3>2. ~(k < a)
      BY <1>5, <2>3
    <3> QED BY <3>1, <3>2
  <2>5. a = k
    BY <2>3, <2>4
  <2> QED BY <2>2, <2>5
<1> DEFINE f == [n \in 1..size |-> at(n)]
<1>9. /\ f \in [1..size -> kept]
      /\ \A n \in 1..size : f[n] = at(n)
      /\ DOMAIN Prune(file) = 1..size
      /\ \A n \in 1..size : Prune(file)[n] = file[at(n)]
  BY <1>2, <1>6
<1> HIDE DEF f
<1>10. /\ f \in [DOMAIN Prune(file) -> kept]
       /\ \A n \in DOMAIN Prune(file) : Prune(file)[n] = file[f[n]]
       /\ \A k \in kept : \E n \in DOMAIN Prune(file) : f[n] = k
       /\ \A m, n \in DOMAIN Prune(file) : m < n => f[m] < f[n]
  BY <1>7, <1>8, <1>9
<1> QED BY <1>10 DEF kept

(***************************************************************************)
(* Type correctness.  A dropped future leaves every other run where it is. *)
(***************************************************************************)
Abandons == \A x \in Runs : pc'[x] = pc[x] \/ (pc[x] \in InProgress /\ pc'[x] = "abandoned")

LEMMA DropTypes ==
  ASSUME TypeOK, NEW dropped, Drop(dropped)
  PROVE  /\ pc' \in [Runs -> Places]
         /\ folder' \in Runs \cup {NoRun}
         /\ \A x \in Runs : pc'[x] = pc[x] \/ (pc[x] \in Droppable /\ pc'[x] = "abandoned")
<1>1. pc \in [Runs -> Places] /\ folder \in Runs \cup {NoRun}
  BY DEF TypeOK, Places
<1>2. \A x \in Runs : pc'[x] = IF x \in dropped /\ pc[x] \in Droppable THEN "abandoned" ELSE pc[x]
  BY DEF Drop
<1>3. pc' \in [Runs -> Places]
  BY <1>1 DEF Drop, Places
<1>4. folder' \in Runs \cup {NoRun}
  BY <1>1 DEF Drop
<1> QED BY <1>2, <1>3, <1>4

(* One task for each routine: its own if it has one and is still enabled.    *)
LEMMA ReconciledTypes ==
  ASSUME NEW l \in Lists, NEW i \in Ids, NEW old \in [Ids -> Valid \cup {NoJob}]
  PROVE  /\ Reconciled(l, i, old) \in Valid \cup {NoJob}
         /\ ~Enabled(l, i) => Reconciled(l, i, old) = NoJob
         /\ Enabled(l, i) /\ l[i].schedule \in Valid => Reconciled(l, i, old) # NoJob
<1>0. NoJob \notin Valid
  BY RoutinesAssumption DEF RoutinesAssumption
<1>1. CASE ~Enabled(l, i)
  BY <1>1 DEF Reconciled
<1>2. CASE Enabled(l, i) /\ old[i] # NoJob
  BY <1>2 DEF Reconciled
<1>3. CASE Enabled(l, i) /\ old[i] = NoJob
  BY <1>0, <1>3 DEF Reconciled, SpawnCron
<1> QED BY <1>1, <1>2, <1>3

(* sync reads the file and leaves the tasks as the file wants them, unless   *)
(* it cannot be read.                                                        *)
Follows(new) ==
  \A i \in Ids :
    /\ ~Enabled(routines, i) => new[i] = NoJob
    /\ Enabled(routines, i) /\ routines[i].schedule \in Valid => new[i] # NoJob

LEMMA SyncReconciles ==
  ASSUME TypeOK, NEW old \in [Ids -> Valid \cup {NoJob}], Sync(old)
  PROVE  /\ jobs' \in [Ids -> Valid \cup {NoJob}]
         /\ ~astray' => Follows(jobs')
         /\ busy' \in [Ids -> Runs \cup {NoRun}]
         /\ astray' \in BOOLEAN
         /\ \E dropped : Drop(dropped)
<1>1. PICK l \in {routines, Unlisted} :
        LET new     == [i \in Ids |-> Reconciled(l, i, old)]
            aborted == {i \in Ids : jobs[i] # NoJob /\ (old[i] = NoJob \/ new[i] = NoJob)}
        IN  /\ jobs' = new
            /\ busy' = [i \in Ids |-> IF i \in aborted THEN NoRun ELSE busy[i]]
            /\ Drop({busy[i] : i \in aborted})
            /\ astray' = (l # routines)
  BY DEF Sync
<1> DEFINE new == [i \in Ids |-> Reconciled(l, i, old)]
           aborted == {i \in Ids : jobs[i] # NoJob /\ (old[i] = NoJob \/ new[i] = NoJob)}
<1>2. /\ jobs' = new
      /\ busy' = [i \in Ids |-> IF i \in aborted THEN NoRun ELSE busy[i]]
      /\ Drop({busy[i] : i \in aborted})
      /\ astray' = (l # routines)
  BY <1>1
<1>3. l \in Lists
  BY DEF TypeOK, Unlisted, Lists
<1>4. new \in [Ids -> Valid \cup {NoJob}]
  BY <1>3, ReconciledTypes
<1>5. l = routines => Follows(new)
  BY <1>3, ReconciledTypes DEF Follows
<1> HIDE DEF new, aborted
<1>6. busy' \in [Ids -> Runs \cup {NoRun}]
  BY <1>2 DEF TypeOK
<1> QED BY <1>2, <1>4, <1>5, <1>6

LEMMA AllAbortedTypes == AllAborted \in [Ids -> Valid \cup {NoJob}]
BY DEF AllAborted

(* The types, by who changes what: edits, the scheduler, the log, the runs. *)
EditTypes ==
  /\ routines \in Lists /\ born \subseteq Ids
  /\ edit \in [Edits -> {"idle", "read", "written"}]
  /\ list \in [Edits -> Lists]
TaskTypes ==
  /\ started \in BOOLEAN /\ astray \in BOOLEAN
  /\ jobs \in [Ids -> Valid \cup {NoJob}]
  /\ busy \in [Ids -> Runs \cup {NoRun}]
LogTypes ==
  /\ runs \in Seq(Entry) /\ draft \in [Runs -> Seq(Entry)]
  /\ total \in Nat /\ made \in [Runs -> Nat]
  /\ missed \in [Runs -> SUBSET Runs] /\ lost \subseteq Runs
RunTypes ==
  /\ pc \in [Runs -> Places]
  /\ of \in [Runs -> Ids]
  /\ folder \in Runs \cup {NoRun}
  /\ session \in [Runs -> {"none", "alive", "over"}]
  /\ outcome \in [Runs -> Outcome]

LEMMA TypeParts ==
  /\ TypeOK <=> EditTypes /\ TaskTypes /\ LogTypes /\ RunTypes /\ cards \subseteq Runs
  /\ TypeOK' <=> EditTypes' /\ TaskTypes' /\ LogTypes' /\ RunTypes' /\ cards' \subseteq Runs
BY DEF TypeOK, EditTypes, TaskTypes, LogTypes, RunTypes, Places

LEMMA InitTypes == Init => TypeOK
<1> SUFFICES ASSUME Init PROVE TypeOK
  OBVIOUS
<1>1. EditTypes
  BY DEF Init, EditTypes, Unlisted, Lists
<1>2. TaskTypes
  BY DEF Init, TaskTypes
<1>3. LogTypes
  BY DEF Init, LogTypes
<1>4. RunTypes
  <2>1. (CHOOSE i \in Ids : TRUE) \in Ids
    BY RoutinesAssumption DEF RoutinesAssumption
  <2> QED BY <2>1 DEF Init, RunTypes, Places, Outcome
<1> QED BY <1>1, <1>2, <1>3, <1>4, TypeParts DEF Init

(* The scheduler's steps change tasks, and drop futures: what they leave is  *)
(* typed, and an untold scheduler knows it.                                  *)
LEMMA SyncAgentTypes ==
  ASSUME TypeOK, SyncAgent
  PROVE  /\ jobs' \in [Ids -> Valid \cup {NoJob}] /\ astray' \in BOOLEAN
         /\ started /\ ~astray' => Follows(jobs')
         /\ busy' \in [Ids -> Runs \cup {NoRun}]
         /\ UNCHANGED <<pc, folder>> \/ \E dropped : Drop(dropped)
<1>1. CASE started
  <2>1. Sync(jobs) /\ jobs \in [Ids -> Valid \cup {NoJob}]
    BY <1>1 DEF SyncAgent, TypeOK
  <2> QED BY <2>1, SyncReconciles
<1>2. CASE ~started
  BY <1>2 DEF SyncAgent, TypeOK
<1> QED BY <1>1, <1>2

(* The steps of the requests and of the scheduler, with what they leave.     *)
RequestStep ==
  \/ \E e \in Edits : EditStep(e)
  \/ SchedulerSync \/ SchedulerStart \/ SchedulerStop \/ SetTimezone
  \/ \E x \in Runs : ClientGone(x)

LEMMA RequestTypes ==
  ASSUME TypeOK, RequestStep
  PROVE  /\ EditTypes' /\ TaskTypes'
         /\ UNCHANGED <<pc, folder>> \/ \E dropped : Drop(dropped)
         /\ UNCHANGED <<logVars, cards, of, session, outcome>>
<1> DEFINE dropping == UNCHANGED <<pc, folder>> \/ \E dropped : Drop(dropped)
<1>0. EditTypes /\ TaskTypes /\ TypeOK
  BY TypeParts
<1>u. Unlisted \in Lists
  BY DEF Unlisted, Lists
<1>1. ASSUME NEW e \in Edits, EditStep(e)
      PROVE  /\ EditTypes' /\ TaskTypes' /\ dropping
             /\ UNCHANGED <<logVars, cards, of, session, outcome>>
  <2>1. ASSUME NEW i \in Ids, DeleteRoutine(e, i)
        PROVE  /\ EditTypes' /\ UNCHANGED <<schedVars, logVars, cards, callVars>>
    <3>1. [routines EXCEPT ![i] = Missing] \in Lists
      BY <1>0 DEF EditTypes, Lists
    <3> QED BY <1>0, <2>1, <3>1 DEF DeleteRoutine, ReadRoutines, EditTypes
  <2>2. ASSUME NEW i \in Ids, NEW r \in Routine, CreateRoutine(e, i, r) \/ UpdateRoutine(e, i, r)
        PROVE  /\ EditTypes' /\ UNCHANGED <<schedVars, logVars, cards, callVars>>
    <3>1. [routines EXCEPT ![i] = r] \in Lists
      BY <1>0 DEF EditTypes, Lists
    <3>2. /\ edit' = [edit EXCEPT ![e] = "read"]
          /\ list' = [list EXCEPT ![e] = [routines EXCEPT ![i] = r]]
          /\ UNCHANGED <<routines, schedVars, logVars, cards, callVars>>
          /\ born' \subseteq Ids
      BY <1>0, <2>2 DEF CreateRoutine, UpdateRoutine, ReadRoutines, EditTypes
    <3> QED BY <1>0, <3>1, <3>2 DEF EditTypes
  <2>3. CASE WriteRoutines(e) \/ EditFails(e)
    <3>1. EditTypes' /\ UNCHANGED <<schedVars, logVars, cards, callVars>>
      BY <1>0, <1>u, <2>3 DEF WriteRoutines, EditFails, EditTypes
    <3> QED BY <1>0, <3>1 DEF schedVars, callVars, TaskTypes
  <2>4. CASE SyncAfterEdit(e)
    <3>1. SyncAgent
      BY <2>4 DEF SyncAfterEdit
    <3>2. /\ jobs' \in [Ids -> Valid \cup {NoJob}] /\ astray' \in BOOLEAN
          /\ busy' \in [Ids -> Runs \cup {NoRun}] /\ dropping
      BY <3>1, SyncAgentTypes
    <3> QED BY <1>0, <2>4, <3>2 DEF SyncAfterEdit, EditTypes, TaskTypes
  <2>5. CASE EditDropped(e)
    BY <1>0, <2>5 DEF EditDropped, EditTypes, TaskTypes, callVars
  <2>6. ASSUME UNCHANGED <<schedVars, logVars, cards, callVars>>
        PROVE  TaskTypes' /\ dropping /\ UNCHANGED <<logVars, cards, of, session, outcome>>
    BY <1>0, <2>6 DEF schedVars, callVars, TaskTypes
  <2> QED BY <1>1, <2>1, <2>2, <2>3, <2>4, <2>5, <2>6 DEF EditStep
<1>2. CASE SchedulerSync
  <2>1. /\ jobs' \in [Ids -> Valid \cup {NoJob}] /\ astray' \in BOOLEAN
        /\ busy' \in [Ids -> Runs \cup {NoRun}] /\ dropping
    BY <1>2, SyncAgentTypes DEF SchedulerSync
  <2> QED BY <1>0, <1>2, <2>1 DEF SchedulerSync, EditTypes, TaskTypes, editVars
<1>3. CASE SchedulerStart \/ SetTimezone
  <2>1. PICK old \in [Ids -> Valid \cup {NoJob}] : Sync(old)
    BY <1>0, <1>3, AllAbortedTypes DEF SchedulerStart, SetTimezone, TaskTypes
  <2>2. /\ jobs' \in [Ids -> Valid \cup {NoJob}] /\ astray' \in BOOLEAN
        /\ busy' \in [Ids -> Runs \cup {NoRun}] /\ dropping
    BY <2>1, SyncReconciles
  <2> QED BY <1>0, <1>3, <2>2 DEF SchedulerStart, SetTimezone, EditTypes, TaskTypes, editVars
<1>4. CASE SchedulerStop
  BY <1>0, <1>4, AllAbortedTypes DEF SchedulerStop, EditTypes, TaskTypes, editVars
<1>5. ASSUME NEW x \in Runs, ClientGone(x)
      PROVE  /\ EditTypes' /\ TaskTypes' /\ dropping
             /\ UNCHANGED <<logVars, cards, of, session, outcome>>
  BY <1>0, <1>5 DEF ClientGone, EditTypes, TaskTypes, editVars, schedVars
<1> QED BY <1>1, <1>2, <1>3, <1>4, <1>5 DEF RequestStep

LEMMA RequestAbandons ==
  ASSUME TypeOK, RequestStep
  PROVE  /\ TypeOK'
         /\ \A x \in Runs : pc'[x] = pc[x] \/ (pc[x] \in Droppable /\ pc'[x] = "abandoned")
<1>1. /\ EditTypes' /\ TaskTypes'
      /\ UNCHANGED <<pc, folder>> \/ \E dropped : Drop(dropped)
      /\ UNCHANGED <<logVars, cards, of, session, outcome>>
  BY RequestTypes
<1>2. /\ pc' \in [Runs -> Places]
      /\ folder' \in Runs \cup {NoRun}
      /\ \A x \in Runs : pc'[x] = pc[x] \/ (pc[x] \in Droppable /\ pc'[x] = "abandoned")
  <2>1. CASE UNCHANGED <<pc, folder>>
    BY <2>1, TypeParts DEF RunTypes
  <2>2. CASE \E dropped : Drop(dropped)
    BY <2>2, DropTypes
  <2> QED BY <1>1, <2>1, <2>2
<1>3. RunTypes' /\ LogTypes' /\ cards' \subseteq Runs
  BY <1>1, <1>2, TypeParts DEF RunTypes, LogTypes, logVars
<1> QED BY <1>1, <1>2, <1>3, TypeParts

(* A run writes the copy it holds. *)
LEMMA WriteDraftTypes ==
  ASSUME LogTypes, NEW x \in Runs, WriteDraft(x)
  PROVE  /\ runs' \in Seq(Entry) /\ draft' \in [Runs -> Seq(Entry)]
         /\ missed' \in [Runs -> SUBSET Runs] /\ lost' \subseteq Runs
<1>1. runs' = draft[x] /\ draft[x] \in Seq(Entry)
  BY DEF LogTypes, WriteDraft
<1>2. <<>> \in Seq(Entry)
  OBVIOUS
<1>3. draft' \in [Runs -> Seq(Entry)]
  BY <1>2 DEF LogTypes, WriteDraft
<1>4. missed' \in [Runs -> SUBSET Runs]
  BY DEF LogTypes, WriteDraft
<1>5. lost' \subseteq Runs
  BY DEF LogTypes, WriteDraft
<1> QED BY <1>1, <1>3, <1>4, <1>5

(* The copy of a run that begins: what was there, less what Prune takes.     *)
NewEntry(i, x) == [run |-> x, routine |-> i, status |-> "running"]

LEMMA BeginTypes ==
  ASSUME TypeOK, NEW i \in Ids, NEW x \in Runs, Begin(i, x), busy' \in [Ids -> Runs \cup {NoRun}]
  PROVE  TypeOK'
<1>1. NewEntry(i, x) \in Entry /\ runs \in Seq(Entry)
  BY TypeParts DEF Entry, Status, LogTypes, NewEntry
<1>2. Append(runs, NewEntry(i, x)) \in Seq(Entry)
  BY <1>1
<1>3. PICK file \in Seq(Entry) : file = Prune(Append(runs, NewEntry(i, x)))
  BY <1>2, PruneKeeps
<1>4. HoldDraft(x, file)
  BY <1>3 DEF Begin, NewEntry
<1>5. LogTypes'
  BY <1>4, TypeParts DEF HoldDraft, LogTypes
<1>6. EditTypes' /\ TaskTypes'
  BY TypeParts DEF Begin, EditTypes, TaskTypes, editVars
<1>7. RunTypes'
  BY TypeParts DEF Begin, RunTypes, Places, InProgress, Drafting
<1>8. cards' \subseteq Runs
  BY TypeParts DEF Begin
<1> QED BY <1>5, <1>6, <1>7, <1>8, TypeParts

(* Only the entries of the run are rewritten. *)
LEMMA UpdatedTypes ==
  ASSUME TypeOK, NEW x \in Runs, NEW status \in Status
  PROVE  /\ Updated(x, status) \in Seq(Entry)
         /\ DOMAIN Updated(x, status) = DOMAIN runs
         /\ \A k \in DOMAIN runs :
              /\ Updated(x, status)[k].run = runs[k].run
              /\ Updated(x, status)[k].routine = runs[k].routine
              /\ Updated(x, status)[k].status = IF runs[k].run = x THEN status ELSE runs[k].status
<1>1. runs \in Seq(Entry)
  BY TypeParts DEF LogTypes
<1>2. \A k \in DOMAIN runs : runs[k] \in Entry
  BY <1>1
<1>3. \A k \in DOMAIN runs :
        /\ Updated(x, status)[k] \in Entry
        /\ Updated(x, status)[k].run = runs[k].run
        /\ Updated(x, status)[k].routine = runs[k].routine
        /\ Updated(x, status)[k].status = IF runs[k].run = x THEN status ELSE runs[k].status
  BY <1>2 DEF Updated, Entry
<1>4. DOMAIN runs = 1..Len(runs) /\ Len(runs) \in Nat
  BY <1>1
<1>5. Updated(x, status) \in [1..Len(runs) -> Entry]
  BY <1>3, <1>4 DEF Updated
<1> QED BY <1>3, <1>4, <1>5

LEMMA RecordedIsAStatus ==
  ASSUME NEW x \in Runs
  PROVE  RecordedStatus(x) \in Status \ {"running"}
BY DEF RecordedStatus, Status

(* What a run does between its files. *)
Moves(x) ==
  \/ TakeFolder(x) \/ Conflict(x) \/ SeedFails(x) \/ SpawnSession(x) \/ SessionEnds(x)
  \/ \E o \in Outcome : Collect(x, o)
  \/ CreateCard(x) \/ LinkCard(x)

LEMMA MovesTypes ==
  ASSUME TypeOK, NEW x \in Runs, Moves(x)
  PROVE  /\ TypeOK'
         /\ UNCHANGED <<editVars, schedVars, logVars, of>>
<1> USE DEF Places, InProgress, Drafting, Droppable
<1>1. UNCHANGED <<editVars, schedVars, logVars, of>>
  BY DEF Moves, TakeFolder, Conflict, SeedFails, SpawnSession, SessionEnds, Collect, CreateCard,
         LinkCard
<1>2. EditTypes' /\ TaskTypes' /\ LogTypes'
  BY <1>1, TypeParts DEF editVars, schedVars, logVars, EditTypes, TaskTypes, LogTypes
<1>3. RunTypes' /\ cards' \subseteq Runs
  <2>1. Failure \in Outcome
    BY DEF Failure, Outcome
  <2>2. RunTypes /\ cards \subseteq Runs
    BY TypeParts
  <2>3. CASE TakeFolder(x) \/ Conflict(x) \/ SeedFails(x) \/ SpawnSession(x)
    BY <2>1, <2>2, <2>3 DEF TakeFolder, Conflict, SeedFails, SpawnSession, RunTypes
  <2>4. CASE SessionEnds(x) \/ CreateCard(x) \/ LinkCard(x)
    BY <2>2, <2>4 DEF SessionEnds, CreateCard, LinkCard, RunTypes
  <2>5. ASSUME NEW o \in Outcome, Collect(x, o) PROVE RunTypes' /\ cards' \subseteq Runs
    BY <2>2, <2>5 DEF Collect, RunTypes
  <2> QED BY <2>3, <2>4, <2>5 DEF Moves
<1> QED BY <1>1, <1>2, <1>3, TypeParts

LEMMA WriteRunTypes ==
  ASSUME TypeOK, NEW x \in Runs, WriteRun(x)
  PROVE  TypeOK'
<1>1. /\ runs' \in Seq(Entry) /\ draft' \in [Runs -> Seq(Entry)]
      /\ missed' \in [Runs -> SUBSET Runs] /\ lost' \subseteq Runs
  BY TypeParts, WriteDraftTypes DEF WriteRun
<1>2. LogTypes'
  BY <1>1, TypeParts DEF WriteRun, LogTypes
<1>3. EditTypes' /\ TaskTypes' /\ cards' \subseteq Runs
  BY TypeParts DEF WriteRun, editVars, schedVars, EditTypes, TaskTypes
<1>4. RunTypes'
  BY TypeParts DEF WriteRun, RunTypes, Places, InProgress, Droppable
<1> QED BY <1>2, <1>3, <1>4, TypeParts

LEMMA ReadForRecordTypes ==
  ASSUME TypeOK, NEW x \in Runs, ReadForRecord(x)
  PROVE  TypeOK'
<1>1. PICK file \in Seq(Entry) : file = Updated(x, RecordedStatus(x))
  BY RecordedIsAStatus, UpdatedTypes
<1>2. HoldDraft(x, file)
  BY <1>1 DEF ReadForRecord
<1>3. LogTypes'
  BY <1>2, TypeParts DEF HoldDraft, LogTypes
<1>4. EditTypes' /\ TaskTypes' /\ cards' \subseteq Runs
  BY TypeParts DEF ReadForRecord, editVars, schedVars, EditTypes, TaskTypes
<1>5. RunTypes'
  BY TypeParts DEF ReadForRecord, RunTypes, Places, InProgress, Drafting
<1> QED BY <1>3, <1>4, <1>5, TypeParts

LEMMA FinishTypes ==
  ASSUME TaskTypes, NEW x \in Runs, FinishTask(x), UNCHANGED <<started, jobs, astray>>
  PROVE  TaskTypes'
BY DEF FinishTask, TaskTypes

LEMMA WriteRecordTypes ==
  ASSUME TypeOK, NEW x \in Runs, WriteRecord(x)
  PROVE  TypeOK'
<1>1. /\ runs' \in Seq(Entry) /\ draft' \in [Runs -> Seq(Entry)]
      /\ missed' \in [Runs -> SUBSET Runs] /\ lost' \subseteq Runs
  BY TypeParts, WriteDraftTypes DEF WriteRecord
<1>2. LogTypes'
  BY <1>1, TypeParts DEF WriteRecord, LogTypes
<1>3. TaskTypes'
  BY TypeParts, FinishTypes DEF WriteRecord
<1>4. EditTypes' /\ cards' \subseteq Runs
  BY TypeParts DEF WriteRecord, editVars, EditTypes
<1>5. RunTypes'
  BY TypeParts DEF WriteRecord, RunTypes, Places
<1> QED BY <1>2, <1>3, <1>4, <1>5, TypeParts

LEMMA GiveUpTypes ==
  ASSUME TypeOK, NEW x \in Runs, GiveUp(x)
  PROVE  TypeOK'
<1>1. <<>> \in Seq(Entry)
  OBVIOUS
<1>2. LogTypes'
  BY <1>1, TypeParts DEF GiveUp, LogTypes
<1>3. TaskTypes'
  BY TypeParts, FinishTypes DEF GiveUp
<1>4. EditTypes' /\ cards' \subseteq Runs
  BY TypeParts DEF GiveUp, editVars, EditTypes
<1>5. RunTypes'
  BY TypeParts DEF GiveUp, RunTypes, Places
<1> QED BY <1>2, <1>3, <1>4, <1>5, TypeParts

LEMMA RestartTypes ==
  ASSUME TypeOK, Restart
  PROVE  TypeOK'
<1>1. EditTypes'
  BY TypeParts DEF Restart, EditTypes, Lists, Unlisted
<1>2. LogTypes'
  <2>1. [x \in Runs |-> <<>>] \in [Runs -> Seq(Entry)]
    OBVIOUS
  <2> QED BY <2>1, TypeParts DEF Restart, LogTypes
<1>3. TaskTypes'
  BY AllAbortedTypes, TypeParts DEF Restart, TaskTypes
<1>4. RunTypes' /\ cards' \subseteq Runs
  BY TypeParts DEF Restart, RunTypes, Places
<1> QED BY <1>1, <1>2, <1>3, <1>4, TypeParts

(***************************************************************************)
(* A file against the runs made: m says the how-manieth each was, o its    *)
(* routine, and ex which runs may be missing.                              *)
(***************************************************************************)
Stamped(m, N) ==
  /\ N \in Nat /\ m \in [Runs -> Nat]
  /\ \A x \in Runs : m[x] <= N
  /\ \A x, y \in Runs : m[x] = m[y] /\ m[x] > 0 => x = y

NewerThan(m, o, x) == {y \in Runs : o[y] = o[x] /\ m[y] > m[x]}
Followers(file, k) == {j \in Positions(file, file[k].routine) : j > k}

Ordered(file, m, o) ==
  /\ \A k \in DOMAIN file : m[file[k].run] > 0 /\ file[k].routine = o[file[k].run]
  /\ \A j, k \in DOMAIN file : j < k => m[file[j].run] < m[file[k].run]

Bounded(file) == \A k \in DOMAIN file : Cardinality(Followers(file, k)) < MaxRuns

Retains(file, m, o, ex) ==
  \A x \in Runs :
    m[x] > 0 /\ x \notin ex /\ Cardinality(NewerThan(m, o, x)) < MaxRuns =>
      \E k \in DOMAIN file : file[k].run = x

FileOk(file, m, o, ex) == Ordered(file, m, o) /\ Bounded(file) /\ Retains(file, m, o, ex)

LEMMA NewerFinite ==
  ASSUME NEW m, NEW N, Stamped(m, N), NEW o, NEW x \in Runs
  PROVE  IsFiniteSet(NewerThan(m, o, x)) /\ Cardinality(NewerThan(m, o, x)) \in Nat
<1> DEFINE S == NewerThan(m, o, x)
           f == [y \in S |-> m[y]]
<1>1. N \in Nat /\ \A y \in S : y \in Runs /\ m[y] \in 1..N
  BY DEF Stamped, NewerThan
<1>2. f \in [S -> 1..N] /\ \A y, z \in S : f[y] = f[z] => y = z
  BY <1>1 DEF Stamped
<1>3. IsFiniteSet(1..N)
  <2>1. 1 \in Int /\ N \in Int
    BY <1>1
  <2> QED BY <2>1, FS_Interval
<1> HIDE DEF f, S
<1>4. f \in Injection(S, 1..N)
  BY <1>2 DEF Injection, IsInjective
<1>5. IsFiniteSet(S)
  BY <1>3, <1>4, FS_Injection
<1> QED BY <1>5, FS_CardinalityType DEF S

LEMMA FollowersFinite ==
  ASSUME NEW file \in Seq(Entry), NEW k
  PROVE  /\ Followers(file, k) \subseteq DOMAIN file
         /\ IsFiniteSet(Followers(file, k)) /\ Cardinality(Followers(file, k)) \in Nat
<1>1. Len(file) \in Nat /\ DOMAIN file = 1..Len(file)
  BY LenProperties
<1>2. Followers(file, k) \subseteq DOMAIN file
  BY DEF Followers, Positions
<1> QED BY <1>1, <1>2, PositionsFinite

(* The entries of its routine after an entry are of runs made after it.      *)
LEMMA FollowersAreNewer ==
  ASSUME NEW file \in Seq(Entry), NEW m, NEW N, Stamped(m, N), NEW o, Ordered(file, m, o),
         NEW k \in DOMAIN file
  PROVE  Cardinality(Followers(file, k)) <= Cardinality(NewerThan(m, o, file[k].run))
<1> DEFINE L == Followers(file, k)
           G == NewerThan(m, o, file[k].run)
           f == [j \in L |-> file[j].run]
<1>1. \A j \in DOMAIN file : file[j] \in Entry /\ j \in Nat
  BY LenProperties
<1>2. \A j \in DOMAIN file : file[j].run \in Runs
  BY <1>1 DEF Entry
<1>3. \A j \in L : j \in DOMAIN file /\ k < j /\ file[j].routine = file[k].routine
  BY <1>1 DEF Followers, Positions
<1>4. \A j \in L : file[j].run \in G
  <2> SUFFICES ASSUME NEW j \in L PROVE file[j].run \in G
    OBVIOUS
  <2>1. m[file[k].run] < m[file[j].run] /\ o[file[j].run] = o[file[k].run]
    BY <1>3 DEF Ordered
  <2>2. m[file[k].run] \in Nat /\ m[file[j].run] \in Nat
    BY <1>2, <1>3 DEF Stamped
  <2> QED BY <1>2, <1>3, <2>1, <2>2 DEF NewerThan
<1>5. \A j, l \in L : file[j].run = file[l].run => j = l
  <2> SUFFICES ASSUME NEW j \in L, NEW l \in L, file[j].run = file[l].run PROVE j = l
    OBVIOUS
  <2>1. j \in DOMAIN file /\ l \in DOMAIN file /\ j \in Nat /\ l \in Nat
    BY <1>1, <1>3
  <2>2. m[file[j].run] \in Nat /\ m[file[l].run] \in Nat
    BY <1>2, <2>1 DEF Stamped
  <2>3. ~(j < l)
    BY <2>1, <2>2 DEF Ordered
  <2>4. ~(l < j)
    BY <2>1, <2>2 DEF Ordered
  <2> QED BY <2>1, <2>3, <2>4
<1>6. f \in [L -> G] /\ \A j, l \in L : f[j] = f[l] => j = l
  BY <1>4, <1>5
<1>7. IsFiniteSet(G)
  BY <1>2, NewerFinite
<1> HIDE DEF f, L, G
<1>8. f \in Injection(L, G)
  BY <1>6 DEF Injection, IsInjective
<1>9. Cardinality(L) <= Cardinality(G)
  BY <1>7, <1>8, FS_Injection
<1> QED BY <1>9 DEF L, G

(***************************************************************************)
(* What Prune leaves is in order, bounded, and lacks no run that had fewer *)
(* than MaxRuns newer ones.                                                *)
(***************************************************************************)
PrunedBy(file, pruned, at) ==
  /\ at \in [DOMAIN pruned -> Kept(file)]
  /\ \A n \in DOMAIN pruned : pruned[n] = file[at[n]]
  /\ \A k \in Kept(file) : \E n \in DOMAIN pruned : at[n] = k
  /\ \A i, n \in DOMAIN pruned : i < n => at[i] < at[n]

LEMMA PruneBounded ==
  ASSUME NEW file \in Seq(Entry), NEW pruned \in Seq(Entry), NEW at, PrunedBy(file, pruned, at)
  PROVE  Bounded(pruned)
<1> SUFFICES ASSUME NEW n \in DOMAIN pruned
             PROVE  Cardinality(Followers(pruned, n)) < MaxRuns
  BY DEF Bounded
<1> DEFINE L == Followers(pruned, n)
           G == Followers(file, at[n])
           f == [j \in L |-> at[j]]
<1>1. \A j \in DOMAIN pruned : /\ j \in Nat /\ at[j] \in Nat
                               /\ at[j] \in DOMAIN file /\ ~Outdated(file, at[j])
                               /\ pruned[j] = file[at[j]]
  BY LenProperties DEF PrunedBy, Kept
<1>2. \A i, j \in DOMAIN pruned : i < j => at[i] < at[j]
  BY DEF PrunedBy
<1>3. \A j \in L : j \in DOMAIN pruned /\ n < j /\ pruned[j].routine = pruned[n].routine
  BY <1>1 DEF Followers, Positions
<1>4. \A j \in L : at[j] \in G
  <2> SUFFICES ASSUME NEW j \in L PROVE at[j] \in G
    OBVIOUS
  <2>1. at[n] < at[j] /\ file[at[j]].routine = file[at[n]].routine
    BY <1>1, <1>2, <1>3
  <2>2. at[j] \in DOMAIN file /\ at[j] \in Nat /\ at[n] \in Nat
    BY <1>1, <1>3
  <2> QED BY <2>1, <2>2 DEF Followers, Positions
<1>5. \A j, l \in L : at[j] = at[l] => j = l
  <2> SUFFICES ASSUME NEW j \in L, NEW l \in L, at[j] = at[l] PROVE j = l
    OBVIOUS
  <2>1. j \in DOMAIN pruned /\ l \in DOMAIN pruned
    BY <1>3
  <2>2. j \in Nat /\ l \in Nat /\ at[j] \in Nat /\ at[l] \in Nat
    BY <1>1, <2>1
  <2>3. ~(j < l) /\ ~(l < j)
    BY <1>2, <2>1, <2>2
  <2> QED BY <2>2, <2>3
<1>6. f \in [L -> G] /\ \A j, l \in L : f[j] = f[l] => j = l
  BY <1>4, <1>5
<1>7. IsFiniteSet(G) /\ Cardinality(G) \in Nat /\ Cardinality(L) \in Nat
  BY FollowersFinite
<1>8. Cardinality(G) < MaxRuns
  <2>1. ~(Cardinality(G) >= MaxRuns)
    BY <1>1 DEF Outdated, Followers
  <2> HIDE DEF G
  <2> QED BY <1>7, <2>1, RoutinesAssumption DEF RoutinesAssumption
<1> HIDE DEF f, L, G
<1>9. f \in Injection(L, G)
  BY <1>6 DEF Injection, IsInjective
<1>10. Cardinality(L) <= Cardinality(G)
  BY <1>7, <1>9, FS_Injection
<1>11. Cardinality(L) < MaxRuns
  BY <1>7, <1>8, <1>10, RoutinesAssumption DEF RoutinesAssumption
<1> QED BY <1>11 DEF L

LEMMA PruneOrdered ==
  ASSUME NEW file \in Seq(Entry), NEW pruned \in Seq(Entry), NEW at, PrunedBy(file, pruned, at),
         NEW m, NEW o, Ordered(file, m, o)
  PROVE  Ordered(pruned, m, o)
<1>1. \A j \in DOMAIN pruned : at[j] \in DOMAIN file /\ pruned[j] = file[at[j]]
  BY DEF PrunedBy, Kept
<1>2. \A i, j \in DOMAIN pruned : i < j => at[i] < at[j]
  BY DEF PrunedBy
<1> QED BY <1>1, <1>2 DEF Ordered

LEMMA PruneRetains ==
  ASSUME NEW file \in Seq(Entry), NEW pruned \in Seq(Entry), NEW at, PrunedBy(file, pruned, at),
         NEW m, NEW N, Stamped(m, N), NEW o, NEW ex,
         Ordered(file, m, o), Retains(file, m, o, ex)
  PROVE  Retains(pruned, m, o, ex)
<1> SUFFICES ASSUME NEW x \in Runs, m[x] > 0, x \notin ex,
                    Cardinality(NewerThan(m, o, x)) < MaxRuns
             PROVE  \E n \in DOMAIN pruned : pruned[n].run = x
  BY DEF Retains
<1>1. PICK k \in DOMAIN file : file[k].run = x
  BY DEF Retains
<1>2. Cardinality(Followers(file, k)) <= Cardinality(NewerThan(m, o, x))
  BY <1>1, FollowersAreNewer
<1>3. Cardinality(Followers(file, k)) \in Nat /\ Cardinality(NewerThan(m, o, x)) \in Nat
  BY FollowersFinite, NewerFinite
<1>4. ~(Cardinality(Followers(file, k)) >= MaxRuns)
  BY <1>2, <1>3, RoutinesAssumption DEF RoutinesAssumption
<1>5. k \in Kept(file)
  BY <1>4 DEF Kept, Outdated, Followers
<1>6. PICK n \in DOMAIN pruned : at[n] = k
  BY <1>5 DEF PrunedBy
<1>7. pruned[n].run = x
  BY <1>1, <1>6 DEF PrunedBy
<1> QED BY <1>7

(* Another run w is made, or chooses its routine: a file that w is not in is  *)
(* as good as it was, but for w.                                             *)
Grows(w, m, mm, o, oo) ==
  /\ m[w] = 0
  /\ \A x \in Runs \ {w} : oo[x] = o[x] /\ (mm[x] > 0 <=> m[x] > 0)
  /\ \A x, y \in Runs \ {w} : mm[x] < mm[y] <=> m[x] < m[y]

LEMMA FileGrows ==
  ASSUME NEW file \in Seq(Entry), NEW m, NEW mm, NEW o, NEW oo, NEW N, NEW ex, NEW exx,
         NEW w \in Runs, Grows(w, m, mm, o, oo), m \in [Runs -> Nat], Stamped(mm, N),
         FileOk(file, m, o, ex), ex \subseteq exx, mm[w] > 0 => w \in exx
  PROVE  /\ FileOk(file, mm, oo, exx)
         /\ \A k \in DOMAIN file : file[k].run \in Runs \ {w}
<1>0. mm \in [Runs -> Nat]
  BY DEF Stamped
<1>1. \A k \in DOMAIN file : file[k] \in Entry /\ k \in Nat
  BY LenProperties
<1>2. \A k \in DOMAIN file : file[k].run \in Runs /\ file[k].run # w
  <2> SUFFICES ASSUME NEW k \in DOMAIN file PROVE file[k].run \in Runs /\ file[k].run # w
    OBVIOUS
  <2>1. file[k].run \in Runs
    BY <1>1 DEF Entry
  <2>2. m[file[k].run] > 0
    BY DEF FileOk, Ordered
  <2>3. m[w] = 0 /\ ~(0 > 0)
    BY DEF Grows
  <2> QED BY <2>1, <2>2, <2>3
<1>3. Ordered(file, mm, oo)
  BY <1>2 DEF FileOk, Ordered, Grows
<1>4. Retains(file, mm, oo, exx)
  <2> SUFFICES ASSUME NEW x \in Runs, mm[x] > 0, x \notin exx,
                      Cardinality(NewerThan(mm, oo, x)) < MaxRuns
               PROVE  \E k \in DOMAIN file : file[k].run = x
    BY DEF Retains
  <2>1. x # w /\ m[x] > 0 /\ x \notin ex
    BY DEF Grows
  <2>2. NewerThan(m, o, x) \subseteq NewerThan(mm, oo, x)
    <3> SUFFICES ASSUME NEW y \in Runs, o[y] = o[x], m[y] > m[x]
                 PROVE  oo[y] = oo[x] /\ mm[y] > mm[x]
      BY DEF NewerThan
    <3>1. m[y] \in Nat /\ m[x] \in Nat /\ m[x] < m[y]
      OBVIOUS
    <3>2. y # w
      <4>1. m[w] = 0
        BY DEF Grows
      <4> QED BY <3>1, <4>1
    <3>3. oo[y] = oo[x] /\ mm[x] < mm[y]
      BY <2>1, <3>1, <3>2 DEF Grows
    <3> QED BY <1>0, <3>3
  <2>3. /\ IsFiniteSet(NewerThan(mm, oo, x)) /\ Cardinality(NewerThan(mm, oo, x)) \in Nat
    BY NewerFinite
  <2>4. /\ IsFiniteSet(NewerThan(m, o, x))
        /\ Cardinality(NewerThan(m, o, x)) <= Cardinality(NewerThan(mm, oo, x))
    BY <2>2, <2>3, FS_Subset
  <2>5. Cardinality(NewerThan(m, o, x)) \in Nat
    BY <2>4, FS_CardinalityType
  <2>6. Cardinality(NewerThan(m, o, x)) < MaxRuns
    BY <2>3, <2>4, <2>5, RoutinesAssumption DEF RoutinesAssumption
  <2> QED BY <2>1, <2>6 DEF FileOk, Retains
<1> QED BY <1>2, <1>3, <1>4 DEF FileOk

(* The next run is made: it is the newest.                                   *)
LEMMA NextStamp ==
  ASSUME NEW m, NEW N, Stamped(m, N), NEW w \in Runs, m[w] = 0
  PROVE  /\ Stamped([m EXCEPT ![w] = N + 1], N + 1)
         /\ \A x \in Runs \ {w} : [m EXCEPT ![w] = N + 1][x] = m[x] /\ m[x] < N + 1
         /\ [m EXCEPT ![w] = N + 1][w] = N + 1
<1> DEFINE mm == [m EXCEPT ![w] = N + 1]
<1>1. N \in Nat /\ m \in [Runs -> Nat] /\ \A x \in Runs : m[x] <= N
  BY DEF Stamped
<1>2. mm[w] = N + 1 /\ \A x \in Runs \ {w} : mm[x] = m[x] /\ m[x] < N + 1
  BY <1>1
<1>3. mm \in [Runs -> Nat]
  BY <1>1
<1> HIDE DEF mm
<1>4. \A x \in Runs : mm[x] <= N + 1
  BY <1>1, <1>2
<1>5. ASSUME NEW x \in Runs, NEW y \in Runs, mm[x] = mm[y], mm[x] > 0 PROVE x = y
  <2>1. CASE x = w /\ y # w
    BY <1>1, <1>2, <1>5, <2>1
  <2>2. CASE x # w /\ y = w
    BY <1>1, <1>2, <1>5, <2>2
  <2>3. CASE x # w /\ y # w
    BY <1>2, <1>5, <2>3 DEF Stamped
  <2> QED BY <2>1, <2>2, <2>3
<1>6. Stamped(mm, N + 1)
  BY <1>1, <1>3, <1>4, <1>5 DEF Stamped
<1> QED BY <1>2, <1>6 DEF mm

(* A file with a new run at its end, pruned. *)
LEMMA PruneAppend ==
  ASSUME NEW file \in Seq(Entry), NEW m, NEW N, Stamped(m, N), NEW o \in [Runs -> Ids], NEW ex,
         FileOk(file, m, o, ex), NEW x \in Runs, m[x] = 0, NEW i \in Ids,
         NEW e \in Entry, e.run = x, e.routine = i
  PROVE  FileOk(Prune(Append(file, e)), [m EXCEPT ![x] = N + 1], [o EXCEPT ![x] = i], ex)
<1>1. PICK mm : mm = [m EXCEPT ![x] = N + 1]
  OBVIOUS
<1>2. PICK oo : oo = [o EXCEPT ![x] = i]
  OBVIOUS
<1>3. /\ Stamped(mm, N + 1) /\ mm[x] = N + 1
      /\ \A y \in Runs \ {x} : mm[y] = m[y] /\ m[y] < N + 1
  <2>1. /\ Stamped([m EXCEPT ![x] = N + 1], N + 1)
        /\ \A y \in Runs \ {x} : [m EXCEPT ![x] = N + 1][y] = m[y] /\ m[y] < N + 1
        /\ [m EXCEPT ![x] = N + 1][x] = N + 1
    BY NextStamp
  <2> QED BY <1>1, <2>1
<1>4. oo[x] = i /\ \A y \in Runs \ {x} : oo[y] = o[y]
  BY <1>2
<1>5. Grows(x, m, mm, o, oo)
  BY <1>3, <1>4 DEF Grows
<1>6. /\ FileOk(file, mm, oo, ex \cup {x})
      /\ \A k \in DOMAIN file : file[k].run \in Runs \ {x}
  <2>1. m \in [Runs -> Nat]
    BY DEF Stamped
  <2>2. PICK exx : exx = ex \cup {x}
    OBVIOUS
  <2>3. ex \subseteq exx /\ x \in exx
    BY <2>2
  <2>4. PICK NN : NN = N + 1
    OBVIOUS
  <2>5. Stamped(mm, NN)
    BY <1>3, <2>4
  <2>6. /\ FileOk(file, mm, oo, exx)
        /\ \A k \in DOMAIN file : file[k].run \in Runs \ {x}
    BY <1>5, <2>1, <2>3, <2>5, FileGrows
  <2> QED BY <2>2, <2>6
<1>7. PICK new \in Seq(Entry) : new = Append(file, e)
  BY AppendProperties
<1>8. /\ Len(file) \in Nat /\ DOMAIN file = 1..Len(file)
      /\ DOMAIN new = 1 .. Len(file) + 1
      /\ \A k \in 1..Len(file) : new[k] = file[k]
      /\ new[Len(file) + 1] = e
  BY <1>7, AppendProperties, LenProperties
<1>9. PICK M \in Nat : M = Len(file)
  BY <1>8
<1>10. /\ DOMAIN file = 1..M /\ DOMAIN new = 1 .. M + 1
       /\ \A k \in 1..M : new[k] = file[k]
       /\ new[M + 1] = e
  BY <1>8, <1>9
<1>11. \A k \in 1 .. M + 1 : k \in 1..M \/ k = M + 1
  OBVIOUS
<1>12. N \in Nat
  BY DEF Stamped
<1>13. Ordered(new, mm, oo)
  <2>1. ASSUME NEW k \in DOMAIN new PROVE mm[new[k].run] > 0 /\ new[k].routine = oo[new[k].run]
    <3>1. CASE k \in 1..M
      BY <1>6, <1>10, <3>1 DEF FileOk, Ordered
    <3>2. CASE k = M + 1
      BY <1>3, <1>4, <1>10, <1>12, <3>2
    <3> QED BY <1>10, <1>11, <2>1, <3>1, <3>2
  <2>2. ASSUME NEW j \in DOMAIN new, NEW k \in DOMAIN new, j < k
        PROVE  mm[new[j].run] < mm[new[k].run]
    <3>1. j \in 1..M
      BY <1>10, <2>2
    <3>2. CASE k \in 1..M
      BY <1>6, <1>10, <2>2, <3>1, <3>2 DEF FileOk, Ordered
    <3>3. CASE k = M + 1
      <4>1. file[j].run \in Runs \ {x}
        BY <1>6, <1>10, <3>1
      <4> QED BY <1>3, <1>10, <3>1, <3>3, <4>1
    <3> QED BY <1>10, <1>11, <2>2, <3>2, <3>3
  <2> QED BY <2>1, <2>2 DEF Ordered
<1>14. Retains(new, mm, oo, ex)
  <2> SUFFICES ASSUME NEW y \in Runs, mm[y] > 0, y \notin ex,
                      Cardinality(NewerThan(mm, oo, y)) < MaxRuns
               PROVE  \E k \in DOMAIN new : new[k].run = y
    BY DEF Retains
  <2>1. CASE y = x
    <3>1. M + 1 \in DOMAIN new /\ new[M + 1].run = y
      BY <1>10, <2>1
    <3> QED BY <3>1
  <2>2. CASE y # x
    <3>1. PICK k \in DOMAIN file : file[k].run = y
      BY <1>6, <2>2 DEF FileOk, Retains
    <3>2. k \in DOMAIN new /\ new[k].run = y
      BY <1>10, <3>1
    <3> QED BY <3>2
  <2> QED BY <2>1, <2>2
<1>15. PICK pruned \in Seq(Entry) : pruned = Prune(new)
  BY PruneKeeps
<1>16. PICK at : PrunedBy(new, pruned, at)
  <2>1. PICK at \in [DOMAIN Prune(new) -> Kept(new)] :
          /\ \A n \in DOMAIN Prune(new) : Prune(new)[n] = new[at[n]]
          /\ \A k \in Kept(new) : \E n \in DOMAIN Prune(new) : at[n] = k
          /\ \A j, n \in DOMAIN Prune(new) : j < n => at[j] < at[n]
    BY PruneOrders
  <2> QED BY <1>15, <2>1 DEF PrunedBy
<1>17. /\ Bounded(pruned)
  BY <1>16, PruneBounded
<1>18. Ordered(pruned, mm, oo)
  BY <1>13, <1>16, PruneOrdered
<1>19. Retains(pruned, mm, oo, ex)
  BY <1>3, <1>13, <1>14, <1>16, PruneRetains
<1> QED BY <1>1, <1>2, <1>7, <1>15, <1>17, <1>18, <1>19 DEF FileOk

(* Only the status of entries changes: the file lists what it did.           *)
LEMMA SameEntries ==
  ASSUME NEW file, NEW new, NEW m, NEW o, NEW ex, NEW exx, ex \subseteq exx,
         FileOk(file, m, o, ex),
         DOMAIN new = DOMAIN file,
         \A k \in DOMAIN file : new[k].run = file[k].run /\ new[k].routine = file[k].routine
  PROVE  FileOk(new, m, o, exx)
<1>1. Ordered(new, m, o)
  BY DEF FileOk, Ordered
<1>2. \A k \in DOMAIN file : Followers(new, k) = Followers(file, k)
  BY DEF Followers, Positions
<1>3. Bounded(new)
  BY <1>2 DEF FileOk, Bounded
<1>4. Retains(new, m, o, exx)
  <2> SUFFICES ASSUME NEW x \in Runs, m[x] > 0, x \notin exx,
                      Cardinality(NewerThan(m, o, x)) < MaxRuns
               PROVE  \E k \in DOMAIN new : new[k].run = x
    BY DEF Retains
  <2>1. PICK k \in DOMAIN file : file[k].run = x
    BY DEF FileOk, Retains
  <2> QED BY <2>1
<1> QED BY <1>1, <1>3, <1>4 DEF FileOk

(***************************************************************************)
(* What the history says.  A run's place and its session belong together:  *)
(* an answer is judged once, when the session is over or never was; only   *)
(* a run that found something has a card; and none of it changes after the *)
(* answer was judged.                                                      *)
(***************************************************************************)
RunInv(x) ==
  /\ pc[x] \in {"unused", "creating", "created", "holding"} => session[x] = "none"
  /\ pc[x] = "awaiting" => session[x] # "none"
  /\ pc[x] \in {"judging", "linking", "surfacing", "recording", "done"} =>
       session[x] = "over" \/ (session[x] = "none" /\ outcome[x] = Failure)
  /\ pc[x] \in {"linking", "surfacing"} => RecordedStatus(x) = "surfaced"
  /\ pc[x] = "surfacing" => x \in cards
  /\ pc[x] \in {"recording", "done"} /\ RecordedStatus(x) = "surfaced" => x \in cards
  /\ x \in cards => RecordedStatus(x) = "surfaced" /\ session[x] = "over"
  /\ pc[x] \in {"unused", "creating", "created", "holding", "awaiting"} => x \notin cards
  /\ pc[x] \in {"unused", "creating"} => made[x] = 0

(* A file's entries say "running", or the verdict on a run that is over; and *)
(* they say it of every run that is over but for those in ex.                *)
Truth(file, over, verdicts, ex) ==
  \A k \in DOMAIN file :
    /\ file[k].status # "running" =>
         file[k].run \in over /\ file[k].status = verdicts[file[k].run]
    /\ file[k].run \in over /\ file[k].run \notin ex => file[k].status # "running"

Over == {x \in Runs : pc[x] = "done"}
Verdicts == [x \in Runs |-> RecordedStatus(x)]

(* A run's copy counts the run itself as made, or as over: that it will be   *)
(* once the copy is written.                                                 *)
Stamps(z) == IF pc[z] = "creating" THEN [made EXCEPT ![z] = total + 1] ELSE made
Own(z) == IF pc[z] = "recording" THEN {z} ELSE {}

DraftInv(z) ==
  pc[z] \in Drafting =>
    /\ FileOk(draft[z], Stamps(z), of, lost \cup missed[z])
    /\ Truth(draft[z], Over \cup Own(z), Verdicts, lost \cup missed[z])

LogInv ==
  /\ Stamped(made, total)
  /\ FileOk(runs, made, of, lost)
  /\ Truth(runs, Over, Verdicts, lost)
  /\ \A z \in Runs : DraftInv(z)

HistoryInv == (\A x \in Runs : RunInv(x)) /\ LogInv

LEMMA TruthGrows ==
  ASSUME NEW file \in Seq(Entry), NEW over, NEW overr, NEW st, NEW stt, NEW ex, NEW exx,
         Truth(file, over, st, ex),
         over \subseteq overr, ex \subseteq exx, overr \ over \subseteq exx,
         \A x \in over : stt[x] = st[x]
  PROVE  Truth(file, overr, stt, exx)
BY DEF Truth

LEMMA StampsAreStamps ==
  ASSUME HistoryInv, TypeOK, NEW z \in Runs
  PROVE  /\ \E N : Stamped(Stamps(z), N)
         /\ Stamps(z) \in [Runs -> Nat]
         /\ \A x \in Runs \ {z} : Stamps(z)[x] = made[x]
<1>1. Stamped(made, total)
  BY DEF HistoryInv, LogInv
<1>2. CASE pc[z] = "creating"
  <2>1. made[z] = 0
    BY <1>2 DEF HistoryInv, RunInv
  <2>2. /\ Stamped([made EXCEPT ![z] = total + 1], total + 1)
        /\ \A x \in Runs \ {z} : [made EXCEPT ![z] = total + 1][x] = made[x]
    BY <1>1, <2>1, NextStamp
  <2> QED BY <1>2, <2>2 DEF Stamps, Stamped
<1>3. CASE pc[z] # "creating"
  BY <1>1, <1>3 DEF Stamps, Stamped
<1> QED BY <1>2, <1>3

LEMMA VerdictStays ==
  ASSUME NEW x \in Runs, of'[x] = of[x], outcome'[x] = outcome[x]
  PROVE  Verdicts'[x] = Verdicts[x]
BY DEF Verdicts, RecordedStatus

(* A copy that its run goes on holding, while the others change nothing of it. *)
LEMMA DraftStays ==
  ASSUME TypeOK, HistoryInv, NEW z \in Runs,
         pc'[z] = pc[z], draft'[z] = draft[z], missed'[z] = missed[z],
         UNCHANGED <<total, made, lost, of>>, Over' = Over,
         \A x \in Over \cup Own(z) : Verdicts'[x] = Verdicts[x]
  PROVE  DraftInv(z)'
<1> SUFFICES ASSUME pc[z] \in Drafting
             PROVE  /\ FileOk(draft'[z], Stamps(z)', of', lost' \cup missed'[z])
                    /\ Truth(draft'[z], Over' \cup Own(z)', Verdicts', lost' \cup missed'[z])
  BY DEF DraftInv
<1>1. /\ FileOk(draft[z], Stamps(z), of, lost \cup missed[z])
      /\ Truth(draft[z], Over \cup Own(z), Verdicts, lost \cup missed[z])
  BY DEF HistoryInv, LogInv, DraftInv
<1>2. Stamps(z)' = Stamps(z) /\ Own(z)' = Own(z)
  BY DEF Stamps, Own
<1>3. draft[z] \in Seq(Entry)
  BY TypeParts DEF LogTypes
<1>4. PICK over : over = Over \cup Own(z)
  OBVIOUS
<1>5. PICK ex : ex = lost \cup missed[z]
  OBVIOUS
<1>6. Truth(draft[z], over, Verdicts', ex)
  <2>1. Truth(draft[z], over, Verdicts, ex) /\ \A x \in over : Verdicts'[x] = Verdicts[x]
    BY <1>1, <1>4, <1>5
  <2>2. PICK st : st = Verdicts
    OBVIOUS
  <2>3. PICK stt : stt = Verdicts'
    OBVIOUS
  <2>4. Truth(draft[z], over, st, ex) /\ \A x \in over : stt[x] = st[x]
    BY <2>1, <2>2, <2>3
  <2>5. Truth(draft[z], over, stt, ex)
    BY <1>3, <2>4, TruthGrows
  <2> QED BY <2>3, <2>5
<1> QED BY <1>1, <1>2, <1>4, <1>5, <1>6

(* Nobody writes, and nobody is over who was not. *)
LEMMA LogStays ==
  ASSUME TypeOK, HistoryInv,
         UNCHANGED <<runs, total, made, lost, of>>,
         \A x \in Runs : pc'[x] = "done" <=> pc[x] = "done",
         \A z \in Runs : pc'[z] \in Drafting =>
                           pc'[z] = pc[z] /\ draft'[z] = draft[z] /\ missed'[z] = missed[z],
         \A x \in Runs : pc[x] \in {"done", "recording"} => outcome'[x] = outcome[x]
  PROVE  LogInv'
<1>1. Over' = Over
  BY DEF Over
<1>2. \A x \in Runs : pc[x] \in {"done", "recording"} => Verdicts'[x] = Verdicts[x]
  BY VerdictStays
<1>3. \A z \in Runs : \A x \in Over \cup Own(z) : Verdicts'[x] = Verdicts[x]
  BY <1>2 DEF Over, Own
<1>4. ASSUME NEW z \in Runs PROVE DraftInv(z)'
  <2>1. CASE pc'[z] \in Drafting
    BY <1>1, <1>3, <2>1, DraftStays
  <2>2. CASE pc'[z] \notin Drafting
    BY <2>2 DEF DraftInv
  <2> QED BY <2>1, <2>2
<1>5. Stamped(made', total') /\ FileOk(runs', made', of', lost')
  BY DEF HistoryInv, LogInv
<1>6. Truth(runs', Over', Verdicts', lost')
  <2>1. runs \in Seq(Entry) /\ Truth(runs, Over, Verdicts, lost)
    BY TypeParts DEF LogTypes, HistoryInv, LogInv
  <2>2. PICK over : over = Over
    OBVIOUS
  <2>3. PICK st : st = Verdicts
    OBVIOUS
  <2>4. PICK stt : stt = Verdicts'
    OBVIOUS
  <2>5. /\ Truth(runs, over, st, lost) /\ \A x \in over : stt[x] = st[x]
    BY <1>2, <2>1, <2>2, <2>3, <2>4 DEF Over
  <2>6. Truth(runs, over, stt, lost)
    BY <2>1, <2>5, TruthGrows
  <2> QED BY <1>1, <2>2, <2>4, <2>6
<1> QED BY <1>4, <1>5, <1>6 DEF LogInv

(* A copy that its run goes on holding while another run w begins or writes. *)
LEMMA OtherDraft ==
  ASSUME TypeOK, HistoryInv, NEW w \in Runs, NEW z \in Runs, z # w, pc[z] \in Drafting,
         pc'[z] = pc[z], draft'[z] = draft[z],
         Grows(w, Stamps(z), Stamps(z)', of, of'), NEW N, Stamped(Stamps(z)', N),
         lost \cup missed[z] \subseteq lost' \cup missed'[z],
         Stamps(z)'[w] > 0 => w \in missed'[z],
         Over \subseteq Over', Over' \ Over \subseteq missed'[z],
         \A x \in Over \cup Own(z) : Verdicts'[x] = Verdicts[x]
  PROVE  DraftInv(z)'
<1>1. /\ FileOk(draft[z], Stamps(z), of, lost \cup missed[z])
      /\ Truth(draft[z], Over \cup Own(z), Verdicts, lost \cup missed[z])
  BY DEF HistoryInv, LogInv, DraftInv
<1>2. draft[z] \in Seq(Entry)
  BY TypeParts DEF LogTypes
<1>3. Own(z)' = Own(z)
  BY DEF Own
<1>4. PICK ex : ex = lost \cup missed[z]
  OBVIOUS
<1>5. PICK exx : exx = lost' \cup missed'[z]
  OBVIOUS
<1>6. FileOk(draft[z], Stamps(z)', of', exx)
  <2>1. PICK m : m = Stamps(z)
    OBVIOUS
  <2>2. PICK mm : mm = Stamps(z)'
    OBVIOUS
  <2>3. PICK o : o = of
    OBVIOUS
  <2>4. PICK oo : oo = of'
    OBVIOUS
  <2>5. /\ m \in [Runs -> Nat] /\ Stamped(mm, N) /\ Grows(w, m, mm, o, oo)
        /\ FileOk(draft[z], m, o, ex)
        /\ ex \subseteq exx /\ (mm[w] > 0 => w \in exx)
    BY <1>1, <1>4, <1>5, <2>1, <2>2, <2>3, <2>4, StampsAreStamps
  <2>6. FileOk(draft[z], mm, oo, exx)
    BY <1>2, <2>5, FileGrows
  <2> QED BY <2>2, <2>4, <2>6
<1>7. Truth(draft[z], Over' \cup Own(z), Verdicts', exx)
  <2>1. PICK over : over = Over \cup Own(z)
    OBVIOUS
  <2>2. PICK overr : overr = Over' \cup Own(z)
    OBVIOUS
  <2>3. PICK st : st = Verdicts
    OBVIOUS
  <2>4. PICK stt : stt = Verdicts'
    OBVIOUS
  <2>5. /\ Truth(draft[z], over, st, ex) /\ over \subseteq overr /\ ex \subseteq exx
        /\ overr \ over \subseteq exx /\ \A x \in over : stt[x] = st[x]
    BY <1>1, <1>4, <1>5, <2>1, <2>2, <2>3, <2>4
  <2>6. Truth(draft[z], overr, stt, exx)
    BY <1>2, <2>5, TruthGrows
  <2> QED BY <2>2, <2>4, <2>6
<1> QED BY <1>3, <1>5, <1>6, <1>7 DEF DraftInv

LEMMA BeginKeepsLog ==
  ASSUME TypeOK, TypeOK', HistoryInv, NEW i \in Ids, NEW x \in Runs, Begin(i, x)
  PROVE  LogInv'
<1>1. /\ pc[x] = "unused" /\ pc'[x] = "creating" /\ made[x] = 0
      /\ of' = [of EXCEPT ![x] = i] /\ of'[x] = i
      /\ \A y \in Runs \ {x} : pc'[y] = pc[y] /\ of'[y] = of[y] /\ draft'[y] = draft[y]
      /\ UNCHANGED <<runs, total, made, missed, lost, outcome>>
      /\ draft'[x] = Prune(Append(runs, NewEntry(i, x)))
  BY TypeParts DEF Begin, HoldDraft, RunTypes, LogTypes, HistoryInv, RunInv, NewEntry
<1>2. Over' = Over /\ x \notin Over
  BY <1>1 DEF Over
<1>3. \A y \in Runs \ {x} : Verdicts'[y] = Verdicts[y]
  BY <1>1, VerdictStays
<1>4. /\ Stamped(made, total) /\ FileOk(runs, made, of, lost) /\ Truth(runs, Over, Verdicts, lost)
      /\ runs \in Seq(Entry) /\ of \in [Runs -> Ids] /\ made \in [Runs -> Nat]
  BY TypeParts DEF HistoryInv, LogInv, LogTypes, RunTypes
<1>5. FileOk(runs, made, of', lost)
  <2>1. PICK o : o = of
    OBVIOUS
  <2>2. PICK oo : oo = of'
    OBVIOUS
  <2>3. Grows(x, made, made, o, oo) /\ FileOk(runs, made, o, lost)
    BY <1>1, <1>4, <2>1, <2>2 DEF Grows
  <2>4. made[x] > 0 => x \in lost
    BY <1>1
  <2>5. FileOk(runs, made, oo, lost)
    BY <1>4, <2>3, <2>4, FileGrows
  <2> QED BY <2>2, <2>5
<1>6. Truth(runs, Over, Verdicts', lost)
  <2>1. PICK over : over = Over
    OBVIOUS
  <2>2. PICK st : st = Verdicts
    OBVIOUS
  <2>3. PICK stt : stt = Verdicts'
    OBVIOUS
  <2>4. Truth(runs, over, st, lost) /\ \A y \in over : stt[y] = st[y]
    BY <1>2, <1>3, <1>4, <2>1, <2>2, <2>3 DEF Over
  <2>5. Truth(runs, over, stt, lost)
    BY <1>4, <2>4, TruthGrows
  <2> QED BY <2>1, <2>3, <2>5
<1>7. NewEntry(i, x) \in Entry /\ NewEntry(i, x).run = x /\ NewEntry(i, x).routine = i
      /\ NewEntry(i, x).status = "running"
  BY DEF NewEntry, Entry, Status
<1>8. DraftInv(x)'
  <2>1. PICK e \in Entry : e = NewEntry(i, x) /\ e.run = x /\ e.routine = i /\ e.status = "running"
    BY <1>7
  <2>2. PICK ex : ex = lost' \cup missed'[x]
    OBVIOUS
  <2>3. FileOk(runs, made, of, ex)
    <3>1. lost \subseteq ex
      BY <1>1, <2>2
    <3> QED BY <1>4, <3>1, SameEntries
  <2>4. FileOk(Prune(Append(runs, e)), [made EXCEPT ![x] = total + 1], [of EXCEPT ![x] = i], ex)
    BY <1>1, <1>4, <2>1, <2>3, PruneAppend
  <2>5. Stamps(x)' = [made EXCEPT ![x] = total + 1] /\ Own(x)' = {}
    BY <1>1 DEF Stamps, Own
  <2>6. Truth(Prune(Append(runs, e)), Over, Verdicts', ex)
    <3>1. Append(runs, e) \in Seq(Entry)
      BY <1>4
    <3>2. \A k \in DOMAIN Append(runs, e) :
            Append(runs, e)[k] = e \/ \E j \in DOMAIN runs : Append(runs, e)[k] = runs[j]
      BY <1>4
    <3>3. \A n \in DOMAIN Prune(Append(runs, e)) :
            \E k \in DOMAIN Append(runs, e) : Prune(Append(runs, e))[n] = Append(runs, e)[k]
      BY <3>1, PruneKeeps
    <3>4. \A n \in DOMAIN Prune(Append(runs, e)) :
            \/ Prune(Append(runs, e))[n] = e
            \/ \E j \in DOMAIN runs : Prune(Append(runs, e))[n] = runs[j]
      BY <3>2, <3>3
    <3>5. lost \subseteq ex
      BY <1>1, <2>2
    <3> QED BY <1>2, <1>6, <2>1, <3>4, <3>5 DEF Truth
  <2> QED BY <1>1, <1>2, <2>1, <2>2, <2>4, <2>5, <2>6 DEF DraftInv
<1>9. ASSUME NEW z \in Runs, z # x PROVE DraftInv(z)'
  <2>1. CASE pc[z] \in Drafting
    <3>1. Stamps(z)' = Stamps(z) /\ Stamps(z)[x] = 0
      BY <1>1, <1>9, StampsAreStamps DEF Stamps
    <3>2. PICK N : Stamped(Stamps(z)', N)
      BY <3>1, StampsAreStamps
    <3>3. Grows(x, Stamps(z), Stamps(z)', of, of')
      BY <1>1, <3>1 DEF Grows
    <3>4. \A y \in Over \cup Own(z) : Verdicts'[y] = Verdicts[y]
      BY <1>2, <1>3, <1>9 DEF Over, Own
    <3>5. /\ pc'[z] = pc[z] /\ draft'[z] = draft[z]
          /\ lost \cup missed[z] \subseteq lost' \cup missed'[z]
          /\ (Stamps(z)'[x] > 0 => x \in missed'[z])
          /\ Over \subseteq Over' /\ Over' \ Over \subseteq missed'[z]
      BY <1>1, <1>2, <1>9, <3>1
    <3> QED BY <1>9, <2>1, <3>2, <3>3, <3>4, <3>5, OtherDraft
  <2>2. CASE pc[z] \notin Drafting
    BY <1>1, <1>9, <2>2 DEF DraftInv
  <2> QED BY <2>1, <2>2
<1>10. Stamped(made', total') /\ FileOk(runs', made', of', lost') /\ Truth(runs', Over', Verdicts', lost')
  BY <1>1, <1>2, <1>4, <1>5, <1>6
<1> QED BY <1>8, <1>9, <1>10 DEF LogInv

LEMMA WriteRunKeepsLog ==
  ASSUME TypeOK, TypeOK', HistoryInv, NEW x \in Runs, WriteRun(x)
  PROVE  LogInv'
<1>1. /\ pc[x] = "creating" /\ pc'[x] = "created" /\ made[x] = 0
      /\ \A y \in Runs \ {x} : pc'[y] = pc[y] /\ draft'[y] = draft[y]
      /\ UNCHANGED <<of, outcome>>
      /\ runs' = draft[x] /\ lost' = lost \cup missed[x]
      /\ total' = total + 1 /\ made' = [made EXCEPT ![x] = total + 1]
      /\ \A y \in Runs : missed'[y] = IF y # x /\ pc[y] \in Drafting THEN missed[y] \cup {x} ELSE {}
  BY TypeParts DEF WriteRun, WriteDraft, RunTypes, LogTypes, HistoryInv, RunInv
<1>2. Over' = Over /\ Verdicts' = Verdicts
  BY <1>1 DEF Over, Verdicts, RecordedStatus
<1>3. Stamped(made, total) /\ made \in [Runs -> Nat] /\ total \in Nat
  BY TypeParts DEF HistoryInv, LogInv, LogTypes
<1>4. Stamped(made', total')
  BY <1>1, <1>3, NextStamp
<1>5. FileOk(runs', made', of', lost') /\ Truth(runs', Over', Verdicts', lost')
  <2>1. Stamps(x) = [made EXCEPT ![x] = total + 1] /\ Own(x) = {}
    BY <1>1 DEF Stamps, Own
  <2>2. /\ FileOk(draft[x], Stamps(x), of, lost \cup missed[x])
        /\ Truth(draft[x], Over \cup Own(x), Verdicts, lost \cup missed[x])
    BY <1>1 DEF HistoryInv, LogInv, DraftInv, Drafting
  <2> QED BY <1>1, <1>2, <2>1, <2>2
<1>6. \A y \in Runs \ {x} : made'[y] = made[y] /\ made[y] <= total
  BY <1>1, <1>3 DEF Stamped
<1>7. ASSUME NEW z \in Runs, z # x PROVE DraftInv(z)'
  <2>1. CASE pc[z] \in Drafting
    <3>1. /\ \A y \in Runs \ {z} : Stamps(z)[y] = made[y]
          /\ Stamps(z) \in [Runs -> Nat]
      BY StampsAreStamps
    <3>2. (\E N : Stamped(Stamps(z)', N)) /\ Grows(x, Stamps(z), Stamps(z)', of, of')
      <4>1. CASE pc[z] = "creating"
        <5>1. made[z] = 0 /\ made'[z] = 0
          BY <1>6, <1>7, <4>1 DEF HistoryInv, RunInv
        <5>2. Stamps(z) = [made EXCEPT ![z] = total + 1] /\ Stamps(z)' = [made' EXCEPT ![z] = total' + 1]
          BY <1>1, <1>7, <4>1 DEF Stamps
        <5>3. /\ Stamped([made' EXCEPT ![z] = total' + 1], total' + 1)
              /\ \A y \in Runs \ {z} : [made' EXCEPT ![z] = total' + 1][y] = made'[y]
              /\ [made' EXCEPT ![z] = total' + 1][z] = total' + 1
          BY <1>4, <5>1, NextStamp
        <5>4. Stamps(z)[z] = total + 1 /\ Stamps(z)'[z] = total + 2
          BY <1>1, <1>3, <5>2, <5>3
        <5>5. \A y \in Runs \ {x, z} : Stamps(z)[y] = made[y] /\ Stamps(z)'[y] = made[y]
          BY <1>6, <3>1, <5>2, <5>3
        <5>6. Stamps(z)[x] = 0
          BY <1>1, <1>7, <3>1
        <5>7. \A y \in Runs \ {x, z} : made[y] \in Nat /\ made[y] <= total
          BY <1>3, <1>6
        <5>8. \A y \in Runs \ {x} : Stamps(z)'[y] > 0 <=> Stamps(z)[y] > 0
          BY <1>3, <5>4, <5>5
        <5>9. \A y, v \in Runs \ {x} : Stamps(z)'[y] < Stamps(z)'[v] <=> Stamps(z)[y] < Stamps(z)[v]
          <6> SUFFICES ASSUME NEW y \in Runs \ {x}, NEW v \in Runs \ {x}
                       PROVE  Stamps(z)'[y] < Stamps(z)'[v] <=> Stamps(z)[y] < Stamps(z)[v]
            OBVIOUS
          <6>1. CASE y # z /\ v # z
            BY <5>5, <6>1
          <6>2. CASE y = z /\ v = z
            BY <1>3, <5>4, <6>2
          <6>3. CASE y = z /\ v # z
            BY <1>3, <5>4, <5>5, <5>7, <6>3
          <6>4. CASE y # z /\ v = z
            BY <1>3, <5>4, <5>5, <5>7, <6>4
          <6> QED BY <6>1, <6>2, <6>3, <6>4
        <5> QED BY <1>1, <5>2, <5>3, <5>6, <5>8, <5>9 DEF Grows
      <4>2. CASE pc[z] # "creating"
        <5>1. Stamps(z) = made /\ Stamps(z)' = made'
          BY <1>1, <1>7, <4>2 DEF Stamps
        <5> QED BY <1>1, <1>4, <1>6, <5>1 DEF Grows
      <4> QED BY <4>1, <4>2
    <3>3. PICK N : Stamped(Stamps(z)', N)
      BY <3>2
    <3>4. missed'[z] = missed[z] \cup {x}
      BY <1>1, <1>7, <2>1
    <3>5. /\ pc'[z] = pc[z] /\ draft'[z] = draft[z]
          /\ lost \cup missed[z] \subseteq lost' \cup missed'[z]
          /\ (Stamps(z)'[x] > 0 => x \in missed'[z])
          /\ Over \subseteq Over' /\ Over' \ Over \subseteq missed'[z]
          /\ \A y \in Over \cup Own(z) : Verdicts'[y] = Verdicts[y]
      BY <1>1, <1>2, <1>7, <3>4
    <3> QED BY <1>7, <2>1, <3>2, <3>3, <3>5, OtherDraft
  <2>2. CASE pc[z] \notin Drafting
    BY <1>1, <1>7, <2>2 DEF DraftInv
  <2> QED BY <2>1, <2>2
<1>8. DraftInv(x)'
  BY <1>1 DEF DraftInv, Drafting
<1> QED BY <1>4, <1>5, <1>7, <1>8 DEF LogInv

LEMMA ReadKeepsLog ==
  ASSUME TypeOK, TypeOK', HistoryInv, NEW x \in Runs, ReadForRecord(x)
  PROVE  LogInv'
<1>1. /\ pc[x] \in {"surfacing", "judging"} /\ pc'[x] = "recording"
      /\ \A y \in Runs \ {x} : pc'[y] = pc[y] /\ draft'[y] = draft[y]
      /\ UNCHANGED <<runs, total, made, missed, lost, of, outcome>>
      /\ draft'[x] = Updated(x, RecordedStatus(x))
  BY TypeParts DEF ReadForRecord, HoldDraft, RunTypes, LogTypes
<1>2. Over' = Over /\ x \notin Over /\ Verdicts' = Verdicts
  BY <1>1 DEF Over, Verdicts, RecordedStatus
<1>3. /\ Stamped(made, total) /\ FileOk(runs, made, of, lost) /\ Truth(runs, Over, Verdicts, lost)
  BY DEF HistoryInv, LogInv
<1>4. ASSUME NEW z \in Runs, z # x PROVE DraftInv(z)'
  <2>1. \A y \in Over \cup Own(z) : Verdicts'[y] = Verdicts[y]
    BY <1>2
  <2> QED BY <1>1, <1>2, <1>4, <2>1, DraftStays
<1>5. DraftInv(x)'
  <2>1. RecordedStatus(x) \in Status /\ RecordedStatus(x) # "running"
    BY RecordedIsAStatus
  <2>2. PICK new : new = Updated(x, RecordedStatus(x))
    OBVIOUS
  <2>3. /\ DOMAIN new = DOMAIN runs
        /\ \A k \in DOMAIN runs :
              /\ new[k].run = runs[k].run
              /\ new[k].routine = runs[k].routine
              /\ new[k].status = IF runs[k].run = x THEN RecordedStatus(x) ELSE runs[k].status
    BY <2>1, <2>2, UpdatedTypes
  <2>4. PICK ex : ex = lost' \cup missed'[x]
    OBVIOUS
  <2>5. lost \subseteq ex
    BY <1>1, <2>4
  <2>6. FileOk(new, made, of, ex)
    BY <1>3, <2>3, <2>5, SameEntries
  <2>7. Verdicts[x] = RecordedStatus(x)
    BY DEF Verdicts
  <2>8. Truth(new, Over \cup {x}, Verdicts, ex)
    <3>1. ASSUME NEW k \in DOMAIN new, runs[k].run = x
          PROVE  new[k].run = x /\ new[k].status = Verdicts[x] /\ new[k].status # "running"
      BY <2>1, <2>3, <2>7, <3>1
    <3>2. ASSUME NEW k \in DOMAIN new, runs[k].run # x
          PROVE  k \in DOMAIN runs /\ new[k].run = runs[k].run /\ new[k].status = runs[k].status
      BY <2>3, <3>2
    <3> QED BY <1>3, <2>5, <3>1, <3>2 DEF Truth
  <2>9. Stamps(x)' = made' /\ Own(x)' = {x}
    BY <1>1 DEF Stamps, Own
  <2> QED BY <1>1, <1>2, <2>2, <2>4, <2>6, <2>8, <2>9 DEF DraftInv
<1> QED BY <1>1, <1>2, <1>3, <1>4, <1>5 DEF LogInv

LEMMA WriteRecordKeepsLog ==
  ASSUME TypeOK, TypeOK', HistoryInv, NEW x \in Runs, WriteRecord(x)
  PROVE  LogInv'
<1>1. /\ pc[x] = "recording" /\ pc'[x] = "done"
      /\ \A y \in Runs \ {x} : pc'[y] = pc[y] /\ draft'[y] = draft[y]
      /\ UNCHANGED <<of, outcome, total, made>>
      /\ runs' = draft[x] /\ lost' = lost \cup missed[x]
      /\ \A y \in Runs : missed'[y] = IF y # x /\ pc[y] \in Drafting THEN missed[y] \cup {x} ELSE {}
  BY TypeParts DEF WriteRecord, WriteDraft, RunTypes, LogTypes
<1>2. Over' = Over \cup {x} /\ Verdicts' = Verdicts
  BY <1>1 DEF Over, Verdicts, RecordedStatus
<1>3. Stamped(made', total')
  BY <1>1 DEF HistoryInv, LogInv
<1>4. FileOk(runs', made', of', lost') /\ Truth(runs', Over', Verdicts', lost')
  <2>1. Stamps(x) = made /\ Own(x) = {x}
    BY <1>1 DEF Stamps, Own
  <2>2. /\ FileOk(draft[x], Stamps(x), of, lost \cup missed[x])
        /\ Truth(draft[x], Over \cup Own(x), Verdicts, lost \cup missed[x])
    BY <1>1 DEF HistoryInv, LogInv, DraftInv, Drafting
  <2> QED BY <1>1, <1>2, <2>1, <2>2
<1>5. ASSUME NEW z \in Runs, z # x PROVE DraftInv(z)'
  <2>1. CASE pc[z] \in Drafting
    <3>1. missed'[z] = missed[z] \cup {x}
      BY <1>1, <1>5, <2>1
    <3>2. /\ FileOk(draft[z], Stamps(z), of, lost \cup missed[z])
          /\ Truth(draft[z], Over \cup Own(z), Verdicts, lost \cup missed[z])
      BY <2>1 DEF HistoryInv, LogInv, DraftInv
    <3>3. Stamps(z)' = Stamps(z) /\ Own(z)' = Own(z)
      BY <1>1, <1>5 DEF Stamps, Own
    <3>4. PICK ex : ex = lost \cup missed[z]
      OBVIOUS
    <3>5. PICK exx : exx = lost' \cup missed'[z]
      OBVIOUS
    <3>6. ex \subseteq exx /\ x \in exx
      BY <1>1, <3>1, <3>4, <3>5
    <3>7. FileOk(draft[z], Stamps(z), of, exx)
      <4>1. PICK m : m = Stamps(z)
        OBVIOUS
      <4>2. FileOk(draft[z], m, of, exx)
        BY <3>2, <3>4, <3>6, <4>1, SameEntries
      <4> QED BY <4>1, <4>2
    <3>8. Truth(draft[z], Over' \cup Own(z), Verdicts, exx)
      <4>1. PICK over : over = Over \cup Own(z)
        OBVIOUS
      <4>2. PICK overr : overr = Over' \cup Own(z)
        OBVIOUS
      <4>3. PICK st : st = Verdicts
        OBVIOUS
      <4>4. /\ draft[z] \in Seq(Entry) /\ Truth(draft[z], over, st, ex)
            /\ over \subseteq overr /\ overr \ over \subseteq exx
        BY <1>2, <3>2, <3>4, <3>6, <4>1, <4>2, <4>3, TypeParts DEF LogTypes
      <4>5. Truth(draft[z], overr, st, exx)
        BY <3>6, <4>4, TruthGrows
      <4> QED BY <4>2, <4>3, <4>5
    <3> QED BY <1>1, <1>2, <1>5, <3>3, <3>5, <3>7, <3>8 DEF DraftInv
  <2>2. CASE pc[z] \notin Drafting
    BY <1>1, <1>5, <2>2 DEF DraftInv
  <2> QED BY <2>1, <2>2
<1>6. DraftInv(x)'
  BY <1>1 DEF DraftInv, Drafting
<1> QED BY <1>3, <1>4, <1>5, <1>6 DEF LogInv

(* A failed dispatch is recorded as an error and gets no card. *)
LEMMA FailureIsAnError ==
  ASSUME NEW x \in Runs, outcome[x] = Failure
  PROVE  RecordedStatus(x) # "surfaced"
BY DEF RecordedStatus, Failure

(* A run whose own affairs a step leaves alone. *)
LEMMA OtherRunInv ==
  ASSUME NEW y \in Runs, RunInv(y), pc'[y] = pc[y], session'[y] = session[y],
         outcome'[y] = outcome[y], of'[y] = of[y], made'[y] = made[y],
         y \in cards' <=> y \in cards
  PROVE  RunInv(y)'
<1>1. RecordedStatus(y)' = RecordedStatus(y)
  BY DEF RecordedStatus
<1> QED BY <1>1 DEF RunInv

(* Runs stay where they are, or are abandoned. *)
LEMMA AbandonKeepsHistory ==
  ASSUME TypeOK, TypeOK', HistoryInv,
         UNCHANGED <<runs, total, made, lost, cards, of, session, outcome>>,
         Abandons,
         \A z \in Runs : pc'[z] \in Drafting => draft'[z] = draft[z] /\ missed'[z] = missed[z]
  PROVE  HistoryInv'
<1>1. ASSUME NEW x \in Runs PROVE RunInv(x)'
  <2>1. CASE pc'[x] = pc[x]
    BY <2>1, OtherRunInv DEF HistoryInv
  <2>2. CASE pc'[x] = "abandoned"
    <3>1. RecordedStatus(x)' = RecordedStatus(x)
      BY DEF RecordedStatus
    <3> QED BY <2>2, <3>1 DEF HistoryInv, RunInv
  <2> QED BY <2>1, <2>2 DEF Abandons
<1>2. \A x \in Runs : pc'[x] = "done" <=> pc[x] = "done"
  BY DEF Abandons, InProgress, Drafting, Droppable
<1>3. \A z \in Runs : pc'[z] \in Drafting => pc'[z] = pc[z]
  BY DEF Abandons, Drafting
<1>4. LogInv'
  BY <1>2, <1>3, LogStays
<1> QED BY <1>1, <1>4 DEF HistoryInv

LEMMA MovesKeepHistory ==
  ASSUME TypeOK, TypeOK', HistoryInv, NEW x \in Runs, Moves(x), UNCHANGED <<logVars, of>>
  PROVE  HistoryInv'
<1>1. RunInv(x)
  BY DEF HistoryInv
<1>2. UNCHANGED <<runs, draft, total, made, missed, lost, of>>
  BY DEF logVars
<1>3. /\ \A y \in Runs \ {x} : /\ pc'[y] = pc[y] /\ session'[y] = session[y]
                               /\ outcome'[y] = outcome[y] /\ (y \in cards' <=> y \in cards)
      /\ \/ /\ pc[x] \notin {"unused", "creating", "recording", "done"}
            /\ pc'[x] \notin {"unused", "creating", "recording", "done"}
         \/ pc'[x] = pc[x] /\ outcome'[x] = outcome[x]
  BY TypeParts DEF Moves, TakeFolder, Conflict, SeedFails, SpawnSession, SessionEnds, Collect,
                   CreateCard, LinkCard, RunTypes
<1>4. RunInv(x)'
  <2>1. CASE TakeFolder(x)
    BY <1>1, <1>2, <2>1, TypeParts DEF TakeFolder, RunTypes, RunInv, RecordedStatus
  <2>2. CASE Conflict(x) \/ SeedFails(x)
    <3>1. /\ pc'[x] = "judging" /\ outcome'[x] = Failure /\ session[x] = "none"
          /\ UNCHANGED <<session, cards>>
      BY <1>1, <2>2, TypeParts DEF Conflict, SeedFails, RunTypes, RunInv
    <3> QED BY <1>1, <1>2, <3>1 DEF RunInv
  <2>3. CASE SpawnSession(x)
    <3>1. /\ pc'[x] = "awaiting" /\ session'[x] = "alive" /\ session[x] = "none"
          /\ UNCHANGED <<outcome, cards>>
      BY <1>1, <2>3, TypeParts DEF SpawnSession, RunTypes, RunInv
    <3> QED BY <1>1, <1>2, <3>1 DEF RunInv
  <2>4. CASE SessionEnds(x)
    <3>1. /\ session[x] = "alive" /\ session'[x] = "over" /\ UNCHANGED <<pc, outcome, cards>>
      BY <2>4, TypeParts DEF SessionEnds, RunTypes
    <3>2. /\ pc[x] \notin {"unused", "creating", "created", "holding", "judging", "linking",
                           "surfacing", "recording", "done"}
          /\ x \notin cards
      BY <1>1, <3>1 DEF RunInv
    <3> QED BY <1>2, <3>1, <3>2 DEF RunInv
  <2>5. ASSUME NEW o \in Outcome, Collect(x, o) PROVE RunInv(x)'
    <3>1. /\ pc[x] = "awaiting" /\ pc'[x] = "judging" /\ session'[x] = "over" /\ session[x] = "over"
          /\ UNCHANGED cards
      BY <2>5, TypeParts DEF Collect, RunTypes
    <3>2. x \notin cards
      BY <2>5, <1>1, <3>1 DEF RunInv
    <3> QED BY <1>2, <3>1, <3>2 DEF RunInv
  <2>6. CASE CreateCard(x) \/ LinkCard(x)
    <3>1. /\ \/ pc[x] = "judging" /\ pc'[x] = "linking" /\ NeedsCard(x) /\ cards' = cards
             \/ pc[x] = "linking" /\ pc'[x] = "surfacing" /\ cards' = cards \cup {x}
          /\ UNCHANGED <<outcome, session>>
      BY <2>6, TypeParts DEF CreateCard, LinkCard, RunTypes
    <3>2. RecordedStatus(x) = "surfaced" /\ RecordedStatus(x)' = RecordedStatus(x)
      BY <1>1, <1>2, <3>1 DEF RecordedStatus, NeedsCard, RunInv
    <3>3. session[x] = "over"
      BY <1>1, <3>1, <3>2, FailureIsAnError DEF RunInv
    <3> QED BY <1>1, <1>2, <3>1, <3>2, <3>3 DEF RunInv
  <2> QED BY <2>1, <2>2, <2>3, <2>4, <2>5, <2>6 DEF Moves
<1>5. ASSUME NEW y \in Runs PROVE RunInv(y)'
  <2>1. CASE y = x
    BY <1>4, <2>1
  <2>2. CASE y # x
    BY <1>2, <1>3, <2>2, OtherRunInv DEF HistoryInv
  <2> QED BY <2>1, <2>2
<1>6. LogInv'
  <2>1. \A y \in Runs : pc'[y] = "done" <=> pc[y] = "done"
    BY <1>3
  <2>2. \A z \in Runs : pc'[z] \in Drafting => pc'[z] = pc[z]
    BY <1>3 DEF Drafting
  <2>3. \A y \in Runs : pc[y] \in {"done", "recording"} => outcome'[y] = outcome[y]
    BY <1>3
  <2> QED BY <1>2, <2>1, <2>2, <2>3, LogStays
<1> QED BY <1>5, <1>6 DEF HistoryInv

LEMMA BeginKeepsHistory ==
  ASSUME TypeOK, TypeOK', HistoryInv, NEW i \in Ids, NEW x \in Runs, Begin(i, x)
  PROVE  HistoryInv'
<1>1. /\ pc[x] = "unused" /\ pc'[x] = "creating"
      /\ \A y \in Runs \ {x} : pc'[y] = pc[y] /\ of'[y] = of[y]
      /\ UNCHANGED <<made, cards, session, outcome>>
  BY TypeParts DEF Begin, HoldDraft, RunTypes
<1>2. RunInv(x)'
  BY <1>1 DEF HistoryInv, RunInv
<1>3. ASSUME NEW y \in Runs, y # x PROVE RunInv(y)'
  BY <1>1, <1>3, OtherRunInv DEF HistoryInv
<1> QED BY <1>2, <1>3, BeginKeepsLog DEF HistoryInv

LEMMA FilesKeepHistory ==
  ASSUME TypeOK, TypeOK', HistoryInv, NEW x \in Runs,
         WriteRun(x) \/ ReadForRecord(x) \/ WriteRecord(x)
  PROVE  HistoryInv'
<1>1. /\ \A y \in Runs \ {x} : pc'[y] = pc[y] /\ made'[y] = made[y]
      /\ UNCHANGED <<cards, of, session, outcome>>
      /\ \/ pc[x] = "creating" /\ pc'[x] = "created"
         \/ /\ pc[x] = "surfacing" \/ (pc[x] = "judging" /\ ~NeedsCard(x))
            /\ pc'[x] = "recording"
         \/ pc[x] = "recording" /\ pc'[x] = "done"
  BY TypeParts DEF WriteRun, ReadForRecord, WriteRecord, HoldDraft, RunTypes, LogTypes
<1>2. RecordedStatus(x)' = RecordedStatus(x)
  BY <1>1 DEF RecordedStatus
<1>3. RunInv(x)'
  BY <1>1, <1>2 DEF HistoryInv, RunInv, NeedsCard
<1>4. ASSUME NEW y \in Runs, y # x PROVE RunInv(y)'
  BY <1>1, <1>4, OtherRunInv DEF HistoryInv
<1> QED BY <1>3, <1>4, WriteRunKeepsLog, ReadKeepsLog, WriteRecordKeepsLog DEF HistoryInv

(* What a request, the scheduler or a restart does leaves the history alone. *)
LEMMA OthersKeepHistory ==
  ASSUME TypeOK, TypeOK', HistoryInv,
         RequestStep \/ Restart \/ (\E x \in Runs : GiveUp(x)) \/ UNCHANGED vars
  PROVE  HistoryInv'
<1>1. CASE RequestStep
  <2>1. /\ UNCHANGED <<logVars, cards, of, session, outcome>>
        /\ Abandons
    BY <1>1, RequestTypes, RequestAbandons DEF Abandons, InProgress
  <2>2. UNCHANGED <<runs, draft, total, made, missed, lost, cards, of, session, outcome>>
    BY <2>1 DEF logVars
  <2> QED BY <2>1, <2>2, AbandonKeepsHistory
<1>2. CASE Restart
  <2>1. /\ UNCHANGED <<runs, total, made, lost, cards, of, session, outcome>>
        /\ \A x \in Runs : pc'[x] = IF pc[x] \in InProgress THEN "abandoned" ELSE pc[x]
    BY <1>2 DEF Restart
  <2>2. \A z \in Runs : pc'[z] \notin Drafting
    BY <2>1 DEF InProgress, Drafting
  <2>3. Abandons
    BY <2>1 DEF Abandons
  <2> QED BY <2>1, <2>2, <2>3, AbandonKeepsHistory
<1>3. ASSUME NEW x \in Runs, GiveUp(x) PROVE HistoryInv'
  <2>1. /\ UNCHANGED <<runs, total, made, lost, cards, of, session, outcome>>
        /\ pc[x] \in InProgress /\ pc'[x] = "abandoned"
        /\ \A y \in Runs \ {x} : pc'[y] = pc[y] /\ draft'[y] = draft[y] /\ missed'[y] = missed[y]
    BY <1>3, TypeParts DEF GiveUp, InProgress, RunTypes, LogTypes
  <2>2. Abandons
    BY <2>1 DEF Abandons
  <2>3. \A z \in Runs : pc'[z] \in Drafting => draft'[z] = draft[z] /\ missed'[z] = missed[z]
    BY <2>1 DEF Drafting
  <2> QED BY <2>1, <2>2, <2>3, AbandonKeepsHistory
<1>4. CASE UNCHANGED vars
  <2>1. UNCHANGED <<runs, draft, total, made, missed, lost, cards, of, session, outcome, pc>>
    BY <1>4 DEF vars, logVars, callVars
  <2>2. Abandons
    BY <2>1 DEF Abandons
  <2> QED BY <2>1, <2>2, AbandonKeepsHistory
<1> QED BY <1>1, <1>2, <1>3, <1>4

(***************************************************************************)
(* The scheduler's tasks.  What a run does changes neither the routines    *)
(* nor the tasks; an edit that was written is not yet synced.              *)
(***************************************************************************)
Synced == started /\ ~astray /\ (\A e \in Edits : edit[e] # "written")

LEMMA SameRoutines ==
  ASSUME NEW new, Follows(new), routines' = routines, NEW neww, neww = new
  PROVE  Follows(neww)'
BY DEF Follows, Enabled, Listed

LEMMA JobsAre == JobsFollowRoutines <=> (Synced => Follows(jobs))
BY DEF JobsFollowRoutines, Synced, Follows

LEMMA JobsWillBe == JobsFollowRoutines' <=> (Synced' => Follows(jobs)')
BY DEF JobsFollowRoutines, Synced, Follows

LEMMA StandingJobs ==
  ASSUME JobsFollowRoutines, routines' = routines, UNCHANGED <<started, jobs, astray>>,
         \A e \in Edits : edit[e] = "written" => edit'[e] = "written"
  PROVE  JobsFollowRoutines'
<1>1. Synced' => Synced
  BY DEF Synced
<1> QED BY <1>1, JobsAre, JobsWillBe, SameRoutines

LEMMA SyncedJobs ==
  ASSUME routines' = routines, Synced' => Follows(jobs')
  PROVE  JobsFollowRoutines'
BY JobsWillBe DEF Follows, Enabled, Listed

LEMMA EditKeepsJobs ==
  ASSUME TypeOK, JobsFollowRoutines, NEW e \in Edits, EditStep(e)
  PROVE  JobsFollowRoutines'
<1>0. edit \in [Edits -> {"idle", "read", "written"}]
  BY DEF TypeOK
<1>1. ASSUME NEW i \in Ids, NEW r,
             DeleteRoutine(e, i) \/ CreateRoutine(e, i, r) \/ UpdateRoutine(e, i, r)
      PROVE  JobsFollowRoutines'
  <2>1. /\ routines' = routines /\ UNCHANGED <<started, jobs, astray>>
        /\ edit[e] = "idle" /\ edit' = [edit EXCEPT ![e] = "read"]
    BY <1>1 DEF DeleteRoutine, CreateRoutine, UpdateRoutine, ReadRoutines, schedVars
  <2> QED BY <1>0, <2>1, StandingJobs
<1>2. CASE WriteRoutines(e)
  <2>1. edit'[e] = "written"
    BY <1>0, <1>2 DEF WriteRoutines
  <2> QED BY <2>1, JobsWillBe DEF Synced
<1>3. CASE EditFails(e)
  <2>1. /\ routines' = routines /\ UNCHANGED <<started, jobs, astray>>
        /\ edit[e] = "read" /\ edit' = [edit EXCEPT ![e] = "idle"]
    BY <1>3 DEF EditFails, schedVars
  <2> QED BY <1>0, <2>1, StandingJobs
<1>4. CASE SyncAfterEdit(e)
  <2>1. SyncAgent /\ routines' = routines /\ started' = started
    BY <1>4 DEF SyncAfterEdit
  <2>2. started /\ ~astray' => Follows(jobs')
    BY <2>1, SyncAgentTypes
  <2> QED BY <2>1, <2>2, SyncedJobs DEF Synced
<1>5. CASE EditDropped(e)
  BY <1>5, JobsWillBe DEF EditDropped, Synced
<1> QED BY <1>1, <1>2, <1>3, <1>4, <1>5 DEF EditStep

LEMMA StepKeepsJobs ==
  ASSUME TypeOK, JobsFollowRoutines, [Next]_vars
  PROVE  JobsFollowRoutines'
<1>1. CASE UNCHANGED <<editVars, started, jobs, astray>>
  BY <1>1, StandingJobs DEF editVars
<1>2. CASE SchedulerSync
  <2>1. SyncAgent /\ routines' = routines /\ started' = started
    BY <1>2 DEF SchedulerSync, editVars
  <2>2. started /\ ~astray' => Follows(jobs')
    BY <2>1, SyncAgentTypes
  <2> QED BY <2>1, <2>2, SyncedJobs DEF Synced
<1>3. CASE SchedulerStart \/ SetTimezone
  <2>1. PICK old \in [Ids -> Valid \cup {NoJob}] : Sync(old)
    BY <1>3, AllAbortedTypes DEF SchedulerStart, SetTimezone, TypeOK
  <2>2. ~astray' => Follows(jobs')
    BY <2>1, SyncReconciles
  <2>3. routines' = routines
    BY <1>3 DEF SchedulerStart, SetTimezone, editVars
  <2> QED BY <2>2, <2>3, SyncedJobs DEF Synced
<1>4. CASE SchedulerStop \/ Restart
  <2>1. ~started'
    BY <1>4 DEF SchedulerStop, Restart
  <2> QED BY <2>1, JobsWillBe DEF Synced
<1>5. ASSUME NEW i \in Ids, NEW x \in Runs, Fire(i, x) \/ RunNow(i, x)
      PROVE  UNCHANGED <<editVars, started, jobs, astray>>
  BY <1>5 DEF Fire, RunNow, Begin
<1>6. ASSUME NEW x \in Runs, RunStep(x) PROVE UNCHANGED <<editVars, started, jobs, astray>>
  BY <1>6 DEF RunStep, WriteRun, TakeFolder, Conflict, SeedFails, SpawnSession, SessionEnds, Collect,
              CreateCard, LinkCard, ReadForRecord, WriteRecord, GiveUp, schedVars
<1>7. ASSUME NEW x \in Runs, ClientGone(x) PROVE UNCHANGED <<editVars, started, jobs, astray>>
  BY <1>7 DEF ClientGone, schedVars
<1>8. CASE UNCHANGED vars
  BY <1>1, <1>8 DEF vars, schedVars
<1> QED BY <1>1, <1>2, <1>3, <1>4, <1>5, <1>6, <1>7, <1>8, EditKeepsJobs DEF Next

(***************************************************************************)
(* The invariant.                                                          *)
(***************************************************************************)
RoutinesInv == TypeOK /\ JobsFollowRoutines /\ HistoryInv

LEMMA InitInv == Init => RoutinesInv
<1> SUFFICES ASSUME Init PROVE RoutinesInv
  OBVIOUS
<1>1. TypeOK
  BY InitTypes
<1>2. JobsFollowRoutines
  BY DEF Init, JobsFollowRoutines
<1>3. \A x \in Runs : RunInv(x)
  BY DEF Init, RunInv
<1>4. DOMAIN runs = {}
  BY DEF Init
<1>5. Stamped(made, total)
  BY DEF Init, Stamped
<1>6. FileOk(runs, made, of, lost)
  BY <1>4 DEF Init, FileOk, Ordered, Bounded, Retains
<1>7. Truth(runs, Over, Verdicts, lost)
  BY <1>4 DEF Truth
<1>8. \A z \in Runs : DraftInv(z)
  BY DEF Init, DraftInv, Drafting
<1> QED BY <1>1, <1>2, <1>3, <1>5, <1>6, <1>7, <1>8 DEF RoutinesInv, HistoryInv, LogInv

LEMMA RoutinesStep ==
  ASSUME RoutinesInv, [Next]_vars
  PROVE  RoutinesInv'
<1>0. TypeOK /\ JobsFollowRoutines /\ HistoryInv
  BY DEF RoutinesInv
<1>1. JobsFollowRoutines'
  BY <1>0, StepKeepsJobs
<1>2. ASSUME NEW i \in Ids, NEW x \in Runs, Fire(i, x) \/ RunNow(i, x)
      PROVE  TypeOK' /\ HistoryInv'
  <2>1. Begin(i, x) /\ busy' \in [Ids -> Runs \cup {NoRun}]
    BY <1>0, <1>2 DEF Fire, RunNow, TypeOK
  <2> QED BY <1>0, <2>1, BeginTypes, BeginKeepsHistory
<1>3. ASSUME NEW x \in Runs, RunStep(x)
      PROVE  TypeOK' /\ HistoryInv'
  <2>1. CASE Moves(x)
    BY <1>0, <2>1, MovesTypes, MovesKeepHistory
  <2>2. CASE WriteRun(x) \/ ReadForRecord(x) \/ WriteRecord(x)
    BY <1>0, <2>2, WriteRunTypes, ReadForRecordTypes, WriteRecordTypes, FilesKeepHistory
  <2>3. CASE GiveUp(x)
    BY <1>0, <2>3, GiveUpTypes, OthersKeepHistory
  <2> QED BY <1>3, <2>1, <2>2, <2>3 DEF RunStep, Moves
<1>4. ASSUME RequestStep PROVE TypeOK' /\ HistoryInv'
  BY <1>0, <1>4, RequestAbandons, OthersKeepHistory
<1>5. ASSUME Restart PROVE TypeOK' /\ HistoryInv'
  BY <1>0, <1>5, RestartTypes, OthersKeepHistory
<1>6. ASSUME UNCHANGED vars PROVE TypeOK' /\ HistoryInv'
  <2>1. TypeOK'
    BY <1>0, <1>6 DEF vars, editVars, schedVars, logVars, callVars, TypeOK
  <2> QED BY <1>0, <1>6, <2>1, OthersKeepHistory
<1> QED BY <1>1, <1>2, <1>3, <1>4, <1>5, <1>6 DEF Next, RequestStep, RoutinesInv

LEMMA RoutinesAlways == Spec => []RoutinesInv
<1>1. RoutinesInv /\ [Next]_vars => RoutinesInv'
  BY RoutinesStep
<1> QED BY <1>1, InitInv, PTL DEF Spec

LEMMA ListedAreRuns ==
  ASSUME TypeOK
  PROVE  \A k \in DOMAIN runs : runs[k].run \in Runs
<1>1. runs \in Seq(Entry)
  BY DEF TypeOK
<1>2. \A k \in DOMAIN runs : runs[k] \in Entry
  BY <1>1
<1> QED BY <1>2 DEF Entry

(* Every reachable state is well typed, for any routines, edits, runs and    *)
(* schedules.                                                                *)
THEOREM RoutinesTypes == Spec => []TypeOK
<1>1. RoutinesInv => TypeOK
  BY DEF RoutinesInv
<1> QED BY <1>1, RoutinesAlways, PTL

(* A scheduler that was told of every edit and could read the routines has a *)
(* task for every enabled routine with a valid schedule, and none for one    *)
(* that is disabled or gone, for any number of edits that overlap: sync.     *)
THEOREM SchedulerFollows == Spec => []JobsFollowRoutines
<1>1. RoutinesInv => JobsFollowRoutines
  BY DEF RoutinesInv
<1> QED BY <1>1, RoutinesAlways, PTL

(* A run is listed with the verdict on its own answer, and as "running" once *)
(* it was recorded only if another write went over the record: run_routine   *)
(* and update, for any number of runs that overlap and are dropped.          *)
THEOREM HistoryIsTrue == Spec => []RunsTellTheirOutcome
<1>1. ASSUME RoutinesInv PROVE RunsTellTheirOutcome
  <2>1. Truth(runs, Over, Verdicts, lost) /\ TypeOK
    BY <1>1 DEF RoutinesInv, HistoryInv, LogInv
  <2>2. \A k \in DOMAIN runs : runs[k].run \in Runs
    BY <2>1, ListedAreRuns
  <2> QED BY <2>1, <2>2 DEF Truth, Over, Verdicts, RunsTellTheirOutcome
<1> QED BY <1>1, RoutinesAlways, PTL

(* A run has a card only if it found something, and a run listed as surfaced *)
(* has one: surface comes before the record, and a record is never undone.   *)
THEOREM CardsAgree == Spec => []CardsAreSurfacedRuns
<1>1. ASSUME RoutinesInv PROVE CardsAreSurfacedRuns
  <2>1. Truth(runs, Over, Verdicts, lost) /\ TypeOK /\ \A x \in Runs : RunInv(x)
    BY <1>1 DEF RoutinesInv, HistoryInv, LogInv
  <2>2. \A x \in cards : RecordedStatus(x) = "surfaced" /\ session[x] = "over"
    BY <2>1 DEF TypeOK, RunInv
  <2>3. ASSUME NEW k \in DOMAIN runs, runs[k].status = "surfaced" PROVE runs[k].run \in cards
    <3>1. runs[k].run \in Runs
      BY <2>1, ListedAreRuns
    <3>2. pc[runs[k].run] = "done" /\ RecordedStatus(runs[k].run) = "surfaced"
      BY <2>1, <2>3, <3>1 DEF Truth, Over, Verdicts
    <3> QED BY <2>1, <3>1, <3>2 DEF RunInv
  <2> QED BY <2>2, <2>3 DEF CardsAreSurfacedRuns
<1> QED BY <1>1, RoutinesAlways, PTL

(* The history lists runs that were made, in their order, never more than    *)
(* MAX_RUNS_PER_ROUTINE of a routine; and a run that fewer than that many    *)
(* are newer than is listed, unless an overlapping write that had read the   *)
(* file before went over it (runs.rs, create, prune and update).             *)
THEOREM HistoryIsNewest == Spec => []HistoryKeepsNewest
<1>1. ASSUME RoutinesInv PROVE HistoryKeepsNewest
  <2>1. FileOk(runs, made, of, lost) /\ TypeOK
    BY <1>1 DEF RoutinesInv, HistoryInv, LogInv
  <2>2. \A x \in Runs : NewerThan(made, of, x) = Newer(x)
    BY DEF NewerThan, Newer
  <2> QED BY <2>1, <2>2 DEF FileOk, Ordered, Bounded, Retains, Followers, HistoryKeepsNewest
<1> QED BY <1>1, RoutinesAlways, PTL
=============================================================================
