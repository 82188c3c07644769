------------------------ MODULE SessionTurns_proofs ------------------------
(***************************************************************************)
(* More about SessionRuntime, for every set of turns, stops, conversations *)
(* and directories: what the maps count, what a stop does to the turns     *)
(* that wait, and that the runtime implements TurnQueue. The types, the    *)
(* lock discipline and the place of the CLI come from                      *)
(* SessionRuntime_proofs.                                                  *)
(***************************************************************************)
EXTENDS SessionRuntime_proofs

(***************************************************************************)
(* SessionControl counts the registered turns.                             *)
(***************************************************************************)
RegisteredOf(i) == TurnsOf(i) \cap AtPc(InControl)

LEMMA RegisteredFinite ==
  ASSUME NEW i
  PROVE  IsFiniteSet(RegisteredOf(i)) /\ Cardinality(RegisteredOf(i)) \in Nat
<1>1. RegisteredOf(i) \in SUBSET Turns
  BY DEF RegisteredOf, AtPc
<1> QED BY <1>1, RuntimeAssumption, FS_Subset, FS_CardinalityType

(* A turn that goes on or waits leaves every count as it is. *)
LEMMA CountKept ==
  ASSUME TypeOK, ControlCountsTurns, NEW t \in Turns,
         pc' = [pc EXCEPT ![t] = pc'[t]],
         pc[t] \in InControl <=> pc'[t] \in InControl,
         \A i \in Identities : control'[i].active = control[i].active
  PROVE  ControlCountsTurns'
<1>1. pc \in [Turns -> TurnPc]
  BY DEF TypeOK, TurnTypeOK
<1>2. \A u \in Turns : pc'[u] \in InControl <=> pc[u] \in InControl
  BY <1>1
<1>3. AtPc(InControl)' = AtPc(InControl)
  BY <1>2 DEF AtPc
<1> QED BY <1>3 DEF ControlCountsTurns, TurnsOf

LEMMA CountUp ==
  ASSUME TypeOK, ControlCountsTurns, NEW t \in Turns, Start(t)
  PROVE  ControlCountsTurns'
<1> DEFINE j == IdentityOf[t]
<1>1. /\ j \in Identities /\ pc \in [Turns -> TurnPc] /\ control \in ControlType
  BY RuntimeAssumption DEF TypeOK, TurnTypeOK, RuntimeTypeOK, ControlType, Entry
<1>2. /\ pc' = [pc EXCEPT ![t] = "spawned"] /\ pc[t] = "absent"
      /\ control' = [control EXCEPT ![j].active = @ + 1]
  BY DEF Start, ControlRegister
<1>3. "spawned" \in InControl /\ "absent" \notin InControl
  BY DEF InControl, Waiting, Executing
<1>4. ASSUME NEW i \in Identities
      PROVE  control'[i].active = Cardinality(RegisteredOf(i)')
  <2>1. CASE i = j
    <3>1. RegisteredOf(i)' = RegisteredOf(i) \cup {t} /\ t \notin RegisteredOf(i)
      BY <1>1, <1>2, <1>3, <2>1 DEF RegisteredOf, TurnsOf, AtPc
    <3>2. Cardinality(RegisteredOf(i)') = Cardinality(RegisteredOf(i)) + 1
      BY <3>1, RegisteredFinite, FS_AddElement
    <3>3. control'[i].active = control[i].active + 1
      BY <1>1, <1>2, <2>1 DEF ControlType, Entry
    <3> QED BY <3>2, <3>3 DEF ControlCountsTurns, RegisteredOf
  <2>2. CASE i # j
    <3>1. RegisteredOf(i)' = RegisteredOf(i)
      BY <1>1, <1>2, <2>2 DEF RegisteredOf, TurnsOf, AtPc
    <3>2. control'[i] = control[i]
      BY <1>1, <1>2, <2>2 DEF ControlType
    <3> QED BY <3>1, <3>2 DEF ControlCountsTurns, RegisteredOf
  <2> QED BY <2>1, <2>2
<1> QED BY <1>4 DEF ControlCountsTurns, RegisteredOf

LEMMA CountDown ==
  ASSUME TypeOK, ControlCountsTurns, NEW t \in Turns, Finish(t) \/ ReportFailure(t)
  PROVE  ControlCountsTurns'
<1> DEFINE j == IdentityOf[t]
<1>1. /\ j \in Identities /\ pc \in [Turns -> TurnPc] /\ control \in ControlType
  BY RuntimeAssumption DEF TypeOK, TurnTypeOK, RuntimeTypeOK, ControlType, Entry
<1>2. /\ pc[t] \in InControl /\ pc'[t] \notin InControl
      /\ pc' = [pc EXCEPT ![t] = pc'[t]] /\ ControlFinish(j)
  BY <1>1 DEF Finish, ReportFailure, InControl, Waiting, Executing
<1>3. ASSUME NEW i \in Identities
      PROVE  control'[i].active = Cardinality(RegisteredOf(i)')
  <2>1. CASE i = j
    <3>1. RegisteredOf(i)' = RegisteredOf(i) \ {t} /\ t \in RegisteredOf(i)
      BY <1>1, <1>2, <2>1 DEF RegisteredOf, TurnsOf, AtPc
    <3>2. Cardinality(RegisteredOf(i)') = Cardinality(RegisteredOf(i)) - 1
      BY <3>1, RegisteredFinite, FS_RemoveElement
    <3>3. Cardinality(RegisteredOf(i)) # 0
      BY <3>1, RegisteredFinite, FS_EmptySet
    <3>4. control[i].active = Cardinality(RegisteredOf(i)) /\ control[i].active \in Nat
      BY RegisteredFinite DEF ControlCountsTurns, RegisteredOf
    <3>5. control'[i].active = control[i].active - 1
      <4>1. CASE control[i].active > 1
        BY <1>1, <1>2, <2>1, <4>1 DEF ControlFinish, ControlType, Entry
      <4>2. CASE ~(control[i].active > 1)
        <5>1. control[i].active = 1
          BY <3>3, <3>4, <4>2
        <5> QED BY <1>1, <1>2, <2>1, <5>1 DEF ControlFinish, ControlType, NoEntry
      <4> QED BY <4>1, <4>2
    <3> QED BY <3>2, <3>4, <3>5
  <2>2. CASE i # j
    <3>1. RegisteredOf(i)' = RegisteredOf(i)
      BY <1>1, <1>2, <2>2 DEF RegisteredOf, TurnsOf, AtPc
    <3>2. control'[i] = control[i]
      BY <1>1, <1>2, <2>2 DEF ControlType, ControlFinish
    <3> QED BY <3>1, <3>2 DEF ControlCountsTurns, RegisteredOf
  <2> QED BY <2>1, <2>2
<1> QED BY <1>3 DEF ControlCountsTurns, RegisteredOf

LEMMA CountStep ==
  ASSUME TypeOK, ControlCountsTurns, [Next]_vars
  PROVE  ControlCountsTurns'
<1>0. pc \in [Turns -> TurnPc] /\ control \in ControlType
  BY DEF TypeOK, TurnTypeOK, RuntimeTypeOK, ControlType, Entry
<1>1. ASSUME NEW t \in Turns,
             \/ Enqueue(t) \/ CannotCreateAgentDir(t) \/ SkipStale(t) \/ Proceed(t)
             \/ SeedFails(t) \/ RegisterWorkdir(t) \/ MarkRunning(t) \/ FinishWorkdir(t)
             \/ Settle(t) \/ Release(t) \/ RunnerEnds(t)
      PROVE  ControlCountsTurns'
  <2>1. /\ pc' = [pc EXCEPT ![t] = pc'[t]]
        /\ pc[t] \in InControl <=> pc'[t] \in InControl
        /\ control' = control
    BY <1>0, <1>1 DEF Enqueue, CannotCreateAgentDir, SkipStale, Proceed, SeedFails, RegisterWorkdir,
         MarkRunning, FinishWorkdir, Settle, Release, RunnerEnds, runtimeVars,
         InControl, Waiting, Executing
  <2> QED BY <2>1, CountKept
<1>2. ASSUME UNCHANGED pc, \A i \in Identities : control'[i].active = control[i].active
      PROVE  ControlCountsTurns'
  BY <1>2 DEF ControlCountsTurns, TurnsOf, AtPc
<1>3. ASSUME NEW t \in Turns,
             Launch(t) \/ LaunchFails(t) \/ Exit(t) \/ RetryFresh(t) \/ HandleUpdate(t)
      PROVE  ControlCountsTurns'
  BY <1>2, <1>3 DEF Launch, LaunchFails, Exit, RetryFresh, HandleUpdate, runtimeVars, turnVars
<1>4. ASSUME NEW c \in Stops, TakePid(c) \/ ConfirmDead(c) \/ ReportStop(c)
      PROVE  ControlCountsTurns'
  BY <1>2, <1>4 DEF TakePid, ConfirmDead, ReportStop, runtimeVars, turnVars
<1>5. ASSUME NEW c \in Stops, Cancel(c)
      PROVE  ControlCountsTurns'
  <2>1. \A i \in Identities : control'[i].active = control[i].active
    BY <1>0, <1>5 DEF Cancel, ControlCancel, ControlType, Entry
  <2> QED BY <1>2, <1>5, <2>1 DEF Cancel, turnVars
<1>6. CASE UNCHANGED vars
  BY <1>2, <1>6 DEF vars, runtimeVars, turnVars
<1> QED BY ActionsOfNext, CountUp, CountDown, <1>1, <1>3, <1>4, <1>5, <1>6

(***************************************************************************)
(* What a stop does to the turns that wait. While a turn waits, its        *)
(* generation falls behind exactly when a stop overtook it: the entry      *)
(* cannot be removed, and its generation cannot start over, as long as the *)
(* turn is counted in it. A turn that fell behind never gets to its CLI.   *)
(***************************************************************************)
NeverRan == Waiting \cup {"finishing", "releasing", "done", "failed", "aborted"}

DoomOf(t) ==
  /\ pc[t] \in Waiting =>
       /\ generation[t] <= control[IdentityOf[t]].generation
       /\ stopped[t] <=> generation[t] # control[IdentityOf[t]].generation
  /\ stopped[t] => driver[t] = "off" /\ pc[t] \in NeverRan

DoomInv == \A t \in Turns : DoomOf(t)

(* A turn that is counted finds the entry of its conversation there. *)
LEMMA CountedHasEntry ==
  ASSUME ControlCountsTurns, NEW t \in Turns, pc[t] \in InControl
  PROVE  control[IdentityOf[t]].active \in Nat \ {0}
<1> DEFINE i == IdentityOf[t]
<1>1. i \in Identities /\ t \in RegisteredOf(i)
  BY RuntimeAssumption DEF RegisteredOf, TurnsOf, AtPc
<1>2. Cardinality(RegisteredOf(i)) # 0
  BY <1>1, RegisteredFinite, FS_EmptySet
<1> QED BY <1>1, <1>2, RegisteredFinite DEF ControlCountsTurns, RegisteredOf

(* The entry goes with the last turn that is counted. *)
LEMMA LastLeaves ==
  ASSUME ControlCountsTurns, NEW t \in Turns, NEW u \in Turns, t # u,
         pc[t] \in InControl, pc[u] \in InControl, IdentityOf[t] = IdentityOf[u]
  PROVE  control[IdentityOf[t]].active > 1
<1> DEFINE i == IdentityOf[t]
<1>1. i \in Identities /\ {t, u} \subseteq RegisteredOf(i)
  BY RuntimeAssumption DEF RegisteredOf, TurnsOf, AtPc
<1>2. IsFiniteSet({t}) /\ Cardinality({t}) = 1
  BY FS_Singleton
<1>3. IsFiniteSet({t, u}) /\ Cardinality({t, u}) = 2
  <2>1. {t} \cup {u} = {t, u} /\ u \notin {t}
    OBVIOUS
  <2> QED BY <1>2, <2>1, FS_AddElement
<1>4. 2 <= Cardinality(RegisteredOf(i))
  BY <1>1, <1>3, RegisteredFinite, FS_Subset
<1>5. control[i].active = Cardinality(RegisteredOf(i)) /\ Cardinality(RegisteredOf(i)) \in Nat
  BY <1>1, RegisteredFinite DEF ControlCountsTurns, RegisteredOf
<1> HIDE DEF i
<1>6. control[i].active > 1
  BY <1>4, <1>5
<1> QED BY <1>6 DEF i

(* A waiting turn is stale exactly when a stop overtook it. *)
LEMMA StaleIsStopped ==
  ASSUME ControlCountsTurns, DoomInv, NEW t \in Turns, pc[t] \in Waiting
  PROVE  IsStale(t) <=> stopped[t]
<1>1. control[IdentityOf[t]].active # 0
  BY CountedHasEntry DEF InControl
<1> QED BY <1>1 DEF DoomInv, DoomOf, IsStale

(* A turn moves, and neither its generation nor its entry changes. *)
LEMMA DoomKept ==
  ASSUME TypeOK, DoomInv, NEW t \in Turns,
         pc' = [pc EXCEPT ![t] = pc'[t]],
         driver' = [driver EXCEPT ![t] = driver'[t]],
         UNCHANGED <<control, generation, stopped>>,
         pc'[t] \in Waiting => pc[t] \in Waiting,
         stopped[t] => driver'[t] = "off" /\ pc'[t] \in NeverRan
  PROVE  DoomInv'
<1>1. pc \in [Turns -> TurnPc] /\ driver \in [Turns -> {"off", "launching", "watching", "closed"}]
  BY DEF TypeOK, TurnTypeOK, CliTypeOK
<1>2. ASSUME NEW u \in Turns PROVE DoomOf(u)'
  BY <1>1 DEF DoomInv, DoomOf
<1> QED BY <1>2 DEF DoomInv

LEMMA DoomRegister ==
  ASSUME TypeOK, DoomInv, NEW t \in Turns, Start(t)
  PROVE  DoomInv'
<1>1. /\ IdentityOf[t] \in Identities /\ pc \in [Turns -> TurnPc]
      /\ control \in ControlType /\ generation \in [Turns -> Nat]
  BY RuntimeAssumption DEF TypeOK, TurnTypeOK, RuntimeTypeOK, ControlType, Entry
<1>2. \A i \in Identities : control'[i].generation = control[i].generation
                            /\ control[i].generation \in Nat
  BY <1>1 DEF Start, ControlRegister, ControlType, Entry
<1>3. ~stopped[t]
  BY DEF Start, DoomInv, DoomOf, NeverRan, Waiting
<1>4. UNCHANGED <<stopped, driver>>
  BY DEF Start, cliVars, historyVars
<1>5. DoomOf(t)'
  BY <1>1, <1>2, <1>3, <1>4 DEF Start, DoomOf
<1>6. ASSUME NEW u \in Turns, u # t PROVE DoomOf(u)'
  <2>1. pc'[u] = pc[u] /\ generation'[u] = generation[u] /\ IdentityOf[u] \in Identities
    BY <1>1, <1>6, RuntimeAssumption DEF Start
  <2> QED BY <1>2, <1>4, <2>1 DEF DoomInv, DoomOf
<1> QED BY <1>5, <1>6 DEF DoomInv

LEMMA DoomLeave ==
  ASSUME TypeOK, ControlCountsTurns, DoomInv, NEW t \in Turns, Finish(t) \/ ReportFailure(t)
  PROVE  DoomInv'
<1> DEFINE j == IdentityOf[t]
<1>1. j \in Identities /\ pc \in [Turns -> TurnPc] /\ control \in ControlType
  BY RuntimeAssumption DEF TypeOK, TurnTypeOK, RuntimeTypeOK, ControlType, Entry
<1>2. /\ pc[t] \in InControl /\ pc'[t] \in NeverRan \ Waiting
      /\ pc' = [pc EXCEPT ![t] = pc'[t]] /\ ControlFinish(j)
      /\ UNCHANGED <<generation, stopped, driver>>
  BY <1>1 DEF Finish, ReportFailure, InControl, Waiting, NeverRan, cliVars, historyVars
<1>3. ASSUME NEW u \in Turns PROVE DoomOf(u)'
  <2>1. CASE u = t
    BY <1>2, <2>1 DEF DoomInv, DoomOf
  <2>2. CASE u # t /\ pc[u] \in Waiting
    <3>1. control'[IdentityOf[u]].generation = control[IdentityOf[u]].generation
      <4>1. CASE IdentityOf[u] = j
        <5>1. control[j].active > 1
          BY <1>2, <2>2, <4>1, LastLeaves DEF InControl
        <5> QED BY <1>1, <1>2, <4>1, <5>1 DEF ControlFinish, ControlType, Entry
      <4>2. CASE IdentityOf[u] # j
        BY <1>1, <1>2, <4>2, RuntimeAssumption DEF ControlFinish, ControlType
      <4> QED BY <4>1, <4>2
    <3>2. pc'[u] = pc[u]
      BY <1>1, <1>2, <2>2
    <3> QED BY <1>2, <3>1, <3>2 DEF DoomInv, DoomOf
  <2>3. CASE u # t /\ pc[u] \notin Waiting
    <3>1. pc'[u] = pc[u]
      BY <1>1, <1>2, <2>3
    <3> QED BY <1>2, <2>3, <3>1 DEF DoomInv, DoomOf
  <2> QED BY <2>1, <2>2, <2>3
<1> QED BY <1>3 DEF DoomInv

(* A stop ages the entry, which all waiting turns of the conversation see. *)
LEMMA DoomCancel ==
  ASSUME TypeOK, CliInv, ControlCountsTurns, DoomInv, NEW c \in Stops, Cancel(c)
  PROVE  DoomInv'
<1> DEFINE j == TargetOf[c]
<1>1. j \in Identities /\ control \in ControlType /\ generation \in [Turns -> Nat]
  BY RuntimeAssumption DEF TypeOK, TurnTypeOK, RuntimeTypeOK, ControlType, Entry
<1>2. /\ ControlCancel(j) /\ UNCHANGED <<pc, generation, driver>>
      /\ \A u \in Turns : stopped'[u] <=> stopped[u] \/ (IdentityOf[u] = j /\ pc[u] \in Waiting)
  BY DEF Cancel, turnVars, cliVars
<1>3. ASSUME NEW u \in Turns PROVE DoomOf(u)'
  <2>1. CASE IdentityOf[u] = j /\ pc[u] \in Waiting
    <3>1. control[j].active > 0
      BY <2>1, CountedHasEntry DEF InControl
    <3>2. control'[j].generation = control[j].generation + 1 /\ control[j].generation \in Nat
      BY <1>1, <1>2, <3>1 DEF ControlCancel, ControlType, Entry
    <3>3. generation[u] <= control[j].generation /\ generation[u] \in Nat
      BY <1>1, <2>1 DEF DoomInv, DoomOf
    <3>4. driver[u] = "off"
      BY <2>1 DEF CliInv, Unstarted, Waiting
    <3> QED BY <1>2, <2>1, <3>2, <3>3, <3>4 DEF DoomOf, NeverRan
  <2>2. CASE IdentityOf[u] # j
    <3>1. control'[IdentityOf[u]] = control[IdentityOf[u]]
      BY <1>1, <1>2, <2>2, RuntimeAssumption DEF ControlCancel, ControlType
    <3> QED BY <1>2, <2>2, <3>1 DEF DoomInv, DoomOf
  <2>3. CASE pc[u] \notin Waiting
    BY <1>2, <2>3 DEF DoomInv, DoomOf
  <2> QED BY <2>1, <2>2, <2>3
<1> QED BY <1>3 DEF DoomInv

LEMMA DoomStep ==
  ASSUME TypeOK, CliInv, ControlCountsTurns, DoomInv, [Next]_vars
  PROVE  DoomInv'
<1>0. pc \in [Turns -> TurnPc] /\ driver \in [Turns -> {"off", "launching", "watching", "closed"}]
  BY DEF TypeOK, TurnTypeOK, CliTypeOK
<1>1. ASSUME NEW t \in Turns,
             \/ Enqueue(t) \/ CannotCreateAgentDir(t) \/ SkipStale(t) \/ Proceed(t)
             \/ SeedFails(t) \/ RegisterWorkdir(t) \/ MarkRunning(t) \/ FinishWorkdir(t)
             \/ Settle(t) \/ Release(t) \/ RunnerEnds(t)
      PROVE  DoomInv'
  <2>1. /\ pc' = [pc EXCEPT ![t] = pc'[t]]
        /\ driver' = [driver EXCEPT ![t] = driver'[t]]
        /\ UNCHANGED <<control, generation, stopped>>
        /\ pc'[t] \in Waiting => pc[t] \in Waiting
    BY <1>0, <1>1 DEF Enqueue, CannotCreateAgentDir, SkipStale, Proceed, SeedFails, RegisterWorkdir,
         MarkRunning, FinishWorkdir, Settle, Release, RunnerEnds, runtimeVars, cliVars,
         historyVars, Waiting
  <2>2. stopped[t] => driver'[t] = "off" /\ pc'[t] \in NeverRan
    <3>1. CASE Enqueue(t) \/ CannotCreateAgentDir(t) \/ SkipStale(t) \/ SeedFails(t) \/ Release(t)
      BY <1>0, <3>1 DEF Enqueue, CannotCreateAgentDir, SkipStale, SeedFails, Release, cliVars,
           DoomInv, DoomOf, NeverRan, Waiting
    <3>2. CASE Proceed(t)
      BY <3>2, StaleIsStopped DEF Proceed, Waiting
    <3>3. CASE RegisterWorkdir(t) \/ MarkRunning(t) \/ FinishWorkdir(t) \/ Settle(t) \/ RunnerEnds(t)
      BY <3>3 DEF RegisterWorkdir, MarkRunning, FinishWorkdir, Settle, RunnerEnds,
           DoomInv, DoomOf, NeverRan, Waiting
    <3> QED BY <1>1, <3>1, <3>2, <3>3
  <2> QED BY <2>1, <2>2, DoomKept
<1>2. ASSUME NEW t \in Turns,
             Launch(t) \/ LaunchFails(t) \/ Exit(t) \/ RetryFresh(t) \/ HandleUpdate(t)
      PROVE  DoomInv'
  <2>1. /\ UNCHANGED <<pc, control, generation, stopped>>
        /\ driver' = [driver EXCEPT ![t] = driver'[t]]
        /\ pc[t] = "monitoring" \/ driver' = driver
    BY <1>0, <1>2 DEF Launch, LaunchFails, Exit, RetryFresh, HandleUpdate, CliInv,
         runtimeVars, turnVars, historyVars
  <2>2. stopped[t] => driver'[t] = "off" /\ pc'[t] \in NeverRan
    BY <2>1 DEF DoomInv, DoomOf, NeverRan, Waiting
  <2>3. pc' = [pc EXCEPT ![t] = pc'[t]]
    BY <1>0, <2>1
  <2> QED BY <2>1, <2>2, <2>3, DoomKept
<1>3. ASSUME UNCHANGED <<pc, driver, control, generation, stopped>> PROVE DoomInv'
  BY <1>3 DEF DoomInv, DoomOf
<1>4. ASSUME NEW c \in Stops, TakePid(c) \/ ConfirmDead(c) \/ ReportStop(c)
      PROVE  DoomInv'
  BY <1>3, <1>4 DEF TakePid, ConfirmDead, ReportStop, runtimeVars, turnVars, cliVars, historyVars
<1>5. CASE UNCHANGED vars
  BY <1>3, <1>5 DEF vars, runtimeVars, turnVars, cliVars, historyVars
<1> QED BY ActionsOfNext, DoomRegister, DoomLeave, DoomCancel, <1>1, <1>2, <1>4, <1>5

(***************************************************************************)
(* What the later proofs ask of an action: a turn moves alone.             *)
(***************************************************************************)

(* Two turns of a conversation do not hold its lock together. *)
LEMMA OneHolds ==
  ASSUME LockInv, NEW t \in Turns, NEW u \in Turns, IdentityOf[t] = IdentityOf[u],
         pc[t] \in Holding, pc[u] \in Holding
  PROVE  t = u
BY DEF LockInv, HoldsLock

(* The runner is joined only after its driver has closed the channel. *)
ClosedInv == \A t \in Turns : pc[t] \in {"joined", "settling"} => driver[t] = "closed"

LEMMA ClosedStep ==
  ASSUME TypeOK, CliInv, ClosedInv, [Next]_vars
  PROVE  ClosedInv'
<1>0. pc \in [Turns -> TurnPc] /\ driver \in [Turns -> {"off", "launching", "watching", "closed"}]
  BY DEF TypeOK, TurnTypeOK, CliTypeOK
<1>1. ASSUME NEW t \in Turns, pc' = [pc EXCEPT ![t] = pc'[t]], driver' = driver,
             pc'[t] \in {"joined", "settling"} => driver[t] = "closed"
      PROVE  ClosedInv'
  BY <1>0, <1>1 DEF ClosedInv
<1>2. ASSUME NEW t \in Turns,
             \/ Start(t) \/ Enqueue(t) \/ CannotCreateAgentDir(t) \/ SkipStale(t) \/ Proceed(t)
             \/ SeedFails(t) \/ RegisterWorkdir(t) \/ FinishWorkdir(t)
             \/ Settle(t) \/ Finish(t) \/ Release(t) \/ ReportFailure(t) \/ RunnerEnds(t)
      PROVE  ClosedInv'
  <2>1. pc' = [pc EXCEPT ![t] = pc'[t]] /\ driver' = driver
    BY <1>0, <1>2 DEF Start, Enqueue, CannotCreateAgentDir, SkipStale, Proceed, SeedFails,
         RegisterWorkdir, FinishWorkdir, Settle, Finish, Release, ReportFailure, RunnerEnds, cliVars
  <2>2. pc'[t] \in {"joined", "settling"} => driver[t] = "closed"
    BY <1>0, <1>2 DEF Start, Enqueue, CannotCreateAgentDir, SkipStale, Proceed, SeedFails,
         RegisterWorkdir, FinishWorkdir, Settle, Finish, Release, ReportFailure, RunnerEnds,
         ChannelIsOver, ClosedInv
  <2> QED BY <1>1, <2>1, <2>2
<1>3. ASSUME NEW t \in Turns,
             MarkRunning(t) \/ Launch(t) \/ LaunchFails(t) \/ Exit(t) \/ RetryFresh(t)
      PROVE  ClosedInv'
  <2>1. /\ driver' = [driver EXCEPT ![t] = driver'[t]] /\ pc' = [pc EXCEPT ![t] = pc'[t]]
        /\ pc'[t] = "monitoring"
    BY <1>0, <1>3 DEF MarkRunning, Launch, LaunchFails, Exit, RetryFresh, CliInv, turnVars
  <2> QED BY <1>0, <2>1 DEF ClosedInv
<1>4. ASSUME UNCHANGED <<pc, driver>> PROVE ClosedInv'
  BY <1>4 DEF ClosedInv
<1>5. ASSUME NEW t \in Turns, HandleUpdate(t) PROVE ClosedInv'
  BY <1>4, <1>5 DEF HandleUpdate
<1>6. ASSUME NEW c \in Stops, Cancel(c) \/ TakePid(c) \/ ConfirmDead(c) \/ ReportStop(c)
      PROVE  ClosedInv'
  BY <1>4, <1>6 DEF Cancel, TakePid, ConfirmDead, ReportStop, turnVars, cliVars
<1>7. CASE UNCHANGED vars
  BY <1>4, <1>7 DEF vars, turnVars, cliVars
<1> QED BY ActionsOfNext, <1>2, <1>3, <1>5, <1>6, <1>7

(***************************************************************************)
(* The pid map: whoever leaves "monitoring" forgets the pid under its key. *)
(***************************************************************************)
LEMMA PidsStep ==
  ASSUME TypeOK, PidsAreOurs, [Next]_vars
  PROVE  PidsAreOurs'
<1>0. /\ pc \in [Turns -> TurnPc] /\ pidMap \in [Keys -> Processes \cup {NoProcess}]
      /\ \A k \in Keys : pidMap[k] # NoProcess => pidMap[k][1] \in Turns
  BY DEF TypeOK, TurnTypeOK, RuntimeTypeOK, Processes
<1>1. ASSUME NEW t \in Turns, pc[t] # "monitoring", pc' = [pc EXCEPT ![t] = pc'[t]],
             pidMap' = pidMap
      PROVE  PidsAreOurs'
  BY <1>0, <1>1 DEF PidsAreOurs, KeyOfTurn
<1>2. ASSUME NEW t \in Turns,
             \/ Start(t) \/ Enqueue(t) \/ CannotCreateAgentDir(t) \/ SkipStale(t) \/ Proceed(t)
             \/ SeedFails(t) \/ RegisterWorkdir(t) \/ MarkRunning(t) \/ FinishWorkdir(t)
             \/ Settle(t) \/ Finish(t) \/ Release(t) \/ ReportFailure(t)
      PROVE  PidsAreOurs'
  <2>1. pc[t] # "monitoring" /\ pc' = [pc EXCEPT ![t] = pc'[t]] /\ pidMap' = pidMap
    BY <1>0, <1>2 DEF Start, Enqueue, CannotCreateAgentDir, SkipStale, Proceed, SeedFails,
         RegisterWorkdir, MarkRunning, FinishWorkdir, Settle, Finish, Release, ReportFailure,
         runtimeVars
  <2> QED BY <1>1, <2>1
<1>3. ASSUME UNCHANGED <<pc, pidMap>> PROVE PidsAreOurs'
  BY <1>3 DEF PidsAreOurs, KeyOfTurn
<1>4. ASSUME NEW t \in Turns, Launch(t) \/ LaunchFails(t) \/ Exit(t) \/ RetryFresh(t)
      PROVE  PidsAreOurs'
  BY <1>3, <1>4 DEF Launch, LaunchFails, Exit, RetryFresh, runtimeVars, turnVars
<1>5. ASSUME NEW t \in Turns, HandleUpdate(t) PROVE PidsAreOurs'
  <2> DEFINE u == Head(updates[t])
  <2>1. pc' = pc /\ pc[t] = "monitoring"
    BY <1>5 DEF HandleUpdate
  <2>2. pidMap' = pidMap \/ pidMap' = [pidMap EXCEPT ![KeyOfTurn(t)] = <<t, u.attempt>>]
    BY <1>5 DEF HandleUpdate, KeyOfTurn
  <2> HIDE DEF u
  <2>3. ASSUME NEW k \in Keys, pidMap'[k] # NoProcess
        PROVE  pc[pidMap'[k][1]] = "monitoring" /\ KeyOfTurn(pidMap'[k][1]) = k
    <3>1. CASE pidMap'[k] = pidMap[k]
      BY <2>3, <3>1 DEF PidsAreOurs
    <3>2. CASE pidMap'[k] # pidMap[k]
      BY <1>0, <2>1, <2>2, <3>2
    <3> QED BY <3>1, <3>2
  <2> QED BY <2>1, <2>3 DEF PidsAreOurs, KeyOfTurn
<1>6. ASSUME NEW t \in Turns, RunnerEnds(t) PROVE PidsAreOurs'
  <2>1. /\ pc' = [pc EXCEPT ![t] = "joined"]
        /\ pidMap' = [pidMap EXCEPT ![KeyOfTurn(t)] = NoProcess]
    BY <1>6 DEF RunnerEnds, ForgetPid
  <2>2. ASSUME NEW k \in Keys, pidMap'[k] # NoProcess
        PROVE  pc'[pidMap'[k][1]] = "monitoring" /\ KeyOfTurn(pidMap'[k][1]) = k
    <3>1. pidMap'[k] = pidMap[k] /\ k # KeyOfTurn(t)
      BY <1>0, <2>1, <2>2
    <3>2. pc[pidMap[k][1]] = "monitoring" /\ KeyOfTurn(pidMap[k][1]) = k /\ pidMap[k][1] # t
      BY <2>2, <3>1 DEF PidsAreOurs
    <3> QED BY <1>0, <2>1, <2>2, <3>1, <3>2
  <2> QED BY <2>2 DEF PidsAreOurs, KeyOfTurn
<1>7. ASSUME NEW c \in Stops, TakePid(c) PROVE PidsAreOurs'
  <2>1. pc' = pc /\ pidMap' = [pidMap EXCEPT ![KeyOf[TargetOf[c]]] = NoProcess]
    BY <1>7 DEF TakePid, ForgetPid, turnVars
  <2>2. \A k \in Keys : pidMap'[k] = pidMap[k] \/ pidMap'[k] = NoProcess
    BY <1>0, <2>1
  <2> QED BY <2>1, <2>2 DEF PidsAreOurs, KeyOfTurn
<1>8. ASSUME NEW c \in Stops, Cancel(c) \/ ConfirmDead(c) \/ ReportStop(c) PROVE PidsAreOurs'
  BY <1>3, <1>8 DEF Cancel, ConfirmDead, ReportStop, runtimeVars, turnVars
<1>9. CASE UNCHANGED vars
  BY <1>3, <1>9 DEF vars, runtimeVars, turnVars
<1> QED BY ActionsOfNext, <1>2, <1>4, <1>5, <1>6, <1>7, <1>8, <1>9

(***************************************************************************)
(* The window of a run in its directory.  WorkdirActivity counts the runs  *)
(* in the window; a run that shares its directory sees either that it came *)
(* second or that the generation moved past the one it was given, and the  *)
(* generation cannot start over as long as a run is counted.               *)
(***************************************************************************)
InFolder(d) == {t \in AtPc(InWindow) : DirOf[t] = d}
BeforeWindow == {"absent", "spawned", "queued", "seeding"}

WindowOf(t) ==
  LET entry == workdir[DirOf[t]] IN
  /\ pc[t] \in BeforeWindow => ~shared[t]
  /\ pc[t] \in InWindow =>
       /\ registration[t].generation <= entry.generation
       /\ shared[t] <=> registration[t].overlap \/ registration[t].generation # entry.generation
  /\ pc[t] = "settling" => (overlapped[t] <=> shared[t])

FolderCounts == \A d \in Dirs : workdir[d].active = Cardinality(InFolder(d))

WindowInv == FolderCounts /\ \A t \in Turns : WindowOf(t)

LEMMA FolderFinite ==
  ASSUME NEW d
  PROVE  IsFiniteSet(InFolder(d)) /\ Cardinality(InFolder(d)) \in Nat
<1>1. InFolder(d) \in SUBSET Turns
  BY DEF InFolder, AtPc
<1> QED BY <1>1, RuntimeAssumption, FS_Subset, FS_CardinalityType

LEMMA WindowTypes ==
  ASSUME TypeOK
  PROVE  /\ pc \in [Turns -> TurnPc] /\ workdir \in [Dirs -> Entry]
         /\ registration \in [Turns -> [generation : Nat, overlap : BOOLEAN]]
         /\ overlapped \in [Turns -> BOOLEAN] /\ shared \in [Turns -> BOOLEAN]
         /\ \A t \in Turns : DirOf[t] \in Dirs
BY RuntimeAssumption DEF TypeOK, TurnTypeOK, RuntimeTypeOK, HistoryTypeOK, Entry

(* A turn moves on the same side of its window. *)
LEMMA WindowKept ==
  ASSUME TypeOK, WindowInv, NEW t \in Turns, pc' = [pc EXCEPT ![t] = pc'[t]],
         UNCHANGED <<workdir, registration, overlapped, shared>>,
         pc'[t] \in InWindow <=> pc[t] \in InWindow,
         pc'[t] \in BeforeWindow => pc[t] \in BeforeWindow,
         pc'[t] # "settling"
  PROVE  WindowInv'
<1>1. \A u \in Turns : pc'[u] \in InWindow <=> pc[u] \in InWindow
  BY WindowTypes
<1>2. \A d : InFolder(d)' = InFolder(d)
  BY <1>1 DEF InFolder, AtPc
<1>3. FolderCounts'
  BY <1>2 DEF WindowInv, FolderCounts
<1>4. ASSUME NEW u \in Turns PROVE WindowOf(u)'
  <2>1. CASE u = t
    <3>1. pc'[u] # "settling" /\ (pc'[u] \in InWindow => pc[u] \in InWindow)
          /\ (pc'[u] \in BeforeWindow => pc[u] \in BeforeWindow)
      BY <2>1
    <3> QED BY <3>1 DEF WindowInv, WindowOf
  <2>2. CASE u # t
    <3>1. pc'[u] = pc[u]
      BY <2>2, WindowTypes
    <3> QED BY <3>1 DEF WindowInv, WindowOf
  <2> QED BY <2>1, <2>2
<1> QED BY <1>3, <1>4 DEF WindowInv

LEMMA WindowEnter ==
  ASSUME TypeOK, WindowInv, NEW t \in Turns, RegisterWorkdir(t)
  PROVE  WindowInv'
<1> DEFINE d == DirOf[t]
           overlap == workdir[d].active > 0
           g == IF overlap THEN workdir[d].generation + 1 ELSE workdir[d].generation
           others == {u \in AtPc(InWindow) : DirOf[u] = d}
<1>1. /\ pc[t] = "seeding" /\ pc' = [pc EXCEPT ![t] = "registered"]
      /\ workdir' = [workdir EXCEPT ![d] = [generation |-> g, active |-> workdir[d].active + 1]]
      /\ registration' = [registration EXCEPT ![t] = [generation |-> g, overlap |-> overlap]]
      /\ shared' = [u \in Turns |-> shared[u] \/ u \in others \/ (u = t /\ others # {})]
      /\ overlapped' = overlapped
  BY DEF RegisterWorkdir, WorkdirRegister
<1>2. others = InFolder(d) /\ workdir[d].active = Cardinality(InFolder(d))
  BY WindowTypes DEF InFolder, WindowInv, FolderCounts
<1>3. overlap <=> others # {}
  BY <1>2, FolderFinite, FS_EmptySet
<1>4. g \in Nat /\ workdir[d].generation \in Nat /\ workdir[d].active \in Nat
      /\ g = workdir[d].generation + (IF overlap THEN 1 ELSE 0)
  BY WindowTypes DEF Entry
<1>5. /\ d \in Dirs
      /\ \A u \in Turns : u \in others <=> pc[u] \in InWindow /\ DirOf[u] = d
  BY WindowTypes DEF AtPc
<1> HIDE DEF overlap, g, others
<1>6. FolderCounts'
  <2> SUFFICES ASSUME NEW e \in Dirs PROVE workdir'[e].active = Cardinality(InFolder(e)')
    BY DEF FolderCounts
  <2>1. CASE e = d
    <3>1. InFolder(e)' = InFolder(e) \cup {t} /\ t \notin InFolder(e)
      BY <1>1, <2>1, WindowTypes DEF InFolder, AtPc, InWindow
    <3>2. Cardinality(InFolder(e)') = Cardinality(InFolder(e)) + 1
      BY <3>1, FolderFinite, FS_AddElement
    <3>3. workdir'[e].active = workdir[e].active + 1
      BY <1>1, <1>5, <2>1, WindowTypes
    <3> QED BY <1>2, <2>1, <3>2, <3>3
  <2>2. CASE e # d
    <3>1. InFolder(e)' = InFolder(e)
      BY <1>1, <2>2, WindowTypes DEF InFolder, AtPc, InWindow
    <3>2. workdir'[e] = workdir[e]
      BY <1>1, <2>2, WindowTypes
    <3> QED BY <3>1, <3>2 DEF WindowInv, FolderCounts
  <2> QED BY <2>1, <2>2
<1>7. workdir'[d].generation = g
  BY <1>1, <1>5, WindowTypes
<1>8. WindowOf(t)'
  <2>1. pc'[t] = "registered"
    BY <1>1, WindowTypes
  <2>2. registration'[t].generation = g /\ registration'[t].overlap = overlap
    BY <1>1, WindowTypes
  <2>3. shared'[t] <=> overlap
    <3>1. ~shared[t] /\ t \notin others
      BY <1>1, <1>5 DEF WindowInv, WindowOf, BeforeWindow, InWindow
    <3> QED BY <1>1, <1>3, <3>1
  <2> QED BY <1>4, <1>7, <2>1, <2>2, <2>3 DEF WindowOf, InWindow, BeforeWindow
<1>9. ASSUME NEW u \in Turns, u # t PROVE WindowOf(u)'
  <2>1. /\ pc'[u] = pc[u] /\ registration'[u] = registration[u] /\ overlapped'[u] = overlapped[u]
        /\ shared'[u] = (shared[u] \/ u \in others)
    BY <1>1, <1>9, WindowTypes
  <2>2. CASE u \in others
    <3>1. pc[u] \in InWindow /\ DirOf[u] = d
      BY <1>5, <2>2
    <3>2. overlap
      BY <1>3, <2>2
    <3>3. registration[u].generation \in Nat /\ registration[u].generation <= workdir[d].generation
      BY <3>1, WindowTypes DEF WindowInv, WindowOf
    <3>4. registration[u].generation <= g /\ registration[u].generation # g
      BY <1>4, <3>2, <3>3
    <3>5. pc'[u] \notin BeforeWindow /\ pc'[u] # "settling"
      BY <2>1, <3>1 DEF BeforeWindow, InWindow
    <3>6. shared'[u] /\ workdir'[DirOf[u]].generation = g /\ registration'[u].generation = registration[u].generation
      BY <1>7, <2>1, <2>2, <3>1
    <3> QED BY <3>4, <3>5, <3>6 DEF WindowOf
  <2>3. CASE u \notin others /\ pc[u] \in InWindow
    <3>1. DirOf[u] # d
      BY <1>5, <2>3
    <3>2. workdir'[DirOf[u]] = workdir[DirOf[u]]
      BY <1>1, <3>1, WindowTypes
    <3>3. shared'[u] = shared[u]
      BY <2>1, <2>3, WindowTypes
    <3> QED BY <2>1, <3>2, <3>3 DEF WindowInv, WindowOf
  <2>4. CASE u \notin others /\ pc[u] \notin InWindow
    <3>1. shared'[u] = shared[u]
      BY <2>1, <2>4, WindowTypes
    <3> QED BY <2>1, <2>4, <3>1 DEF WindowInv, WindowOf
  <2> QED BY <2>2, <2>3, <2>4
<1> QED BY <1>6, <1>8, <1>9 DEF WindowInv

LEMMA WindowLeave ==
  ASSUME TypeOK, WindowInv, NEW t \in Turns, FinishWorkdir(t)
  PROVE  WindowInv'
<1> DEFINE d == DirOf[t]
<1>1. /\ pc[t] = "joined" /\ pc' = [pc EXCEPT ![t] = "settling"] /\ WorkdirFinish(t)
      /\ UNCHANGED <<registration, shared>>
  BY DEF FinishWorkdir, historyVars
<1>2. t \in InFolder(d) /\ d \in Dirs /\ pc[t] \in InWindow
  BY <1>1, WindowTypes DEF InFolder, AtPc, InWindow
<1>3. workdir[d].active = Cardinality(InFolder(d)) /\ workdir[d].active \in Nat \ {0}
  BY <1>2, FolderFinite, FS_EmptySet DEF WindowInv, FolderCounts
<1>4. \A e \in Dirs : InFolder(e)' = IF e = d THEN InFolder(e) \ {t} ELSE InFolder(e)
  BY <1>1, WindowTypes DEF InFolder, AtPc, InWindow
<1>5. \A e \in Dirs : e # d => workdir'[e] = workdir[e]
  BY <1>1, WindowTypes DEF WorkdirFinish
<1>6. /\ workdir'[d].active = workdir[d].active - 1
      /\ workdir[d].active > 1 => workdir'[d].generation = workdir[d].generation
  <2>1. CASE workdir[d].active > 1
    BY <1>1, <1>2, <2>1, WindowTypes DEF WorkdirFinish, Entry
  <2>2. CASE ~(workdir[d].active > 1)
    <3>1. workdir[d].active = 1
      BY <1>3, <2>2
    <3> QED BY <1>1, <1>2, <3>1, WindowTypes DEF WorkdirFinish, NoEntry
  <2> QED BY <2>1, <2>2
<1>7. FolderCounts'
  <2> SUFFICES ASSUME NEW e \in Dirs PROVE workdir'[e].active = Cardinality(InFolder(e)')
    BY DEF FolderCounts
  <2>1. CASE e = d
    <3>1. Cardinality(InFolder(e)') = Cardinality(InFolder(e)) - 1
      BY <1>2, <1>4, <2>1, FolderFinite, FS_RemoveElement
    <3> QED BY <1>3, <1>6, <2>1, <3>1
  <2>2. CASE e # d
    BY <1>4, <1>5, <2>2 DEF WindowInv, FolderCounts
  <2> QED BY <2>1, <2>2
<1>8. WindowOf(t)'
  <2>1. pc'[t] = "settling"
    BY <1>1, WindowTypes
  <2>2. overlapped'[t] <=> registration[t].overlap \/ workdir[d].generation # registration[t].generation
    BY <1>1, <1>3, WindowTypes DEF WorkdirFinish
  <2>3. shared[t] <=> registration[t].overlap \/ registration[t].generation # workdir[d].generation
    BY <1>2 DEF WindowInv, WindowOf
  <2> QED BY <1>1, <2>1, <2>2, <2>3 DEF WindowOf, InWindow, BeforeWindow
<1>9. ASSUME NEW u \in Turns, u # t PROVE WindowOf(u)'
  <2>1. pc'[u] = pc[u] /\ overlapped'[u] = overlapped[u]
    BY <1>1, <1>9, WindowTypes DEF WorkdirFinish
  <2>2. pc[u] \in InWindow => workdir'[DirOf[u]].generation = workdir[DirOf[u]].generation
    <3>1. CASE DirOf[u] = d /\ pc[u] \in InWindow
      <4>1. {t, u} \subseteq InFolder(d)
        BY <1>2, <3>1 DEF InFolder, AtPc
      <4>2. Cardinality(InFolder(d)) > 1
        <5>1. IsFiniteSet({t}) /\ Cardinality({t}) = 1
          BY FS_Singleton
        <5>2. {t} \cup {u} = {t, u} /\ u \notin {t}
          BY <1>9
        <5>3. Cardinality({t, u}) = 2
          BY <5>1, <5>2, FS_AddElement
        <5>4. Cardinality({t, u}) <= Cardinality(InFolder(d))
          BY <4>1, FolderFinite, FS_Subset
        <5> QED BY <5>3, <5>4, FolderFinite
      <4> QED BY <1>3, <1>6, <3>1, <4>2
    <3>2. CASE DirOf[u] # d
      BY <1>5, <3>2, WindowTypes
    <3> QED BY <3>1, <3>2
  <2> QED BY <1>1, <2>1, <2>2 DEF WindowInv, WindowOf
<1> QED BY <1>7, <1>8, <1>9 DEF WindowInv

LEMMA WindowStep ==
  ASSUME TypeOK, WindowInv, [Next]_vars
  PROVE  WindowInv'
<1>0. pc \in [Turns -> TurnPc]
  BY WindowTypes
<1>1. ASSUME NEW t \in Turns,
             \/ Start(t) \/ Enqueue(t) \/ CannotCreateAgentDir(t) \/ SkipStale(t) \/ Proceed(t)
             \/ SeedFails(t) \/ MarkRunning(t)
             \/ Settle(t) \/ Finish(t) \/ Release(t) \/ ReportFailure(t) \/ RunnerEnds(t)
      PROVE  WindowInv'
  <2>1. /\ pc' = [pc EXCEPT ![t] = pc'[t]] /\ UNCHANGED <<workdir, registration, overlapped, shared>>
        /\ pc'[t] \in InWindow <=> pc[t] \in InWindow
        /\ pc'[t] \in BeforeWindow => pc[t] \in BeforeWindow
        /\ pc'[t] # "settling"
    BY <1>0, <1>1 DEF Start, Enqueue, CannotCreateAgentDir, SkipStale, Proceed, SeedFails,
         MarkRunning, Settle, Finish, Release, ReportFailure, RunnerEnds,
         runtimeVars, historyVars, InWindow, BeforeWindow
  <2> QED BY <2>1, WindowKept
<1>2. ASSUME UNCHANGED <<pc, workdir, registration, overlapped, shared>> PROVE WindowInv'
  BY <1>2 DEF WindowInv, FolderCounts, InFolder, AtPc, WindowOf
<1>3. ASSUME NEW t \in Turns,
             Launch(t) \/ LaunchFails(t) \/ Exit(t) \/ RetryFresh(t) \/ HandleUpdate(t)
      PROVE  WindowInv'
  BY <1>2, <1>3 DEF Launch, LaunchFails, Exit, RetryFresh, HandleUpdate,
       runtimeVars, turnVars, historyVars
<1>4. ASSUME NEW c \in Stops, Cancel(c) \/ TakePid(c) \/ ConfirmDead(c) \/ ReportStop(c)
      PROVE  WindowInv'
  BY <1>2, <1>4 DEF Cancel, TakePid, ConfirmDead, ReportStop, runtimeVars, turnVars, historyVars
<1>5. CASE UNCHANGED vars
  BY <1>2, <1>5 DEF vars, runtimeVars, turnVars, historyVars
<1> QED BY ActionsOfNext, WindowEnter, WindowLeave, <1>1, <1>3, <1>4, <1>5

(***************************************************************************)
(* The runtime implements TurnQueue: a turn that moves makes the message   *)
(* move or leaves it where it is.                                          *)
(***************************************************************************)
LEMMA PhaseIs ==
  ASSUME NEW t \in Turns
  PROVE  /\ pc[t] = "absent" => Phase(t) = "absent"
         /\ pc[t] \in Waiting => Phase(t) = "waiting"
         /\ pc[t] \in Executing => Phase(t) = "running"
         /\ pc[t] \in {"failed", "aborted"} => Phase(t) = "failed"
         /\ pc[t] \in {"finishing", "releasing", "done"} =>
              Phase(t) = IF driver[t] = "off" THEN "dropped" ELSE "ended"
BY DEF Phase, Waiting, Executing

LEMMA PhaseMoves ==
  ASSUME NEW t \in Turns, NEW from, NEW to, TypeOK,
         pc' = [pc EXCEPT ![t] = pc'[t]], UNCHANGED <<driver, stopped>>,
         Phase(t) \in from, Phase(t)' = to
  PROVE  Queue!Move(t, from, to)
<1>1. \A u \in Turns : u # t => Phase(u)' = Phase(u)
  BY DEF Phase, TypeOK, TurnTypeOK
<1>2. [u \in Turns |-> Phase(u)]' = [[u \in Turns |-> Phase(u)] EXCEPT ![t] = to]
  BY <1>1
<1>3. [u \in Turns |-> Phase(u)][t] \in from
  OBVIOUS
<1>4. {u \in Turns : stopped[u]}' = {u \in Turns : stopped[u]}
  OBVIOUS
<1> QED BY <1>2, <1>3, <1>4 DEF Queue!Move

LEMMA PhaseStays ==
  ASSUME \A u \in Turns : Phase(u)' = Phase(u), stopped' = stopped
  PROVE  UNCHANGED Queue!queueVars
<1>1. [u \in Turns |-> Phase(u)]' = [u \in Turns |-> Phase(u)]
  OBVIOUS
<1>2. {u \in Turns : stopped[u]}' = {u \in Turns : stopped[u]}
  OBVIOUS
<1> QED BY <1>1, <1>2 DEF Queue!queueVars

LEMMA QueueStep ==
  ASSUME TypeOK, LockInv, CliInv, ControlCountsTurns, DoomInv, ClosedInv, [Next]_vars
  PROVE  [Queue!QueueNext]_(Queue!queueVars)
<1>0. /\ pc \in [Turns -> TurnPc] /\ stopped \in [Turns -> BOOLEAN]
      /\ driver \in [Turns -> {"off", "launching", "watching", "closed"}]
      /\ \A t \in Turns : IdentityOf[t] \in Identities
  BY RuntimeAssumption DEF TypeOK, TurnTypeOK, CliTypeOK, HistoryTypeOK
<1>1. ASSUME NEW t \in Turns, Start(t) PROVE Queue!Submit(t)
  <2>1. pc' = [pc EXCEPT ![t] = pc'[t]] /\ UNCHANGED <<driver, stopped>>
        /\ pc[t] = "absent" /\ pc'[t] \in Waiting
    BY <1>0, <1>1 DEF Start, cliVars, historyVars, Waiting
  <2>2. Phase(t) = "absent"
    BY <2>1, PhaseIs
  <2>3. Phase(t)' = "waiting"
    BY <2>1 DEF Phase, Waiting, Executing
  <2> QED BY <2>1, <2>2, <2>3, PhaseMoves DEF Queue!Submit
<1>2. ASSUME NEW t \in Turns, CannotCreateAgentDir(t) \/ SeedFails(t) PROVE Queue!Fail(t)
  <2>1. pc' = [pc EXCEPT ![t] = "failed"] /\ UNCHANGED <<driver, stopped>>
        /\ (pc[t] \in Waiting \/ pc[t] \in Executing)
    BY <1>2 DEF CannotCreateAgentDir, SeedFails, cliVars, historyVars, Waiting, Executing
  <2>2. Phase(t) \in {"waiting", "running"}
    BY <2>1, PhaseIs
  <2>3. Phase(t)' = "failed"
    BY <1>0, <2>1 DEF Phase, Waiting, Executing
  <2>4. pc' = [pc EXCEPT ![t] = pc'[t]]
    BY <1>0, <2>1
  <2> QED BY <2>1, <2>2, <2>3, <2>4, PhaseMoves DEF Queue!Fail
<1>3. ASSUME NEW t \in Turns, SkipStale(t) PROVE Queue!Drop(t)
  <2>1. pc' = [pc EXCEPT ![t] = pc'[t]] /\ UNCHANGED <<driver, stopped>>
        /\ pc[t] \in Waiting /\ pc'[t] = "finishing" /\ pc[t] = "queued" /\ IsStale(t)
    BY <1>0, <1>3 DEF SkipStale, cliVars, historyVars, Waiting
  <2>2. stopped[t] /\ driver[t] = "off"
    BY <2>1, StaleIsStopped DEF CliInv, Unstarted
  <2>3. Phase(t) = "waiting"
    BY <2>1, PhaseIs
  <2>4. Phase(t)' = "dropped"
    BY <2>1, <2>2 DEF Phase, Waiting, Executing
  <2>5. Queue!Move(t, {"waiting"}, "dropped")
    BY <2>1, <2>3, <2>4, PhaseMoves
  <2> QED BY <2>2, <2>5 DEF Queue!Drop
<1>4. ASSUME NEW t \in Turns, Proceed(t) PROVE Queue!Begin(t)
  <2>1. pc' = [pc EXCEPT ![t] = pc'[t]] /\ UNCHANGED <<driver, stopped>>
        /\ pc[t] \in Waiting /\ pc'[t] = "seeding" /\ HoldsLock(t) /\ ~IsStale(t)
    BY <1>0, <1>4 DEF Proceed, cliVars, historyVars, Waiting
  <2>2. ~stopped[t]
    BY <2>1, StaleIsStopped
  <2>3. ASSUME NEW u \in Turns, IdentityOf[u] = IdentityOf[t], Phase(u) = "running" PROVE FALSE
    <3>1. pc[u] \in Executing
      BY <2>3, <1>0, PhaseIs DEF TurnPc, InControl, Waiting
    <3>2. HoldsLock(u) /\ u # t
      BY <2>1, <3>1 DEF LockInv, Holding, Waiting, Executing
    <3> QED BY <2>1, <2>3, <3>2 DEF HoldsLock
  <2>4. Phase(t) = "waiting"
    BY <2>1, PhaseIs
  <2>5. Phase(t)' = "running"
    BY <2>1 DEF Phase, Waiting, Executing
  <2>6. Queue!Move(t, {"waiting"}, "running")
    BY <2>1, <2>4, <2>5, PhaseMoves
  <2> QED BY <2>2, <2>3, <2>6 DEF Queue!Begin
<1>5. ASSUME NEW t \in Turns, Settle(t) PROVE Queue!End(t)
  <2>1. pc' = [pc EXCEPT ![t] = pc'[t]] /\ UNCHANGED <<driver, stopped>>
        /\ pc[t] \in Executing /\ pc'[t] = "finishing" /\ pc[t] = "settling"
    BY <1>0, <1>5 DEF Settle, cliVars, historyVars, Executing
  <2>2. driver[t] = "closed"
    BY <2>1 DEF ClosedInv
  <2>3. Phase(t) = "running"
    BY <2>1, PhaseIs
  <2>4. Phase(t)' = "ended"
    BY <2>1, <2>2 DEF Phase, Waiting, Executing
  <2> QED BY <2>1, <2>3, <2>4, PhaseMoves DEF Queue!End
<1>6. ASSUME NEW t \in Turns,
             \/ Enqueue(t) \/ RegisterWorkdir(t) \/ FinishWorkdir(t) \/ Finish(t)
             \/ Release(t) \/ ReportFailure(t) \/ MarkRunning(t) \/ RunnerEnds(t)
             \/ Launch(t) \/ LaunchFails(t) \/ Exit(t) \/ RetryFresh(t) \/ HandleUpdate(t)
      PROVE  UNCHANGED Queue!queueVars
  <2>1. /\ stopped' = stopped
        /\ pc' = [pc EXCEPT ![t] = pc'[t]]
        /\ driver' = [driver EXCEPT ![t] = driver'[t]]
    BY <1>0, <1>6 DEF Enqueue, RegisterWorkdir, FinishWorkdir, Finish, Release, ReportFailure,
         MarkRunning, RunnerEnds, Launch, LaunchFails, Exit, RetryFresh, HandleUpdate,
         turnVars, cliVars, historyVars
  <2>2. \/ pc[t] \in Waiting /\ pc'[t] \in Waiting
        \/ pc[t] \in Executing /\ pc'[t] \in Executing
        \/ pc[t] \in {"failed", "aborted"} /\ pc'[t] \in {"failed", "aborted"}
        \/ /\ pc[t] \in {"finishing", "releasing", "done"}
           /\ pc'[t] \in {"finishing", "releasing", "done"} /\ driver'[t] = driver[t]
    BY <1>0, <1>6 DEF Enqueue, RegisterWorkdir, FinishWorkdir, Finish, Release, ReportFailure,
         MarkRunning, RunnerEnds, Launch, LaunchFails, Exit, RetryFresh, HandleUpdate,
         CliInv, turnVars, cliVars, Waiting, Executing
  <2>3. Phase(t)' = Phase(t)
    BY <2>2 DEF Phase, Waiting, Executing
  <2>4. \A u \in Turns : u # t => Phase(u)' = Phase(u)
    BY <1>0, <2>1 DEF Phase
  <2> QED BY <2>1, <2>3, <2>4, PhaseStays
<1>7. ASSUME NEW c \in Stops, Cancel(c) PROVE Queue!Doom(TargetOf[c])
  <2>1. /\ UNCHANGED <<pc, driver>>
        /\ stopped' = [t \in Turns |-> stopped[t] \/ (IdentityOf[t] = TargetOf[c] /\ pc[t] \in Waiting)]
    BY <1>7 DEF Cancel, turnVars, cliVars
  <2>2. \A t \in Turns : Phase(t)' = Phase(t)
    BY <2>1 DEF Phase
  <2>3. \A t \in Turns : pc[t] \in Waiting <=> Phase(t) = "waiting"
    BY <1>0, PhaseIs DEF TurnPc, InControl
  <2>4. {t \in Turns : stopped[t]}' =
          {t \in Turns : stopped[t]} \cup
          {t \in Turns : IdentityOf[t] = TargetOf[c] /\ [u \in Turns |-> Phase(u)][t] = "waiting"}
    BY <2>1, <2>3
  <2>5. [t \in Turns |-> Phase(t)]' = [t \in Turns |-> Phase(t)]
    BY <2>2
  <2> QED BY <2>4, <2>5 DEF Queue!Doom
<1>8. ASSUME UNCHANGED <<pc, driver, stopped>> PROVE UNCHANGED Queue!queueVars
  <2>1. \A u \in Turns : Phase(u)' = Phase(u)
    BY <1>8 DEF Phase
  <2> QED BY <1>8, <2>1, PhaseStays
<1>9. ASSUME NEW c \in Stops, TakePid(c) \/ ConfirmDead(c) \/ ReportStop(c)
      PROVE  UNCHANGED Queue!queueVars
  BY <1>8, <1>9 DEF TakePid, ConfirmDead, ReportStop, turnVars, cliVars, historyVars
<1>10. CASE UNCHANGED vars
  BY <1>8, <1>10 DEF vars, turnVars, cliVars, historyVars
<1>11. \A c \in Stops : TargetOf[c] \in Identities
  BY RuntimeAssumption
<1> QED BY ActionsOfNext, <1>1, <1>2, <1>3, <1>4, <1>5, <1>6, <1>7, <1>9, <1>10, <1>11
        DEF Queue!QueueNext

LEMMA QueueStart == Init => Queue!QueueInit
<1> SUFFICES ASSUME Init PROVE Queue!QueueInit
  OBVIOUS
<1>1. \A t \in Turns : Phase(t) = "absent" /\ ~stopped[t]
  BY PhaseIs DEF Init
<1>2. [t \in Turns |-> Phase(t)] = [t \in Turns |-> "absent"] /\ {t \in Turns : stopped[t]} = {}
  BY <1>1
<1> QED BY <1>2 DEF Queue!QueueInit

(***************************************************************************)
(* The card and the status events.  A driver sends the status its run ends *)
(* with once and last, the runner repeats it as an event and keeps it as   *)
(* `failed`, and the turn's task writes it to the card; between the event  *)
(* and the card no turn of the conversation can speak.                     *)
(***************************************************************************)
Terminal == {"completed", "error"}
Statuses == Terminal \cup {"starting", "running"}

KindAt(t, k)   == updates[t][k].kind
Quiet(t, from) == \A k \in 1..Len(updates[t]) : k > from => KindAt(t, k) \notin Statuses
EndsAt(t, n)   == /\ n \in 1..Len(updates[t]) /\ KindAt(t, n) \in Terminal
                  /\ \A k \in 1..Len(updates[t]) : k < n => KindAt(t, k) \notin Terminal
                  /\ Quiet(t, n)
Told(t)        == IF failed[t] THEN "error" ELSE "completed"

(* What the run ended with has been said, or will be the last thing said. *)
TellsEnd(t) ==
  \/ Quiet(t, 0) /\ uiStatus[IdentityOf[t]] = Told(t)
  \/ ~failed[t] /\ \E n \in Nat : EndsAt(t, n)

ChannelOf(t) ==
  driver[t] # "closed" =>
    ~failed[t] /\ \A k \in 1..Len(updates[t]) : KindAt(t, k) \notin Terminal

ChannelInv == \A t \in Turns : ChannelOf(t)

(* No stop was heeded, and no turn failed outside its run. *)
Heeded(c) == \/ stopPc[c] \in {"killing", "reporting", "reported"}
             \/ stopPc[c] = "bumped" /\ hadQueued[c]

Undisturbed(i) ==
  /\ \A c \in Stops : TargetOf[c] = i => ~Heeded(c)
  /\ \A t \in TurnsOf(i) : pc[t] \notin {"failed", "aborted"}

AfterRun == {"joined", "settling", "finishing", "releasing", "done"}

TurnAgrees(t) ==
  /\ ~stopped[t]
  /\ pc[t] \in AfterRun => driver[t] = "closed"
  /\ pc[t] = "monitoring" /\ driver[t] = "closed" => TellsEnd(t)
  /\ pc[t] \in {"joined", "settling"} => uiStatus[IdentityOf[t]] = Told(t)

CardAgrees(i) ==
  TurnsOf(i) \cap AtPc(OnBoard) = {} /\ (\E t \in TurnsOf(i) : driver[t] = "closed")
  => uiStatus[i] = IF board[i] = "error" THEN "error" ELSE "completed"

EventsOf(i) == Undisturbed(i) => CardAgrees(i) /\ \A t \in TurnsOf(i) : TurnAgrees(t)

EventsInv == ChannelInv /\ \A i \in Identities : EventsOf(i)

LEMMA ConcatByParts ==
  ASSUME NEW S, NEW a \in Seq(S), NEW b \in Seq(S)
  PROVE  /\ a \o b \in Seq(S) /\ Len(a) \in Nat /\ Len(b) \in Nat
         /\ Len(a \o b) = Len(a) + Len(b)
         /\ \A k \in 1..Len(a) : (a \o b)[k] = a[k]
         /\ \A k \in 1..Len(b) : (a \o b)[Len(a) + k] = b[k]
<1>1. Len(a) \in Nat /\ Len(b) \in Nat
  OBVIOUS
<1>2. \A k \in 1..Len(a) : k \in 1..(Len(a) + Len(b)) /\ k <= Len(a)
  BY <1>1
<1>3. \A k \in 1..Len(b) : /\ Len(a) + k \in 1..(Len(a) + Len(b))
                           /\ ~(Len(a) + k <= Len(a)) /\ (Len(a) + k) - Len(a) = k
  BY <1>1
<1> QED BY <1>1, <1>2, <1>3, ConcatProperties

(* The channel's first message says that the session starts. *)
LEMMA PreludeThen ==
  ASSUME NEW t \in Turns, NEW rest \in Seq(UpdateKind)
  PROVE  LET kinds == Prelude(t) \o rest IN
         /\ kinds \in Seq(UpdateKind) /\ Len(Prelude(t)) \in 0..1
         /\ Len(kinds) = Len(Prelude(t)) + Len(rest)
         /\ \A k \in 1..Len(Prelude(t)) : kinds[k] = "starting"
         /\ \A k \in 1..Len(rest) : kinds[Len(Prelude(t)) + k] = rest[k]
<1>1. /\ Prelude(t) \in Seq(UpdateKind) /\ Len(Prelude(t)) \in 0..1
      /\ \A k \in 1..Len(Prelude(t)) : Prelude(t)[k] = "starting"
  <2>1. <<>> \in Seq(UpdateKind) /\ Len(<<>>) = 0
    OBVIOUS
  <2>2. <<"starting">> \in Seq(UpdateKind) /\ Len(<<"starting">>) = 1 /\ <<"starting">>[1] = "starting"
    BY DEF UpdateKind
  <2> QED BY <2>1, <2>2 DEF Prelude
<1> QED BY <1>1, ConcatByParts

(* What sending does to a channel, message by message. *)
LEMMA SendAppends ==
  ASSUME NEW t \in Turns, NEW kinds \in Seq(UpdateKind), TypeOK,
         attempt'[t] \in Attempts, Send(t, kinds)
  PROVE  /\ Len(updates[t]) \in Nat /\ Len(kinds) \in Nat
         /\ Len(updates'[t]) = Len(updates[t]) + Len(kinds)
         /\ \A k \in 1..Len(updates[t]) : KindAt(t, k)' = KindAt(t, k)
         /\ \A k \in 1..Len(kinds) : updates'[t][Len(updates[t]) + k].kind = kinds[k]
         /\ \A u \in Turns : u # t => updates'[u] = updates[u]
<1> DEFINE sent == [k \in DOMAIN kinds |-> [kind |-> kinds[k], attempt |-> attempt'[t]]]
<1>0. updates \in [Turns -> Seq(Update)]
  BY DEF TypeOK, CliTypeOK
<1>1. DOMAIN kinds = 1..Len(kinds) /\ Len(kinds) \in Nat /\ \A k \in 1..Len(kinds) : kinds[k] \in UpdateKind
  OBVIOUS
<1>2. sent \in [1..Len(kinds) -> Update]
  BY <1>1 DEF Update
<1>3. sent \in Seq(Update) /\ Len(sent) = Len(kinds) /\ \A k \in 1..Len(kinds) : sent[k].kind = kinds[k]
  <2>1. sent \in Seq(Update)
    BY <1>1, <1>2
  <2>2. DOMAIN sent = 1..Len(kinds)
    BY <1>1
  <2>3. Len(sent) = Len(kinds)
    <3> HIDE DEF sent
    <3> QED BY <1>1, <2>1, <2>2, LenProperties
  <2> QED BY <1>1, <2>1, <2>3
<1>4. updates' = [updates EXCEPT ![t] = updates[t] \o sent]
  BY DEF Send
<1> HIDE DEF sent
<1>5. updates'[t] = updates[t] \o sent /\ updates[t] \in Seq(Update)
  BY <1>0, <1>4
<1>6. /\ Len(updates[t]) \in Nat
      /\ Len(updates'[t]) = Len(updates[t]) + Len(sent)
      /\ \A k \in 1..Len(updates[t]) : updates'[t][k] = updates[t][k]
      /\ \A k \in 1..Len(sent) : updates'[t][Len(updates[t]) + k] = sent[k]
  <2> DEFINE a == updates[t]
             both == a \o sent
  <2>1. a \in Seq(Update) /\ sent \in Seq(Update) /\ updates'[t] = both
    BY <1>3, <1>5
  <2> HIDE DEF a
  <2>2. /\ Len(a) \in Nat /\ Len(both) = Len(a) + Len(sent)
        /\ \A k \in 1..Len(a) : both[k] = a[k]
        /\ \A k \in 1..Len(sent) : both[Len(a) + k] = sent[k]
    BY <2>1, ConcatByParts
  <2> HIDE DEF both
  <2> QED BY <2>1, <2>2 DEF a
<1> QED BY <1>0, <1>1, <1>3, <1>4, <1>6 DEF KindAt

(* What handling the first message does to the channel. *)
LEMMA HandleShifts ==
  ASSUME TypeOK, NEW t \in Turns, HandleUpdate(t)
  PROVE  /\ Len(updates[t]) \in Nat \ {0} /\ Head(updates[t]).kind = KindAt(t, 1)
         /\ Len(updates'[t]) = Len(updates[t]) - 1
         /\ \A k \in 1..Len(updates'[t]) : KindAt(t, k)' = KindAt(t, k + 1)
         /\ \A u \in Turns : u # t => updates'[u] = updates[u]
<1>1. /\ updates \in [Turns -> Seq(Update)] /\ updates[t] # <<>>
      /\ updates' = [updates EXCEPT ![t] = Tail(updates[t])]
  BY DEF TypeOK, CliTypeOK, HandleUpdate
<1>2. updates'[t] = Tail(updates[t]) /\ updates[t] \in Seq(Update)
  BY <1>1
<1>3. /\ Len(updates[t]) \in Nat \ {0} /\ Head(updates[t]) = updates[t][1]
      /\ Len(updates'[t]) = Len(updates[t]) - 1
      /\ \A k \in 1..Len(updates'[t]) : updates'[t][k] = updates[t][k + 1]
  BY <1>1, <1>2
<1> QED BY <1>1, <1>3 DEF KindAt

LEMMA ChannelStep ==
  ASSUME TypeOK, CliInv, ChannelInv, [Next]_vars
  PROVE  ChannelInv'
<1>0. /\ driver \in [Turns -> {"off", "launching", "watching", "closed"}]
      /\ failed \in [Turns -> BOOLEAN]
  BY DEF TypeOK, TurnTypeOK, CliTypeOK
<1>1. ASSUME NEW t \in Turns, ChannelOf(t)',
             driver' = [driver EXCEPT ![t] = driver'[t]],
             \A u \in Turns : u # t => updates'[u] = updates[u] /\ failed'[u] = failed[u]
      PROVE  ChannelInv'
  BY <1>0, <1>1 DEF ChannelInv, ChannelOf, KindAt
<1>2. ASSUME NEW t \in Turns,
             Launch(t) \/ RetryFresh(t)
      PROVE  ChannelInv'
  <2>1. /\ driver[t] # "closed" /\ driver' = [driver EXCEPT ![t] = driver'[t]] /\ failed' = failed
    BY <1>0, <1>2 DEF Launch, RetryFresh, turnVars
  <2>2. PICK kinds \in Seq(UpdateKind) :
          Send(t, kinds) /\ \A k \in 1..Len(kinds) : kinds[k] \notin Terminal
    <3>1. CASE RetryFresh(t)
      <4>1. <<"resume_invalid">> \in Seq(UpdateKind)
        BY DEF UpdateKind
      <4>2. \A k \in 1..Len(<<"resume_invalid">>) : <<"resume_invalid">>[k] \notin Terminal
        BY DEF Terminal
      <4> QED BY <3>1, <4>1, <4>2 DEF RetryFresh
    <3>2. CASE Launch(t)
      <4> DEFINE rest == <<"pid", "running">>
                 kinds == Prelude(t) \o rest
                 n == Len(Prelude(t))
      <4>1. rest \in Seq(UpdateKind) /\ Len(rest) = 2 /\ rest[1] = "pid" /\ rest[2] = "running"
        BY DEF UpdateKind
      <4> HIDE DEF rest
      <4>2. /\ kinds \in Seq(UpdateKind) /\ n \in 0..1 /\ Len(kinds) = n + 2
            /\ \A k \in 1..n : kinds[k] = "starting"
            /\ \A k \in 1..2 : kinds[n + k] \in {"pid", "running"}
        BY <4>1, PreludeThen
      <4>3. Send(t, kinds)
        BY <3>2 DEF Launch, rest
      <4> HIDE DEF kinds, n
      <4>4. ASSUME NEW k \in 1..Len(kinds) PROVE kinds[k] \notin Terminal
        <5>1. CASE k \in 1..n
          BY <4>2, <5>1 DEF Terminal
        <5>2. CASE k \notin 1..n
          <6>1. k - n \in 1..2 /\ k = n + (k - n)
            BY <4>2, <5>2
          <6> QED BY <4>2, <6>1 DEF Terminal
        <5> QED BY <5>1, <5>2
      <4> QED BY <4>2, <4>3, <4>4
    <3> QED BY <1>2, <3>1, <3>2
  <2>3. attempt'[t] \in Attempts
    <3>1. CASE RetryFresh(t)
      BY <3>1 DEF RetryFresh, CliInv, Attempts
    <3>2. CASE Launch(t)
      <4>1. attempt[t] \in 0..1 /\ attempt' = [attempt EXCEPT ![t] = attempt[t] + 1]
        BY <3>2 DEF Launch, CliInv
      <4> QED BY <4>1 DEF TypeOK, CliTypeOK, Attempts
    <3> QED BY <1>2, <3>1, <3>2
  <2>4. ChannelOf(t)'
    <3>1. ~failed[t] /\ \A k \in 1..Len(updates[t]) : KindAt(t, k) \notin Terminal
      BY <2>1 DEF ChannelInv, ChannelOf
    <3>2. ASSUME NEW k \in 1..Len(updates'[t]) PROVE KindAt(t, k)' \notin Terminal
      <4>1. CASE k \in 1..Len(updates[t])
        BY <2>2, <2>3, <3>1, <4>1, SendAppends
      <4>2. CASE k \notin 1..Len(updates[t])
        <5>1. PICK j \in 1..Len(kinds) : k = Len(updates[t]) + j
          <6>1. /\ Len(updates[t]) \in Nat /\ Len(kinds) \in Nat
                /\ Len(updates'[t]) = Len(updates[t]) + Len(kinds)
            BY <2>2, <2>3, SendAppends
          <6>2. /\ k - Len(updates[t]) \in 1..Len(kinds)
                /\ k = Len(updates[t]) + (k - Len(updates[t]))
            BY <4>2, <6>1
          <6> QED BY <6>2
        <5> QED BY <2>2, <2>3, <5>1, SendAppends DEF KindAt
      <4> QED BY <4>1, <4>2
    <3> QED BY <2>1, <3>1, <3>2 DEF ChannelOf
  <2> QED BY <1>1, <2>1, <2>2, <2>3, <2>4, SendAppends
<1>3. ASSUME NEW t \in Turns, LaunchFails(t) \/ Exit(t) PROVE ChannelInv'
  <2>1. /\ driver' = [driver EXCEPT ![t] = "closed"] /\ failed' = failed
        /\ \A u \in Turns : u # t => updates'[u] = updates[u]
    BY <1>3 DEF LaunchFails, Exit, Send, turnVars, TypeOK, CliTypeOK
  <2>2. driver'[t] = "closed"
    BY <1>0, <2>1
  <2> QED BY <1>1, <2>1, <2>2 DEF ChannelOf
<1>4. ASSUME NEW t \in Turns, HandleUpdate(t) PROVE ChannelInv'
  <2>1. driver' = driver /\ failed' = [failed EXCEPT ![t] = IsFailure(t, Head(updates[t]))]
    BY <1>4 DEF HandleUpdate
  <2>2. failed'[t] <=> failed[t] \/ KindAt(t, 1) = "error"
    BY <1>0, <1>4, <2>1, HandleShifts DEF IsFailure
  <2>3. ChannelOf(t)'
    <3> SUFFICES ASSUME driver[t] # "closed"
                 PROVE  ~failed'[t] /\ \A k \in 1..Len(updates'[t]) : KindAt(t, k)' \notin Terminal
      BY <2>1 DEF ChannelOf
    <3>1. ~failed[t] /\ \A k \in 1..Len(updates[t]) : KindAt(t, k) \notin Terminal
      BY DEF ChannelInv, ChannelOf
    <3>2. 1 \in 1..Len(updates[t]) /\ \A k \in 1..Len(updates'[t]) : k + 1 \in 1..Len(updates[t])
      BY <1>4, HandleShifts
    <3> QED BY <1>4, <2>2, <3>1, <3>2, HandleShifts DEF Terminal
  <2> QED BY <1>0, <1>1, <1>4, <2>1, <2>3, HandleShifts
<1>5. ASSUME NEW t \in Turns, MarkRunning(t) PROVE ChannelInv'
  <2>1. driver' = [driver EXCEPT ![t] = driver'[t]] /\ UNCHANGED <<updates, failed>> /\ driver[t] = "off"
    BY <1>0, <1>5 DEF MarkRunning, CliInv, Unstarted
  <2> QED BY <1>1, <2>1 DEF ChannelInv, ChannelOf, KindAt
<1>6. ASSUME UNCHANGED <<driver, updates, failed>> PROVE ChannelInv'
  BY <1>6 DEF ChannelInv, ChannelOf, KindAt
<1>7. ASSUME NEW t \in Turns,
             \/ Start(t) \/ Enqueue(t) \/ CannotCreateAgentDir(t) \/ SkipStale(t) \/ Proceed(t)
             \/ SeedFails(t) \/ RegisterWorkdir(t) \/ FinishWorkdir(t)
             \/ Settle(t) \/ Finish(t) \/ Release(t) \/ ReportFailure(t) \/ RunnerEnds(t)
      PROVE  ChannelInv'
  BY <1>6, <1>7 DEF Start, Enqueue, CannotCreateAgentDir, SkipStale, Proceed, SeedFails,
         RegisterWorkdir, FinishWorkdir, Settle, Finish, Release, ReportFailure, RunnerEnds,
         turnVars, cliVars
<1>8. ASSUME NEW c \in Stops, Cancel(c) \/ TakePid(c) \/ ConfirmDead(c) \/ ReportStop(c)
      PROVE  ChannelInv'
  BY <1>6, <1>8 DEF Cancel, TakePid, ConfirmDead, ReportStop, turnVars, cliVars
<1>9. CASE UNCHANGED vars
  BY <1>6, <1>9 DEF vars, turnVars, cliVars
<1> QED BY ActionsOfNext, <1>2, <1>3, <1>4, <1>5, <1>7, <1>8, <1>9

(* A conversation that is disturbed stays so. *)
LEMMA DisturbedForGood ==
  ASSUME TypeOK, [Next]_vars, NEW i \in Identities, Undisturbed(i)'
  PROVE  Undisturbed(i)
<1>0. /\ pc \in [Turns -> TurnPc] /\ hadQueued \in [Stops -> BOOLEAN]
      /\ stopPc \in [Stops -> {"idle", "bumped", "killing", "reporting", "reported", "refused"}]
  BY DEF TypeOK, TurnTypeOK, StopTypeOK
<1>1. ASSUME NEW t \in Turns, UNCHANGED <<stopPc, hadQueued>>, pc' = [pc EXCEPT ![t] = pc'[t]],
             pc[t] \in {"failed", "aborted"} => pc'[t] \in {"failed", "aborted"}
      PROVE  Undisturbed(i)
  BY <1>0, <1>1 DEF Undisturbed, Heeded, TurnsOf
<1>2. ASSUME NEW c \in Stops, UNCHANGED pc, stopPc' = [stopPc EXCEPT ![c] = stopPc'[c]],
             hadQueued' = [hadQueued EXCEPT ![c] = hadQueued'[c]], Heeded(c) => Heeded(c)'
      PROVE  Undisturbed(i)
  <2>1. \A d \in Stops : Heeded(d) => Heeded(d)'
    BY <1>0, <1>2 DEF Heeded
  <2> QED BY <1>2, <2>1 DEF Undisturbed, TurnsOf
<1>3. ASSUME NEW t \in Turns,
             \/ Start(t) \/ Enqueue(t) \/ CannotCreateAgentDir(t) \/ SkipStale(t) \/ Proceed(t)
             \/ SeedFails(t) \/ RegisterWorkdir(t) \/ MarkRunning(t) \/ FinishWorkdir(t)
             \/ Settle(t) \/ Finish(t) \/ Release(t) \/ ReportFailure(t) \/ RunnerEnds(t)
      PROVE  Undisturbed(i)
  <2>1. /\ UNCHANGED <<stopPc, hadQueued>> /\ pc' = [pc EXCEPT ![t] = pc'[t]]
        /\ pc[t] \in {"failed", "aborted"} => pc'[t] \in {"failed", "aborted"}
    BY <1>0, <1>3 DEF Start, Enqueue, CannotCreateAgentDir, SkipStale, Proceed, SeedFails,
         RegisterWorkdir, MarkRunning, FinishWorkdir, Settle, Finish, Release, ReportFailure,
         RunnerEnds, stopVars
  <2> QED BY <1>1, <2>1
<1>4. ASSUME NEW t \in Turns,
             Launch(t) \/ LaunchFails(t) \/ Exit(t) \/ RetryFresh(t) \/ HandleUpdate(t)
      PROVE  Undisturbed(i)
  <2>1. UNCHANGED <<stopPc, hadQueued, pc>>
    BY <1>4 DEF Launch, LaunchFails, Exit, RetryFresh, HandleUpdate, stopVars, turnVars
  <2> QED BY <2>1 DEF Undisturbed, Heeded, TurnsOf
<1>5. ASSUME NEW c \in Stops, Cancel(c) \/ TakePid(c) \/ ConfirmDead(c) \/ ReportStop(c)
      PROVE  Undisturbed(i)
  <2>1. /\ UNCHANGED pc /\ stopPc' = [stopPc EXCEPT ![c] = stopPc'[c]]
        /\ hadQueued' = [hadQueued EXCEPT ![c] = hadQueued'[c]]
    BY <1>0, <1>5 DEF Cancel, TakePid, ConfirmDead, ReportStop, turnVars
  <2>2. Heeded(c) => Heeded(c)'
    BY <1>0, <1>5 DEF Cancel, TakePid, ConfirmDead, ReportStop, Heeded
  <2> QED BY <1>2, <2>1, <2>2
<1>6. CASE UNCHANGED vars
  BY <1>6 DEF vars, turnVars, stopVars, Undisturbed, Heeded, TurnsOf
<1> QED BY ActionsOfNext, <1>3, <1>4, <1>5, <1>6

Calm(i) == Undisturbed(i) /\ CardAgrees(i) /\ \A t \in TurnsOf(i) : TurnAgrees(t)

LEMMA CalmSuffices ==
  ASSUME TypeOK, EventsInv, [Next]_vars,
         \A i \in Identities : Calm(i) /\ Undisturbed(i)' =>
           CardAgrees(i)' /\ \A t \in TurnsOf(i) : TurnAgrees(t)'
  PROVE  \A i \in Identities : EventsOf(i)'
<1> SUFFICES ASSUME NEW i \in Identities, Undisturbed(i)'
             PROVE  CardAgrees(i)' /\ \A t \in TurnsOf(i) : TurnAgrees(t)'
  BY DEF EventsOf, TurnsOf
<1>1. Calm(i)
  BY DisturbedForGood DEF EventsInv, EventsOf, Calm
<1> QED BY <1>1

(* What an action of a turn may touch of what the events are about. *)
MovesAlone(t) ==
  LET i == IdentityOf[t] IN
  /\ pc' = [pc EXCEPT ![t] = pc'[t]] /\ driver' = [driver EXCEPT ![t] = driver'[t]]
  /\ failed' = [failed EXCEPT ![t] = failed'[t]]
  /\ \A u \in Turns : u # t => updates'[u] = updates[u]
  /\ board' = [board EXCEPT ![i] = board'[i]] /\ uiStatus' = [uiStatus EXCEPT ![i] = uiStatus'[i]]
  /\ stopped' = stopped

LEMMA TurnUntouched ==
  ASSUME NEW u \in Turns, TurnAgrees(u),
         pc'[u] = pc[u], driver'[u] = driver[u], failed'[u] = failed[u],
         updates'[u] = updates[u], stopped'[u] = stopped[u],
         uiStatus'[IdentityOf[u]] = uiStatus[IdentityOf[u]] \/ pc[u] \notin OnBoard
  PROVE  TurnAgrees(u)'
<1>1. CASE pc[u] \notin OnBoard
  BY <1>1 DEF TurnAgrees, OnBoard
<1>2. CASE uiStatus'[IdentityOf[u]] = uiStatus[IdentityOf[u]]
  <2>1. Told(u)' = Told(u) /\ (TellsEnd(u) => TellsEnd(u)')
    BY <1>2 DEF Told, TellsEnd, Quiet, EndsAt, KindAt
  <2> QED BY <1>2, <2>1 DEF TurnAgrees
<1> QED BY <1>1, <1>2

LEMMA EventsOfMove ==
  ASSUME TypeOK, LockInv, EventsInv, [Next]_vars, NEW t \in Turns, MovesAlone(t),
         \/ uiStatus' = uiStatus
         \/ pc[t] \in Holding
         \/ ~Undisturbed(IdentityOf[t])',
         Calm(IdentityOf[t]) /\ Undisturbed(IdentityOf[t])' =>
           TurnAgrees(t)' /\ CardAgrees(IdentityOf[t])'
  PROVE  \A i \in Identities : EventsOf(i)'
<1>0. /\ pc \in [Turns -> TurnPc] /\ failed \in [Turns -> BOOLEAN]
      /\ driver \in [Turns -> {"off", "launching", "watching", "closed"}]
      /\ board \in [Identities -> {"running", "needs_you", "error"}]
      /\ uiStatus \in [Identities -> {"none", "starting", "running", "completed", "error"}]
  BY DEF TypeOK, TurnTypeOK, CliTypeOK, RuntimeTypeOK
<1> SUFFICES ASSUME NEW i \in Identities, Calm(i), Undisturbed(i)'
             PROVE  CardAgrees(i)' /\ \A u \in TurnsOf(i) : TurnAgrees(u)'
  BY CalmSuffices
<1>1. ASSUME NEW u \in TurnsOf(i), u # t PROVE TurnAgrees(u)'
  <2>1. /\ u \in Turns /\ IdentityOf[u] = i /\ TurnAgrees(u)
        /\ pc'[u] = pc[u] /\ driver'[u] = driver[u] /\ failed'[u] = failed[u]
        /\ updates'[u] = updates[u] /\ stopped'[u] = stopped[u]
    BY <1>0, <1>1 DEF MovesAlone, Calm, TurnsOf
  <2>2. uiStatus'[i] = uiStatus[i] \/ pc[u] \notin OnBoard
    <3>1. CASE i # IdentityOf[t] \/ uiStatus' = uiStatus
      BY <1>0, <3>1 DEF MovesAlone
    <3>2. CASE i = IdentityOf[t] /\ pc[t] \in Holding
      BY <1>1, <2>1, <3>2, OneHolds DEF OnBoard, Holding, Executing
    <3> QED BY <3>1, <3>2
  <2> QED BY <2>1, <2>2, TurnUntouched
<1>2. CASE i = IdentityOf[t]
  BY <1>1, <1>2
<1>3. CASE i # IdentityOf[t]
  <2>1. t \notin TurnsOf(i)
    BY <1>3 DEF TurnsOf
  <2>2. /\ \A u \in TurnsOf(i) : u \in Turns /\ pc'[u] = pc[u] /\ driver'[u] = driver[u]
        /\ board'[i] = board[i] /\ uiStatus'[i] = uiStatus[i]
    BY <1>0, <1>3 DEF MovesAlone, TurnsOf
  <2>3. (TurnsOf(i) \cap AtPc(OnBoard))' = TurnsOf(i) \cap AtPc(OnBoard)
    BY <2>2 DEF TurnsOf, AtPc
  <2>4. CardAgrees(i)'
    BY <2>2, <2>3 DEF CardAgrees, Calm, TurnsOf
  <2> QED BY <1>1, <2>1, <2>4
<1> QED BY <1>2, <1>3

(* A turn on the board keeps its conversation's card out of the question. *)
LEMMA CardBusy ==
  ASSUME NEW t \in Turns, pc'[t] \in OnBoard
  PROVE  CardAgrees(IdentityOf[t])'
<1>1. t \in (TurnsOf(IdentityOf[t]) \cap AtPc(OnBoard))'
  BY DEF TurnsOf, AtPc
<1> QED BY <1>1 DEF CardAgrees

(* The turn's own steps, up to its run and after it. *)
LEMMA EventsTask ==
  ASSUME TypeOK, LockInv, CliInv, ControlCountsTurns, DoomInv, ClosedInv, EventsInv, [Next]_vars,
         NEW t \in Turns,
         \/ Start(t) \/ Enqueue(t) \/ CannotCreateAgentDir(t) \/ SkipStale(t) \/ Proceed(t)
         \/ SeedFails(t) \/ RegisterWorkdir(t) \/ FinishWorkdir(t)
         \/ Finish(t) \/ Release(t) \/ RunnerEnds(t)
  PROVE  \A i \in Identities : EventsOf(i)'
<1> DEFINE i == IdentityOf[t]
<1>0. /\ pc \in [Turns -> TurnPc] /\ failed \in [Turns -> BOOLEAN]
      /\ driver \in [Turns -> {"off", "launching", "watching", "closed"}]
      /\ board \in [Identities -> {"running", "needs_you", "error"}]
      /\ uiStatus \in [Identities -> {"none", "starting", "running", "completed", "error"}]
      /\ i \in Identities /\ t \in TurnsOf(i)
  BY RuntimeAssumption DEF TypeOK, TurnTypeOK, CliTypeOK, RuntimeTypeOK, TurnsOf
<1>1. /\ pc' = [pc EXCEPT ![t] = pc'[t]]
      /\ UNCHANGED <<driver, failed, updates, board, uiStatus, stopped>>
      /\ pc'[t] # "monitoring" /\ (pc'[t] \in OnBoard <=> pc[t] \in OnBoard)
  BY <1>0 DEF Start, Enqueue, CannotCreateAgentDir, SkipStale, Proceed, SeedFails,
         RegisterWorkdir, FinishWorkdir, Finish, Release, RunnerEnds,
         runtimeVars, turnVars, cliVars, historyVars, OnBoard
<1>2. MovesAlone(t)
  BY <1>0, <1>1 DEF MovesAlone
<1>3. ASSUME Calm(i), Undisturbed(i)' PROVE TurnAgrees(t)' /\ CardAgrees(i)'
  <2>1. TurnAgrees(t) /\ CardAgrees(i)
    BY <1>0, <1>3 DEF Calm
  <2>2. pc'[t] \in AfterRun => driver[t] = "closed"
    <3>1. CASE SkipStale(t)
      <4>1. IsStale(t) /\ pc[t] \in Waiting
        BY <3>1 DEF SkipStale, Waiting
      <4> QED BY <2>1, <4>1, StaleIsStopped DEF TurnAgrees
    <3>2. CASE FinishWorkdir(t) \/ Finish(t) \/ Release(t)
      BY <2>1, <3>2 DEF FinishWorkdir, Finish, Release, TurnAgrees, AfterRun
    <3>3. CASE RunnerEnds(t)
      BY <3>3 DEF RunnerEnds, ChannelIsOver
    <3>4. CASE \/ Start(t) \/ Enqueue(t) \/ CannotCreateAgentDir(t) \/ Proceed(t)
               \/ SeedFails(t) \/ RegisterWorkdir(t)
      BY <1>0, <3>4 DEF Start, Enqueue, CannotCreateAgentDir, Proceed, SeedFails,
           RegisterWorkdir, AfterRun
    <3> QED BY <3>1, <3>2, <3>3, <3>4
  <2>3. pc'[t] \in {"joined", "settling"} => uiStatus[i] = Told(t)
    <3>1. CASE RunnerEnds(t)
      <4>1. pc[t] = "monitoring" /\ driver[t] = "closed" /\ Len(updates[t]) = 0
        BY <3>1 DEF RunnerEnds, ChannelIsOver
      <4>2. TellsEnd(t)
        BY <2>1, <4>1 DEF TurnAgrees
      <4>3. \A n : ~EndsAt(t, n)
        BY <4>1 DEF EndsAt
      <4> QED BY <4>2, <4>3 DEF TellsEnd
    <3>2. CASE ~RunnerEnds(t) /\ pc'[t] \in {"joined", "settling"}
      <4>1. pc[t] = "joined"
        BY <1>0, <3>2 DEF Start, Enqueue, CannotCreateAgentDir, SkipStale, Proceed, SeedFails,
           RegisterWorkdir, FinishWorkdir, Finish, Release
      <4> QED BY <2>1, <4>1 DEF TurnAgrees
    <3> QED BY <3>1, <3>2
  <2>4. TurnAgrees(t)'
    BY <1>1, <2>1, <2>2, <2>3 DEF TurnAgrees, Told
  <2>5. (TurnsOf(i) \cap AtPc(OnBoard))' = TurnsOf(i) \cap AtPc(OnBoard)
    BY <1>0, <1>1 DEF TurnsOf, AtPc
  <2>6. CardAgrees(i)'
    BY <1>1, <2>1, <2>5 DEF CardAgrees, TurnsOf
  <2> QED BY <2>4, <2>6
<1> QED BY <1>1, <1>2, <1>3, EventsOfMove

(* The steps that write the card, or report a failure. *)
LEMMA EventsCard ==
  ASSUME TypeOK, LockInv, CliInv, ClosedInv, EventsInv, [Next]_vars, NEW t \in Turns,
         MarkRunning(t) \/ Settle(t) \/ ReportFailure(t)
  PROVE  \A i \in Identities : EventsOf(i)'
<1> DEFINE i == IdentityOf[t]
<1>0. /\ pc \in [Turns -> TurnPc] /\ failed \in [Turns -> BOOLEAN]
      /\ driver \in [Turns -> {"off", "launching", "watching", "closed"}]
      /\ board \in [Identities -> {"running", "needs_you", "error"}]
      /\ uiStatus \in [Identities -> {"none", "starting", "running", "completed", "error"}]
      /\ i \in Identities /\ t \in TurnsOf(i)
  BY RuntimeAssumption DEF TypeOK, TurnTypeOK, CliTypeOK, RuntimeTypeOK, TurnsOf
<1>1. MovesAlone(t)
  BY <1>0 DEF MarkRunning, Settle, ReportFailure, MovesAlone, runtimeVars, turnVars, cliVars, historyVars
<1>2. CASE MarkRunning(t)
  <2>1. uiStatus' = uiStatus /\ stopped' = stopped /\ pc'[t] = "monitoring" /\ driver'[t] = "launching"
    BY <1>0, <1>2 DEF MarkRunning, historyVars
  <2>2. CardAgrees(i)'
    BY <2>1, CardBusy DEF OnBoard
  <2>3. Calm(i) => TurnAgrees(t)'
    BY <1>0, <2>1 DEF Calm, TurnAgrees, AfterRun
  <2> QED BY <1>1, <2>1, <2>2, <2>3, EventsOfMove
<1>3. CASE Settle(t)
  <2>1. /\ UNCHANGED <<uiStatus, stopped, driver, failed>> /\ pc[t] = "settling" /\ pc'[t] = "finishing"
        /\ board'[i] = CardAfter(t)
    BY <1>0, <1>3 DEF Settle, cliVars, historyVars
  <2>2. ASSUME Calm(i) PROVE TurnAgrees(t)' /\ CardAgrees(i)'
    <3>1. TurnAgrees(t) /\ driver[t] = "closed"
      BY <1>0, <2>1, <2>2 DEF Calm, ClosedInv
    <3>2. TurnAgrees(t)'
      BY <2>1, <3>1 DEF TurnAgrees, AfterRun
    <3>3. uiStatus'[i] = IF board'[i] = "error" THEN "error" ELSE "completed"
      BY <2>1, <3>1 DEF TurnAgrees, Told, CardAfter
    <3> QED BY <3>2, <3>3 DEF CardAgrees
  <2> QED BY <1>1, <2>1, <2>2, EventsOfMove
<1>4. CASE ReportFailure(t)
  <2>1. pc'[t] = "aborted"
    BY <1>0, <1>4 DEF ReportFailure
  <2>2. ~Undisturbed(i)'
    BY <1>0, <2>1 DEF Undisturbed, TurnsOf
  <2> QED BY <1>1, <2>2, EventsOfMove
<1> QED BY <1>2, <1>3, <1>4

(* The last thing the driver sends, and the last word of the channel: the     *)
(* status the CLI ended with.                                                *)
LEMMA LastMessage ==
  ASSUME TypeOK, CliInv, ChannelInv, NEW t \in Turns, LaunchFails(t) \/ Exit(t)
  PROVE  \E n \in Nat : EndsAt(t, n)' /\ KindAt(t, n)' = lastEnd'[IdentityOf[t]]
<1>0. PICK len \in Nat : len = Len(updates[t])
  BY DEF TypeOK, CliTypeOK
<1>1. \A k \in 1..len : KindAt(t, k) \notin Terminal
  BY <1>0 DEF LaunchFails, Exit, ChannelInv, ChannelOf
<1>2. ASSUME NEW kinds \in Seq(UpdateKind), NEW m \in 1..Len(kinds), Send(t, kinds),
             attempt'[t] \in Attempts, kinds[m] \in Terminal,
             \A k \in 1..Len(kinds) : /\ k < m => kinds[k] \notin Terminal
                                      /\ k > m => kinds[k] \notin Statuses
      PROVE  EndsAt(t, len + m)' /\ KindAt(t, len + m)' = kinds[m]
  <2>1. /\ len \in Nat /\ Len(kinds) \in Nat /\ Len(updates'[t]) = len + Len(kinds)
        /\ \A k \in 1..len : KindAt(t, k)' = KindAt(t, k)
        /\ \A k \in 1..Len(kinds) : KindAt(t, len + k)' = kinds[k]
    BY <1>2, <1>0, SendAppends DEF KindAt
  <2>2. ASSUME NEW k \in 1..Len(updates'[t])
        PROVE  k \in 1..len \/ \E j \in 1..Len(kinds) : k = len + j
    <3>1. CASE k > len
      <4>1. k - len \in 1..Len(kinds) /\ k = len + (k - len)
        BY <2>1, <3>1
      <4> QED BY <4>1
    <3>2. CASE ~(k > len)
      BY <2>1, <3>2
    <3> QED BY <3>1, <3>2
  <2>3. len + m \in 1..Len(updates'[t]) /\ KindAt(t, len + m)' \in Terminal
    BY <1>2, <2>1
  <2>4. ASSUME NEW k \in 1..Len(updates'[t]), k < len + m PROVE KindAt(t, k)' \notin Terminal
    <3>1. CASE k \in 1..len
      BY <1>1, <2>1, <3>1
    <3>2. CASE \E j \in 1..Len(kinds) : k = len + j
      BY <1>2, <2>1, <2>4, <3>2
    <3> QED BY <2>2, <3>1, <3>2
  <2>5. ASSUME NEW k \in 1..Len(updates'[t]), k > len + m PROVE KindAt(t, k)' \notin Statuses
    <3>1. \E j \in 1..Len(kinds) : k = len + j /\ j > m
      BY <1>2, <2>1, <2>2, <2>5
    <3> QED BY <1>2, <2>1, <3>1
  <2>6. KindAt(t, len + m)' = kinds[m]
    BY <1>2, <2>1
  <2> QED BY <2>3, <2>4, <2>5, <2>6 DEF EndsAt, Quiet
<1>e. /\ lastEnd \in [Identities -> {"none", "completed", "error"}] /\ IdentityOf[t] \in Identities
  BY RuntimeAssumption DEF TypeOK, HistoryTypeOK
<1>3. CASE LaunchFails(t)
  <2> DEFINE kinds == Prelude(t) \o <<"error">>
  <2>1. <<"error">> \in Seq(UpdateKind) /\ Len(<<"error">>) = 1 /\ <<"error">>[1] = "error"
    BY DEF UpdateKind
  <2>2. PICK n \in 0..1 : /\ kinds \in Seq(UpdateKind) /\ Len(kinds) = n + 1
                          /\ kinds[n + 1] = "error" /\ \A k \in 1..n : kinds[k] = "starting"
    <3> DEFINE rest == <<"error">>
    <3>1. rest \in Seq(UpdateKind) /\ Len(rest) = 1 /\ rest[1] = "error" /\ 1 \in 1..Len(rest)
      BY <2>1
    <3> HIDE DEF rest
    <3>2. /\ Prelude(t) \o rest \in Seq(UpdateKind) /\ Len(Prelude(t)) \in 0..1
          /\ Len(Prelude(t) \o rest) = Len(Prelude(t)) + Len(rest)
          /\ \A k \in 1..Len(Prelude(t)) : (Prelude(t) \o rest)[k] = "starting"
          /\ (Prelude(t) \o rest)[Len(Prelude(t)) + 1] = rest[1]
      BY <3>1, PreludeThen
    <3>3. kinds = Prelude(t) \o rest
      BY DEF rest
    <3> HIDE DEF kinds
    <3> QED BY <3>1, <3>2, <3>3
  <2>3. Send(t, kinds)
    BY <1>3 DEF LaunchFails
  <2>4. attempt'[t] \in Attempts
    <3>1. attempt[t] \in 0..1 /\ attempt' = [attempt EXCEPT ![t] = attempt[t] + 1]
      BY <1>3 DEF LaunchFails, CliInv
    <3> QED BY <3>1 DEF TypeOK, CliTypeOK, Attempts
  <2> HIDE DEF kinds
  <2>5. n + 1 \in 1..Len(kinds)
    BY <2>2
  <2>6. \A k \in 1..Len(kinds) : /\ k < n + 1 => kinds[k] \notin Terminal
                                 /\ k > n + 1 => kinds[k] \notin Statuses
    BY <2>2 DEF Terminal
  <2>7. PICK m \in 1..Len(kinds) : m = n + 1
    BY <2>5
  <2>8. EndsAt(t, len + m)' /\ KindAt(t, len + m)' = "error"
    BY <1>2, <2>2, <2>3, <2>4, <2>6, <2>7 DEF Terminal
  <2>9. len + m \in Nat /\ lastEnd'[IdentityOf[t]] = "error"
    BY <1>3, <1>e, <2>7 DEF LaunchFails
  <2> QED BY <2>8, <2>9
<1>4. CASE Exit(t)
  <2>1. attempt'[t] \in Attempts
    BY <1>4 DEF Exit, CliInv, Attempts
  <2>2. PICK status \in Terminal : /\ lastEnd' = [lastEnd EXCEPT ![IdentityOf[t]] = status]
                                   /\ \/ Send(t, <<status>>)
                                      \/ Send(t, <<"sid", status>>)
                                      \/ Send(t, <<status, "sid">>)
    BY <1>4 DEF Exit, Terminal
  <2>0. lastEnd'[IdentityOf[t]] = status
    BY <1>e, <2>2
  <2>3. status \in UpdateKind /\ status # "sid" /\ "sid" \in UpdateKind
        /\ "sid" \notin Statuses /\ "sid" \notin Terminal
    BY DEF Terminal, UpdateKind, Statuses
  <2>4. CASE Send(t, <<status>>)
    <3> DEFINE kinds == <<status>>
    <3>1. kinds \in Seq(UpdateKind) /\ Len(kinds) = 1 /\ kinds[1] = status
      BY <2>3
    <3>2. Send(t, kinds)
      BY <2>4
    <3> HIDE DEF kinds
    <3>3. EndsAt(t, len + 1)' /\ KindAt(t, len + 1)' = status
      BY <1>2, <2>1, <3>1, <3>2
    <3> QED BY <1>0, <2>0, <3>3
  <2>5. CASE Send(t, <<"sid", status>>)
    <3> DEFINE kinds == <<"sid", status>>
    <3>1. kinds \in Seq(UpdateKind) /\ Len(kinds) = 2 /\ kinds[1] = "sid" /\ kinds[2] = status
      BY <2>3
    <3>2. Send(t, kinds)
      BY <2>5
    <3> HIDE DEF kinds
    <3>3. EndsAt(t, len + 2)' /\ KindAt(t, len + 2)' = status
      BY <1>2, <2>1, <2>3, <3>1, <3>2
    <3> QED BY <1>0, <2>0, <3>3
  <2>6. CASE Send(t, <<status, "sid">>)
    <3> DEFINE kinds == <<status, "sid">>
    <3>1. kinds \in Seq(UpdateKind) /\ Len(kinds) = 2 /\ kinds[1] = status /\ kinds[2] = "sid"
      BY <2>3
    <3>2. Send(t, kinds)
      BY <2>6
    <3> HIDE DEF kinds
    <3>3. EndsAt(t, len + 1)' /\ KindAt(t, len + 1)' = status
      BY <1>2, <2>1, <2>3, <3>1, <3>2
    <3> QED BY <1>0, <2>0, <3>3
  <2> QED BY <2>2, <2>4, <2>5, <2>6
<1> QED BY <1>3, <1>4

LEMMA EventsDriver ==
  ASSUME TypeOK, LockInv, CliInv, EventsInv, [Next]_vars, NEW t \in Turns,
         Launch(t) \/ LaunchFails(t) \/ Exit(t) \/ RetryFresh(t)
  PROVE  \A i \in Identities : EventsOf(i)'
<1> DEFINE i == IdentityOf[t]
<1>0. /\ driver \in [Turns -> {"off", "launching", "watching", "closed"}]
      /\ pc \in [Turns -> TurnPc] /\ failed \in [Turns -> BOOLEAN]
      /\ board \in [Identities -> {"running", "needs_you", "error"}]
      /\ uiStatus \in [Identities -> {"none", "starting", "running", "completed", "error"}]
      /\ updates \in [Turns -> Seq(Update)]
      /\ i \in Identities /\ t \in TurnsOf(i)
  BY RuntimeAssumption DEF TypeOK, TurnTypeOK, CliTypeOK, RuntimeTypeOK, TurnsOf
<1>1. /\ pc[t] = "monitoring" /\ UNCHANGED <<pc, failed, board, uiStatus, stopped>>
      /\ driver[t] # "closed" /\ driver' = [driver EXCEPT ![t] = driver'[t]]
      /\ \A u \in Turns : u # t => updates'[u] = updates[u]
  BY <1>0 DEF Launch, LaunchFails, Exit, RetryFresh, Send, CliInv, runtimeVars, turnVars, historyVars
<1>2. MovesAlone(t)
  BY <1>0, <1>1 DEF MovesAlone
<1>3. CardAgrees(i)'
  BY <1>1, CardBusy DEF OnBoard
<1>4. ASSUME Calm(i) PROVE TurnAgrees(t)'
  <2>1. TurnAgrees(t) /\ ~failed[t]
    BY <1>0, <1>1, <1>4 DEF Calm, EventsInv, ChannelInv, ChannelOf, TurnsOf
  <2>2. driver'[t] = "closed" => LaunchFails(t) \/ Exit(t)
    BY <1>0 DEF Launch, RetryFresh
  <2>3. driver'[t] = "closed" => TellsEnd(t)'
    BY <1>1, <2>1, <2>2, LastMessage DEF EventsInv, TellsEnd
  <2> QED BY <1>1, <2>1, <2>3 DEF TurnAgrees, AfterRun
<1> QED BY <1>1, <1>2, <1>3, <1>4, EventsOfMove

LEMMA EventsRunner ==
  ASSUME TypeOK, LockInv, CliInv, EventsInv, [Next]_vars, NEW t \in Turns, HandleUpdate(t)
  PROVE  \A i \in Identities : EventsOf(i)'
<1> DEFINE i == IdentityOf[t]
           kind == KindAt(t, 1)
<1>0. /\ driver \in [Turns -> {"off", "launching", "watching", "closed"}]
      /\ pc \in [Turns -> TurnPc] /\ failed \in [Turns -> BOOLEAN]
      /\ board \in [Identities -> {"running", "needs_you", "error"}]
      /\ uiStatus \in [Identities -> {"none", "starting", "running", "completed", "error"}]
      /\ i \in Identities /\ t \in TurnsOf(i)
  BY RuntimeAssumption DEF TypeOK, TurnTypeOK, CliTypeOK, RuntimeTypeOK, TurnsOf
<1>1. /\ Len(updates[t]) \in Nat \ {0} /\ Head(updates[t]).kind = kind
      /\ Len(updates'[t]) = Len(updates[t]) - 1
      /\ \A k \in 1..Len(updates'[t]) : KindAt(t, k)' = KindAt(t, k + 1)
      /\ \A u \in Turns : u # t => updates'[u] = updates[u]
  BY HandleShifts
<1>2. /\ pc[t] = "monitoring" /\ UNCHANGED <<pc, board, driver, stopped>>
      /\ uiStatus' = IF kind \in Statuses THEN [uiStatus EXCEPT ![i] = kind] ELSE uiStatus
      /\ failed' = [failed EXCEPT ![t] = failed[t] \/ kind = "error"]
  BY <1>1 DEF HandleUpdate, IsFailure, historyVars, Statuses, Terminal
<1> HIDE DEF kind
<1>3. MovesAlone(t)
  BY <1>0, <1>1, <1>2 DEF MovesAlone
<1>4. CardAgrees(i)'
  BY <1>2, CardBusy DEF OnBoard
<1>5. ASSUME TellsEnd(t) PROVE TellsEnd(t)'
  <2>1. CASE Quiet(t, 0) /\ uiStatus[i] = Told(t)
    <3>1. kind \notin Statuses
      BY <1>1, <2>1 DEF Quiet, kind
    <3>2. uiStatus' = uiStatus /\ Told(t)' = Told(t)
      BY <1>0, <1>2, <3>1 DEF Told, Statuses, Terminal
    <3>3. Quiet(t, 0)'
      <4>1. \A k \in 1..Len(updates'[t]) : k + 1 \in 1..Len(updates[t]) /\ k + 1 > 0
        BY <1>1
      <4> QED BY <1>1, <2>1, <4>1 DEF Quiet
    <3> QED BY <2>1, <3>2, <3>3 DEF TellsEnd
  <2>2. CASE ~failed[t] /\ \E n \in Nat : EndsAt(t, n)
    <3>1. PICK n \in Nat : EndsAt(t, n)
      BY <2>2
    <3>2. n \in 1..Len(updates[t])
      BY <3>1 DEF EndsAt
    <3>3. CASE n = 1
      <4>1. kind \in Terminal
        BY <3>1, <3>3 DEF EndsAt, kind
      <4>2. uiStatus'[i] = Told(t)'
        BY <1>0, <1>2, <2>2, <4>1 DEF Told, Statuses, Terminal
      <4>3. \A k \in 1..Len(updates'[t]) : k + 1 \in 1..Len(updates[t]) /\ k + 1 > 1
        BY <1>1
      <4>4. Quiet(t, 0)'
        BY <1>1, <3>1, <3>3, <4>3 DEF Quiet, EndsAt
      <4> QED BY <4>2, <4>4 DEF TellsEnd
    <3>4. CASE n # 1
      <4>1. kind \notin Terminal
        BY <1>1, <3>1, <3>2, <3>4 DEF EndsAt, kind
      <4>2. ~failed'[t]
        BY <1>0, <1>2, <2>2, <4>1 DEF Terminal
      <4>3. n - 1 \in 1..Len(updates'[t]) /\ (n - 1) + 1 = n /\ n - 1 \in Nat
        BY <1>1, <3>2, <3>4
      <4>4. \A k \in 1..Len(updates'[t]) : /\ k + 1 \in 1..Len(updates[t])
                                           /\ k < n - 1 => k + 1 < n
                                           /\ k > n - 1 => k + 1 > n
        BY <1>1, <4>3
      <4>5. EndsAt(t, n - 1)'
        BY <1>1, <3>1, <4>3, <4>4 DEF EndsAt, Quiet
      <4> QED BY <4>2, <4>3, <4>5 DEF TellsEnd
    <3> QED BY <3>3, <3>4
  <2> QED BY <1>5, <2>1, <2>2 DEF TellsEnd
<1>6. Calm(i) => TurnAgrees(t)'
  BY <1>0, <1>2, <1>5 DEF Calm, TurnAgrees, AfterRun
<1> QED BY <1>2, <1>3, <1>4, <1>6, EventsOfMove DEF Holding, Executing

(* A stop that finds nothing to stop leaves everything as it was. *)
LEMMA EventsStop ==
  ASSUME TypeOK, ControlCountsTurns, EventsInv, [Next]_vars, NEW c \in Stops,
         Cancel(c) \/ TakePid(c) \/ ConfirmDead(c) \/ ReportStop(c)
  PROVE  \A i \in Identities : EventsOf(i)'
<1>0. /\ stopPc \in [Stops -> {"idle", "bumped", "killing", "reporting", "reported", "refused"}]
      /\ hadQueued \in [Stops -> BOOLEAN]
      /\ stopped \in [Turns -> BOOLEAN]
      /\ uiStatus \in [Identities -> {"none", "starting", "running", "completed", "error"}]
  BY DEF TypeOK, StopTypeOK, HistoryTypeOK, RuntimeTypeOK
<1> SUFFICES ASSUME NEW i \in Identities, Calm(i), Undisturbed(i)'
             PROVE  CardAgrees(i)' /\ \A u \in TurnsOf(i) : TurnAgrees(u)'
  BY CalmSuffices
<1>1. UNCHANGED <<pc, driver, failed, updates, board>>
  BY DEF Cancel, TakePid, ConfirmDead, ReportStop, runtimeVars, turnVars, cliVars
<1>2. uiStatus'[i] = uiStatus[i]
  <2>1. CASE ReportStop(c)
    <3>1. Heeded(c)' /\ uiStatus' = [uiStatus EXCEPT ![TargetOf[c]] = "completed"]
      BY <1>0, <2>1 DEF ReportStop, Heeded
    <3>2. TargetOf[c] # i
      BY <3>1 DEF Undisturbed
    <3> QED BY <1>0, <3>1, <3>2
  <2>2. CASE Cancel(c) \/ TakePid(c) \/ ConfirmDead(c)
    BY <2>2 DEF Cancel, TakePid, ConfirmDead, runtimeVars
  <2> QED BY <2>1, <2>2
<1>3. \A u \in TurnsOf(i) : stopped'[u] = stopped[u]
  <2>1. CASE Cancel(c)
    <3>1. CASE TargetOf[c] = i
      <4>1. hadQueued'[c] = (control[i].active > 0) /\ stopPc'[c] = "bumped"
        BY <1>0, <2>1, <3>1 DEF Cancel
      <4>2. ~(control[i].active > 0)
        BY <3>1, <4>1 DEF Undisturbed, Heeded
      <4>3. \A u \in TurnsOf(i) : u \in Turns /\ pc[u] \notin Waiting
        BY <4>2, CountedHasEntry DEF TurnsOf, InControl
      <4> QED BY <1>0, <2>1, <4>3 DEF Cancel
    <3>2. CASE TargetOf[c] # i
      BY <1>0, <2>1, <3>2 DEF Cancel, TurnsOf
    <3> QED BY <3>1, <3>2
  <2>2. CASE TakePid(c) \/ ConfirmDead(c) \/ ReportStop(c)
    BY <2>2 DEF TakePid, ConfirmDead, ReportStop, historyVars
  <2> QED BY <2>1, <2>2
<1>4. ASSUME NEW u \in TurnsOf(i) PROVE TurnAgrees(u)'
  <2>1. u \in Turns /\ IdentityOf[u] = i /\ TurnAgrees(u)
    BY <1>4 DEF Calm, TurnsOf
  <2> QED BY <1>1, <1>2, <1>3, <2>1, TurnUntouched
<1>5. CardAgrees(i)'
  <2>1. (TurnsOf(i) \cap AtPc(OnBoard))' = TurnsOf(i) \cap AtPc(OnBoard)
    BY <1>1 DEF TurnsOf, AtPc
  <2> QED BY <1>1, <1>2, <2>1 DEF CardAgrees, Calm, TurnsOf
<1> QED BY <1>4, <1>5

LEMMA EventsStep ==
  ASSUME TypeOK, LockInv, CliInv, ControlCountsTurns, DoomInv, ClosedInv, EventsInv, [Next]_vars
  PROVE  EventsInv'
<1>1. ChannelInv'
  BY ChannelStep DEF EventsInv
<1>2. CASE UNCHANGED vars
  BY <1>1, <1>2 DEF vars, runtimeVars, turnVars, cliVars, stopVars, historyVars, EventsInv, EventsOf,
     Undisturbed, Heeded, CardAgrees, TurnAgrees, TellsEnd, Told, Quiet, EndsAt, KindAt, TurnsOf, AtPc
<1> QED BY ActionsOfNext, EventsTask, EventsCard, EventsDriver, EventsRunner, EventsStop,
           <1>1, <1>2 DEF EventsInv

(***************************************************************************)
(* The card of a conversation: the one turn that holds the lock writes it, *)
(* and what it writes is what the CLI's end left in the channel.           *)
(***************************************************************************)
SaysError(t) == failed[t] \/ \E k \in 1..Len(updates[t]) : KindAt(t, k) = "error"

EndOf(t) ==
  /\ pc[t] \in {"joined", "settling"} => updates[t] = <<>>
  /\ pc[t] \in OnBoard /\ driver[t] = "closed" =>
       /\ lastEnd[IdentityOf[t]] # "none"
       /\ lastEnd[IdentityOf[t]] = "error" <=> SaysError(t)

EndInv == \A t \in Turns : EndOf(t)

(* A turn whose channel, driver and end are left alone. *)
LEMMA EndKept ==
  ASSUME NEW t \in Turns, EndOf(t), lastEnd'[IdentityOf[t]] = lastEnd[IdentityOf[t]],
         updates'[t] = updates[t], failed'[t] = failed[t], driver'[t] = driver[t],
         pc'[t] \in OnBoard /\ driver[t] = "closed" => pc[t] \in OnBoard,
         pc'[t] \in {"joined", "settling"} => pc[t] \in {"joined", "settling"} \/ updates[t] = <<>>
  PROVE  EndOf(t)'
BY DEF EndOf, SaysError, KindAt

LEMMA EndStep ==
  ASSUME TypeOK, LockInv, CliInv, ClosedInv, ChannelInv, EndInv, [Next]_vars
  PROVE  EndInv'
<1>0. /\ pc \in [Turns -> TurnPc] /\ driver \in [Turns -> {"off", "launching", "watching", "closed"}]
      /\ failed \in [Turns -> BOOLEAN] /\ updates \in [Turns -> Seq(Update)]
      /\ lastEnd \in [Identities -> {"none", "completed", "error"}]
      /\ \A t \in Turns : IdentityOf[t] \in Identities
  BY RuntimeAssumption DEF TypeOK, TurnTypeOK, CliTypeOK, HistoryTypeOK
<1>1. ASSUME NEW t \in Turns,
             \/ Start(t) \/ Enqueue(t) \/ CannotCreateAgentDir(t) \/ SkipStale(t) \/ Proceed(t)
             \/ SeedFails(t) \/ RegisterWorkdir(t) \/ FinishWorkdir(t)
             \/ Settle(t) \/ Finish(t) \/ Release(t) \/ ReportFailure(t) \/ RunnerEnds(t)
      PROVE  EndInv'
  <2>1. /\ pc' = [pc EXCEPT ![t] = pc'[t]] /\ UNCHANGED <<driver, updates, failed, lastEnd>>
        /\ pc'[t] \in OnBoard => pc[t] \in OnBoard
    BY <1>0, <1>1 DEF Start, Enqueue, CannotCreateAgentDir, SkipStale, Proceed, SeedFails,
         RegisterWorkdir, FinishWorkdir, Settle, Finish, Release, ReportFailure, RunnerEnds,
         OnBoard, turnVars, cliVars, historyVars
  <2>2. pc'[t] \in {"joined", "settling"} => pc[t] \in {"joined", "settling"} \/ updates[t] = <<>>
    BY <1>0, <1>1 DEF Start, Enqueue, CannotCreateAgentDir, SkipStale, Proceed, SeedFails,
         RegisterWorkdir, FinishWorkdir, Settle, Finish, Release, ReportFailure, RunnerEnds,
         ChannelIsOver
  <2>3. ASSUME NEW u \in Turns PROVE EndOf(u)'
    <3>1. EndOf(u)
      BY DEF EndInv
    <3>2. CASE u = t
      BY <2>1, <2>2, <3>1, <3>2, EndKept
    <3>3. CASE u # t
      <4>1. pc'[u] = pc[u]
        BY <1>0, <2>1, <3>3
      <4> QED BY <2>1, <3>1, <4>1, EndKept
    <3> QED BY <3>2, <3>3
  <2> QED BY <2>3 DEF EndInv
<1>2. ASSUME NEW t \in Turns, MarkRunning(t) PROVE EndInv'
  <2>1. /\ pc' = [pc EXCEPT ![t] = "monitoring"] /\ driver' = [driver EXCEPT ![t] = "launching"]
        /\ UNCHANGED <<updates, failed, lastEnd>>
    BY <1>2 DEF MarkRunning, historyVars
  <2>2. ASSUME NEW u \in Turns PROVE EndOf(u)'
    <3>1. CASE u = t
      <4>1. driver'[u] = "launching" /\ pc'[u] = "monitoring"
        BY <1>0, <2>1, <3>1
      <4> QED BY <4>1 DEF EndOf
    <3>2. CASE u # t
      <4>1. pc'[u] = pc[u] /\ driver'[u] = driver[u] /\ EndOf(u)
        BY <1>0, <2>1, <3>2 DEF EndInv
      <4> QED BY <2>1, <4>1, EndKept
    <3> QED BY <3>1, <3>2
  <2> QED BY <2>2 DEF EndInv
<1>3. ASSUME NEW t \in Turns, Launch(t) \/ RetryFresh(t) PROVE EndInv'
  <2>1. /\ driver' = [driver EXCEPT ![t] = driver'[t]] /\ driver'[t] # "closed" /\ pc[t] = "monitoring"
        /\ UNCHANGED <<pc, failed, lastEnd>>
        /\ \A u \in Turns : u # t => updates'[u] = updates[u]
    BY <1>0, <1>3 DEF Launch, RetryFresh, Send, CliInv, turnVars, historyVars
  <2>2. ASSUME NEW u \in Turns PROVE EndOf(u)'
    <3>1. CASE u = t
      BY <2>1, <3>1 DEF EndOf
    <3>2. CASE u # t
      <4>1. driver'[u] = driver[u] /\ updates'[u] = updates[u] /\ EndOf(u)
        BY <1>0, <2>1, <3>2 DEF EndInv
      <4> QED BY <2>1, <4>1, EndKept
    <3> QED BY <3>1, <3>2
  <2> QED BY <2>2 DEF EndInv
<1>4. ASSUME NEW t \in Turns, LaunchFails(t) \/ Exit(t) PROVE EndInv'
  <2>1. /\ driver' = [driver EXCEPT ![t] = "closed"] /\ driver[t] # "closed" /\ pc[t] = "monitoring"
        /\ UNCHANGED <<pc, failed>>
        /\ \A u \in Turns : u # t => updates'[u] = updates[u]
        /\ lastEnd' = [lastEnd EXCEPT ![IdentityOf[t]] = lastEnd'[IdentityOf[t]]]
    BY <1>0, <1>4 DEF LaunchFails, Exit, Send, CliInv, turnVars
  <2>2. PICK n \in Nat : EndsAt(t, n)' /\ KindAt(t, n)' = lastEnd'[IdentityOf[t]]
    BY <1>4, LastMessage
  <2>3. ~failed[t]
    BY <2>1 DEF ChannelInv, ChannelOf
  <2>4. lastEnd'[IdentityOf[t]] = "error" <=> SaysError(t)'
    <3>1. n \in 1..Len(updates'[t]) /\ KindAt(t, n)' \in Terminal
      BY <2>2 DEF EndsAt
    <3>2. ASSUME NEW k \in 1..Len(updates'[t]), k # n PROVE KindAt(t, k)' # "error"
      <4>1. k < n \/ k > n
        BY <3>2
      <4> QED BY <2>2, <4>1 DEF EndsAt, Quiet, Terminal, Statuses
    <3>3. (\E k \in 1..Len(updates'[t]) : KindAt(t, k)' = "error") <=> KindAt(t, n)' = "error"
      BY <3>1, <3>2
    <3> QED BY <2>1, <2>2, <2>3, <3>3 DEF SaysError
  <2>5. lastEnd'[IdentityOf[t]] # "none"
    BY <2>2 DEF EndsAt, Terminal
  <2>6. ASSUME NEW u \in Turns PROVE EndOf(u)'
    <3>1. CASE u = t
      BY <2>1, <2>4, <2>5, <3>1 DEF EndOf
    <3>2. CASE u # t /\ IdentityOf[u] = IdentityOf[t]
      <4>1. pc[u] \notin Holding
        BY <2>1, <3>2, OneHolds DEF Holding, Executing
      <4> QED BY <2>1, <4>1 DEF EndOf, OnBoard, Holding, Executing
    <3>3. CASE u # t /\ IdentityOf[u] # IdentityOf[t]
      <4>1. /\ driver'[u] = driver[u] /\ updates'[u] = updates[u] /\ EndOf(u)
            /\ lastEnd'[IdentityOf[u]] = lastEnd[IdentityOf[u]]
        BY <1>0, <2>1, <3>3 DEF EndInv
      <4> QED BY <2>1, <4>1, EndKept
    <3> QED BY <3>1, <3>2, <3>3
  <2> QED BY <2>6 DEF EndInv
<1>5. ASSUME NEW t \in Turns, HandleUpdate(t) PROVE EndInv'
  <2>1. /\ pc[t] = "monitoring" /\ UNCHANGED <<pc, driver, lastEnd>>
        /\ failed' = [failed EXCEPT ![t] = IsFailure(t, Head(updates[t]))]
    BY <1>5 DEF HandleUpdate, historyVars
  <2>2. /\ Len(updates[t]) \in Nat \ {0} /\ Len(updates'[t]) = Len(updates[t]) - 1
        /\ \A k \in 1..Len(updates'[t]) : KindAt(t, k)' = KindAt(t, k + 1)
        /\ \A u \in Turns : u # t => updates'[u] = updates[u]
        /\ failed'[t] <=> failed[t] \/ KindAt(t, 1) = "error"
    BY <1>0, <1>5, <2>1, HandleShifts DEF IsFailure
  <2>3. SaysError(t)' <=> SaysError(t)
    <3>1. ASSUME NEW k \in 1..Len(updates[t])
          PROVE  k = 1 \/ \E j \in 1..Len(updates'[t]) : k = j + 1
      <4>1. k = 1 \/ (k - 1 \in 1..Len(updates'[t]) /\ k = (k - 1) + 1)
        BY <2>2
      <4> QED BY <4>1
    <3>2. \A j \in 1..Len(updates'[t]) : j + 1 \in 1..Len(updates[t])
      BY <2>2
    <3>3. 1 \in 1..Len(updates[t])
      BY <2>2
    <3>4. SaysError(t) => SaysError(t)'
      BY <2>2, <3>1 DEF SaysError
    <3>5. SaysError(t)' => SaysError(t)
      BY <2>2, <3>2, <3>3 DEF SaysError
    <3> QED BY <3>4, <3>5
  <2>4. ASSUME NEW u \in Turns PROVE EndOf(u)'
    <3>1. EndOf(u)
      BY DEF EndInv
    <3>2. CASE u = t
      BY <2>1, <2>3, <3>1, <3>2 DEF EndOf
    <3>3. CASE u # t
      <4>1. updates'[u] = updates[u] /\ failed'[u] = failed[u]
        BY <1>0, <2>1, <2>2, <3>3
      <4> QED BY <2>1, <3>1, <4>1, EndKept
    <3> QED BY <3>2, <3>3
  <2> QED BY <2>4 DEF EndInv
<1>6. ASSUME UNCHANGED <<pc, driver, updates, failed, lastEnd>> PROVE EndInv'
  BY <1>6 DEF EndInv, EndOf, SaysError, KindAt
<1>7. ASSUME NEW c \in Stops, Cancel(c) \/ TakePid(c) \/ ConfirmDead(c) \/ ReportStop(c)
      PROVE  EndInv'
  BY <1>6, <1>7 DEF Cancel, TakePid, ConfirmDead, ReportStop, turnVars, cliVars, historyVars
<1>8. CASE UNCHANGED vars
  BY <1>6, <1>8 DEF vars, turnVars, cliVars, historyVars
<1> QED BY ActionsOfNext, <1>1, <1>2, <1>3, <1>4, <1>5, <1>7, <1>8

Runs(i) == TurnsOf(i) \cap AtPc(OnBoard)

BoardOf(i) ==
  /\ Runs(i) # {} => board[i] = "running"
  /\ Runs(i) = {} /\ lastEnd[i] # "none"
       => board[i] = IF lastEnd[i] = "error" THEN "error" ELSE "needs_you"

LEMMA BoardKept ==
  ASSUME NEW i \in Identities, BoardOf(i), Runs(i)' = Runs(i), board'[i] = board[i],
         Runs(i) = {} => lastEnd'[i] = lastEnd[i]
  PROVE  BoardOf(i)'
BY DEF BoardOf

LEMMA BoardStep ==
  ASSUME TypeOK, LockInv, CliInv, ClosedInv, EndInv, BoardFollowsRuns, [Next]_vars
  PROVE  BoardFollowsRuns'
<1>0. /\ pc \in [Turns -> TurnPc]
      /\ board \in [Identities -> {"running", "needs_you", "error"}]
      /\ lastEnd \in [Identities -> {"none", "completed", "error"}]
      /\ failed \in [Turns -> BOOLEAN]
      /\ \A t \in Turns : IdentityOf[t] \in Identities
      /\ \A i \in Identities : BoardOf(i)
  BY RuntimeAssumption
     DEF TypeOK, TurnTypeOK, RuntimeTypeOK, HistoryTypeOK, BoardFollowsRuns, BoardOf, Runs
<1>1. SUFFICES ASSUME NEW i \in Identities PROVE BoardOf(i)'
  BY <1>1 DEF BoardFollowsRuns, BoardOf, Runs
<1>2. ASSUME UNCHANGED <<board, lastEnd>>, Runs(i)' = Runs(i) PROVE BoardOf(i)'
  BY <1>0, <1>2, BoardKept
<1>3. ASSUME NEW t \in Turns, pc' = [pc EXCEPT ![t] = pc'[t]], pc'[t] \in OnBoard <=> pc[t] \in OnBoard
      PROVE  Runs(i)' = Runs(i)
  <2>1. \A u \in Turns : pc'[u] \in OnBoard <=> pc[u] \in OnBoard
    BY <1>0, <1>3
  <2> QED BY <2>1 DEF Runs, TurnsOf, AtPc
<1>4. ASSUME NEW t \in Turns, pc' = [pc EXCEPT ![t] = pc'[t]], i # IdentityOf[t]
      PROVE  Runs(i)' = Runs(i)
  <2>1. \A u \in TurnsOf(i) : u \in Turns /\ pc'[u] = pc[u]
    BY <1>0, <1>4 DEF TurnsOf
  <2> QED BY <2>1 DEF Runs, TurnsOf, AtPc
<1>5. ASSUME NEW t \in Turns,
             \/ Start(t) \/ Enqueue(t) \/ CannotCreateAgentDir(t) \/ SkipStale(t) \/ Proceed(t)
             \/ SeedFails(t) \/ RegisterWorkdir(t) \/ FinishWorkdir(t)
             \/ Finish(t) \/ Release(t) \/ ReportFailure(t) \/ RunnerEnds(t)
      PROVE  BoardOf(i)'
  <2>1. /\ pc' = [pc EXCEPT ![t] = pc'[t]] /\ UNCHANGED <<board, lastEnd>>
        /\ pc'[t] \in OnBoard <=> pc[t] \in OnBoard
    BY <1>0, <1>5 DEF Start, Enqueue, CannotCreateAgentDir, SkipStale, Proceed, SeedFails,
         RegisterWorkdir, FinishWorkdir, Finish, Release, ReportFailure, RunnerEnds,
         runtimeVars, historyVars, OnBoard
  <2> QED BY <1>2, <1>3, <2>1
<1>6. ASSUME NEW t \in Turns, MarkRunning(t) PROVE BoardOf(i)'
  <2>1. /\ pc' = [pc EXCEPT ![t] = "monitoring"] /\ pc[t] = "registered"
        /\ board' = [board EXCEPT ![IdentityOf[t]] = "running"] /\ lastEnd' = lastEnd
        /\ pc'[t] = "monitoring"
    BY <1>0, <1>6 DEF MarkRunning, historyVars
  <2>2. CASE i = IdentityOf[t]
    <3>1. t \in Runs(i)' /\ board'[i] = "running"
      BY <1>0, <2>1, <2>2 DEF Runs, TurnsOf, AtPc, OnBoard
    <3> QED BY <3>1 DEF BoardOf
  <2>3. CASE i # IdentityOf[t]
    <3>1. Runs(i)' = Runs(i) /\ board'[i] = board[i] /\ lastEnd' = lastEnd
      BY <1>0, <1>4, <2>1, <2>3
    <3> QED BY <1>0, <3>1, BoardKept
  <2> QED BY <2>2, <2>3
<1>7. ASSUME NEW t \in Turns, Settle(t) PROVE BoardOf(i)'
  <2>1. /\ pc' = [pc EXCEPT ![t] = "finishing"] /\ pc[t] = "settling" /\ lastEnd' = lastEnd
        /\ board' = [board EXCEPT ![IdentityOf[t]] = IF failed[t] THEN "error" ELSE "needs_you"]
        /\ pc'[t] = "finishing"
    BY <1>0, <1>7 DEF Settle, CardAfter, historyVars
  <2>2. CASE i = IdentityOf[t]
    <3>1. driver[t] = "closed" /\ EndOf(t) /\ pc[t] \in OnBoard
      BY <2>1 DEF ClosedInv, EndInv, OnBoard
    <3>2. lastEnd[i] = "error" <=> failed[t]
      <4>1. updates[t] = <<>>
        BY <2>1, <3>1 DEF EndOf
      <4>2. 1..Len(updates[t]) = {}
        BY <4>1
      <4> QED BY <2>2, <3>1, <4>2 DEF EndOf, SaysError
    <3>3. Runs(i)' = {}
      <4> SUFFICES ASSUME NEW u \in Turns, IdentityOf[u] = i, pc'[u] \in OnBoard PROVE FALSE
        BY DEF Runs, TurnsOf, AtPc
      <4>1. u # t /\ pc[u] \in OnBoard
        BY <1>0, <2>1 DEF OnBoard
      <4> QED BY <2>1, <2>2, <4>1, OneHolds DEF OnBoard, Holding, Executing
    <3>4. board'[i] = IF failed[t] THEN "error" ELSE "needs_you"
      BY <1>0, <2>1, <2>2
    <3> QED BY <2>1, <3>2, <3>3, <3>4 DEF BoardOf
  <2>3. CASE i # IdentityOf[t]
    <3>1. Runs(i)' = Runs(i) /\ board'[i] = board[i] /\ lastEnd' = lastEnd
      BY <1>0, <1>4, <2>1, <2>3
    <3> QED BY <1>0, <3>1, BoardKept
  <2> QED BY <2>2, <2>3
<1>8. ASSUME NEW t \in Turns, LaunchFails(t) \/ Exit(t) PROVE BoardOf(i)'
  <2>1. /\ UNCHANGED <<pc, board>> /\ pc[t] = "monitoring"
        /\ lastEnd' = [lastEnd EXCEPT ![IdentityOf[t]] = lastEnd'[IdentityOf[t]]]
    BY <1>0, <1>8 DEF LaunchFails, Exit, CliInv, runtimeVars, turnVars
  <2>2. Runs(i)' = Runs(i) /\ board'[i] = board[i]
    BY <2>1 DEF Runs, AtPc
  <2>3. Runs(i) = {} => lastEnd'[i] = lastEnd[i]
    <3>1. i = IdentityOf[t] => t \in Runs(i)
      BY <2>1 DEF Runs, TurnsOf, AtPc, OnBoard
    <3> QED BY <1>0, <2>1, <3>1
  <2> QED BY <1>0, <2>2, <2>3, BoardKept
<1>9. ASSUME UNCHANGED <<pc, board, lastEnd>> PROVE BoardOf(i)'
  BY <1>2, <1>9 DEF Runs, AtPc
<1>10. ASSUME NEW t \in Turns, Launch(t) \/ RetryFresh(t) \/ HandleUpdate(t) PROVE BoardOf(i)'
  BY <1>9, <1>10 DEF Launch, RetryFresh, HandleUpdate, runtimeVars, turnVars, historyVars
<1>11. ASSUME NEW c \in Stops, Cancel(c) \/ TakePid(c) \/ ConfirmDead(c) \/ ReportStop(c)
       PROVE  BoardOf(i)'
  BY <1>9, <1>11 DEF Cancel, TakePid, ConfirmDead, ReportStop, runtimeVars, turnVars, historyVars
<1>12. CASE UNCHANGED vars
  BY <1>9, <1>12 DEF vars, runtimeVars, turnVars, historyVars
<1> QED BY ActionsOfNext, <1>5, <1>6, <1>7, <1>8, <1>10, <1>11, <1>12

(***************************************************************************)
(* The inductive invariant of the runtime, and what follows from it.       *)
(***************************************************************************)
RuntimeInv ==
  /\ SafetyInv
  /\ ControlCountsTurns
  /\ DoomInv
  /\ ClosedInv
  /\ PidsAreOurs
  /\ BoardFollowsRuns
  /\ WindowInv
  /\ EventsInv
  /\ EndInv

LEMMA RuntimeInit == Init => RuntimeInv
<1> SUFFICES ASSUME Init PROVE RuntimeInv
  OBVIOUS
<1>1. SafetyInv
  <2>1. LockInv
    BY DEF Init, LockInv, Holding, Executing
  <2>2. CliInv
    BY DEF Init, CliInv, Processes
  <2> QED BY <2>1, <2>2, TypeInit DEF SafetyInv
<1>2. \A S : "absent" \notin S => AtPc(S) = {}
  BY DEF Init, AtPc
<1>3. ControlCountsTurns
  <2>1. "absent" \notin InControl
    BY DEF InControl, Waiting, Executing
  <2>2. \A i \in Identities : TurnsOf(i) \cap AtPc(InControl) = {} /\ control[i].active = 0
    BY <1>2, <2>1 DEF Init, NoEntry
  <2> QED BY <2>2, FS_EmptySet DEF ControlCountsTurns
<1>4. DoomInv
  BY DEF Init, DoomInv, DoomOf, Waiting
<1>5. ClosedInv
  BY DEF Init, ClosedInv
<1>6. PidsAreOurs
  BY DEF Init, PidsAreOurs
<1>7. BoardFollowsRuns
  <2>1. "absent" \notin OnBoard
    BY DEF OnBoard
  <2>2. \A i \in Identities : TurnsOf(i) \cap AtPc(OnBoard) = {}
                              /\ lastEnd[i] = "none"
    BY <1>2, <2>1 DEF Init
  <2> QED BY <2>2 DEF BoardFollowsRuns
<1>8. WindowInv
  <2>1. "absent" \notin InWindow
    BY DEF InWindow
  <2>2. \A d \in Dirs : InFolder(d) = {} /\ workdir[d].active = 0
    BY <1>2, <2>1 DEF Init, InFolder, NoEntry
  <2>3. FolderCounts
    BY <2>2, FS_EmptySet DEF FolderCounts
  <2>4. \A t \in Turns : WindowOf(t)
    BY <2>1 DEF Init, WindowOf, BeforeWindow
  <2> QED BY <2>3, <2>4 DEF WindowInv
<1>9. EventsInv
  <2>1. ChannelInv
    BY DEF Init, ChannelInv, ChannelOf
  <2>2. \A i \in Identities : EventsOf(i)
    BY DEF Init, EventsOf, CardAgrees, TurnAgrees, AfterRun, TurnsOf
  <2> QED BY <2>1, <2>2 DEF EventsInv
<1>10. EndInv
  BY DEF Init, EndInv, EndOf, OnBoard
<1> QED BY <1>1, <1>3, <1>4, <1>5, <1>6, <1>7, <1>8, <1>9, <1>10 DEF RuntimeInv

LEMMA RuntimeStep == RuntimeInv /\ [Next]_vars => RuntimeInv'
BY TypeStep, LockStep, CliStep, CountStep, DoomStep, ClosedStep, PidsStep, BoardStep,
   WindowStep, EventsStep, EndStep DEF RuntimeInv, SafetyInv, EventsInv

LEMMA RuntimeCorrect == Spec => []RuntimeInv
BY RuntimeInit, RuntimeStep, PTL DEF Spec

(* active_or_queued counts the registered turns of the conversation, so the  *)
(* entry of SessionControl is there as long as a turn that could find itself *)
(* stale in it waits or runs.                                                *)
THEOREM ControlCorrect == Spec => []ControlCountsTurns
<1>1. RuntimeInv => ControlCountsTurns
  BY DEF RuntimeInv
<1> QED BY <1>1, RuntimeCorrect, PTL

(* A turn that a stop overtook while it waited never runs a CLI: it is stale *)
(* when it gets the lock, although the generations of SessionControl start   *)
(* over whenever a conversation falls idle.                                  *)
THEOREM StopCorrect == Spec => []StoppedTurnNeverRuns
<1>1. RuntimeInv => StoppedTurnNeverRuns
  BY DEF RuntimeInv, SafetyInv, DoomInv, DoomOf, CliInv, StoppedTurnNeverRuns
<1> QED BY <1>1, RuntimeCorrect, PTL

(* A pid in the session pid map is the pid of a turn that is monitored under *)
(* that very key, so a stop kills for no other conversation.                 *)
THEOREM PidsCorrect == Spec => []PidsAreOurs
<1>1. RuntimeInv => PidsAreOurs
  BY DEF RuntimeInv
<1> QED BY <1>1, RuntimeCorrect, PTL

(* The card of a conversation says "running" while a turn of it is on the    *)
(* board; when none is, it says how the last CLI ended: what a CLI's end     *)
(* leaves in its channel is what the turn settles its card with, and the     *)
(* turn lock keeps any other turn's flip from coming between.                *)
THEOREM BoardCorrect == Spec => []BoardFollowsRuns
<1>1. RuntimeInv => BoardFollowsRuns
  BY DEF RuntimeInv
<1> QED BY <1>1, RuntimeCorrect, PTL

(* WorkdirActivity::finish answers true exactly for the runs that shared     *)
(* their directory with another at some time of their window.                *)
THEOREM OverlapCorrect == Spec => []OverlapIsExact
<1>1. RuntimeInv => OverlapIsExact
  BY DEF RuntimeInv, WindowInv, WindowOf, OverlapIsExact, AtPc
<1> QED BY <1>1, RuntimeCorrect, PTL

(* The status events of a conversation that nobody stopped end with the      *)
(* status its card ends with, although the runner sends the ones and the     *)
(* turn's task writes the other.                                             *)
THEOREM EventsCorrect == Spec => []BoardAgreesWithEvents
<1>1. ASSUME RuntimeInv PROVE BoardAgreesWithEvents
  <2> SUFFICES ASSUME NEW i \in Identities,
                      \A c \in Stops : TargetOf[c] = i => stopPc[c] \in {"idle", "refused"},
                      \A t \in TurnsOf(i) : pc[t] \in {"absent", "done"},
                      NEW u \in TurnsOf(i), pc[u] = "done"
               PROVE  uiStatus[i] = IF board[i] = "error" THEN "error" ELSE "completed"
    BY DEF BoardAgreesWithEvents
  <2>1. Undisturbed(i)
    BY DEF Undisturbed, Heeded
  <2>2. CardAgrees(i) /\ TurnAgrees(u)
    BY <1>1, <2>1 DEF RuntimeInv, EventsInv, EventsOf
  <2>3. TurnsOf(i) \cap AtPc(OnBoard) = {} /\ driver[u] = "closed"
    BY <2>2 DEF AtPc, OnBoard, TurnAgrees, AfterRun
  <2> QED BY <2>2, <2>3 DEF CardAgrees
<1> QED BY <1>1, RuntimeCorrect, PTL

(* The runtime implements the queue of messages that sessions::start         *)
(* promises: no message is lost, none is dropped that no stop overtook, and  *)
(* the messages of a conversation run one at a time.                         *)
THEOREM QueueRefinement == Spec => ImplementsTurnQueue
<1>1. RuntimeInv /\ [Next]_vars => [Queue!QueueNext]_(Queue!queueVars)
  BY QueueStep DEF RuntimeInv, SafetyInv
<1> QED BY <1>1, QueueStart, RuntimeCorrect, PTL DEF Spec, ImplementsTurnQueue, Queue!QueueSpec
=============================================================================
