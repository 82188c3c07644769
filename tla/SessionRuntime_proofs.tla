----------------------- MODULE SessionRuntime_proofs -----------------------
(***************************************************************************)
(* Proofs about SessionRuntime, for every set of turns, stops,             *)
(* conversations and directories.                                          *)
(***************************************************************************)
EXTENDS SessionRuntime, FiniteSetTheorems, SequenceTheorems, TLAPS

LEMMA ActionsOfNext ==
  ASSUME Next
  PROVE  \/ \E t \in Turns :
              \/ Start(t) \/ Enqueue(t) \/ CannotCreateAgentDir(t) \/ SkipStale(t)
              \/ Proceed(t) \/ SeedFails(t) \/ RegisterWorkdir(t) \/ MarkRunning(t)
              \/ FinishWorkdir(t) \/ Settle(t) \/ Finish(t) \/ Release(t)
              \/ ReportFailure(t) \/ Launch(t) \/ LaunchFails(t) \/ Exit(t)
              \/ RetryFresh(t) \/ HandleUpdate(t) \/ RunnerEnds(t)
         \/ \E c \in Stops : Cancel(c) \/ TakePid(c) \/ ConfirmDead(c) \/ ReportStop(c)
BY DEF Next, TurnStep, DriverStep, RunnerStep, StopStep

(* What a driver sends is a sequence of updates of the runner's channel. *)
LEMMA SendTypes ==
  ASSUME NEW t \in Turns, NEW kinds \in Seq(UpdateKind),
         updates \in [Turns -> Seq(Update)], attempt'[t] \in Attempts, Send(t, kinds)
  PROVE  updates' \in [Turns -> Seq(Update)]
<1> DEFINE sent == [k \in DOMAIN kinds |-> [kind |-> kinds[k], attempt |-> attempt'[t]]]
<1>1. \A k \in DOMAIN kinds : kinds[k] \in UpdateKind
  OBVIOUS
<1>2. DOMAIN kinds = 1..Len(kinds) /\ Len(kinds) \in Nat
  OBVIOUS
<1>3. sent \in [1..Len(kinds) -> Update]
  BY <1>1, <1>2 DEF Update
<1>4. sent \in Seq(Update)
  BY <1>2, <1>3
<1>5. updates[t] \o sent \in Seq(Update)
  BY <1>4
<1>6. updates' = [updates EXCEPT ![t] = @ \o sent]
  BY DEF Send
<1> QED BY <1>5, <1>6

(***************************************************************************)
(* The CLI runs only while its turn is monitored, one attempt at a time.   *)
(* TypeOK needs it: it bounds the attempts.                                *)
(***************************************************************************)
Unstarted == {"absent", "spawned", "queued", "seeding", "registered", "failed", "aborted"}

CliInv ==
  \A t \in Turns :
    /\ driver[t] = "off" => attempt[t] = 0
    /\ driver[t] = "launching" => attempt[t] \in 0..1
    /\ driver[t] \in {"watching", "closed"} => attempt[t] \in 1..2
    /\ pc[t] \in Unstarted => driver[t] = "off"
    /\ driver[t] \in {"launching", "watching"} => pc[t] = "monitoring"
    /\ \A n \in Attempts : proc[<<t, n>>] = "alive" => driver[t] = "watching" /\ n = attempt[t]

LEMMA TypeInit == Init => TypeOK
<1> SUFFICES ASSUME Init PROVE TypeOK
  OBVIOUS
<1>1. RuntimeTypeOK
  BY RuntimeAssumption DEF Init, RuntimeTypeOK, NoEntry
<1>2. TurnTypeOK
  BY DEF Init, TurnTypeOK, TurnPc
<1>3. CliTypeOK /\ StopTypeOK /\ HistoryTypeOK
  BY DEF Init, CliTypeOK, StopTypeOK, HistoryTypeOK
<1> QED BY <1>1, <1>2, <1>3 DEF TypeOK

(***************************************************************************)
(* What the maps' operations make of their types.                          *)
(***************************************************************************)
Entry       == [generation : Nat, active : Nat]
ControlType == [Identities -> Entry]

LEMMA ControlTypes ==
  ASSUME NEW i \in Identities, control \in ControlType,
         ControlRegister(i) \/ ControlFinish(i) \/ ControlCancel(i)
  PROVE  control' \in ControlType
<1>1. control[i] \in Entry
  BY DEF ControlType
<1>2. /\ [control[i] EXCEPT !.active = control[i].active + 1] \in Entry
      /\ [control[i] EXCEPT !.generation = control[i].generation + 1] \in Entry
      /\ NoEntry \in Entry
  BY <1>1 DEF Entry, NoEntry
<1>3. control[i].active > 1 => [control[i] EXCEPT !.active = control[i].active - 1] \in Entry
  BY <1>1 DEF Entry
<1>4. \A e \in Entry : [control EXCEPT ![i] = e] \in ControlType
  BY DEF ControlType
<1>5. control[i].active > 1 => [control EXCEPT ![i].active = @ - 1] \in ControlType
  BY <1>1, <1>3, <1>4
<1> QED BY <1>1, <1>2, <1>4, <1>5 DEF ControlRegister, ControlFinish, ControlCancel, ControlType

LEMMA WorkdirTypes ==
  ASSUME NEW t \in Turns, RuntimeTypeOK, TurnTypeOK
  PROVE  /\ WorkdirRegister(t) => /\ workdir' \in [Dirs -> Entry]
                                  /\ registration' \in [Turns -> [generation : Nat, overlap : BOOLEAN]]
         /\ WorkdirFinish(t) => /\ workdir' \in [Dirs -> Entry]
                                /\ overlapped' \in [Turns -> BOOLEAN]
<1> DEFINE d == DirOf[t]
           overlap == workdir[d].active > 0
           g == IF overlap THEN workdir[d].generation + 1 ELSE workdir[d].generation
<1>1. d \in Dirs /\ workdir[d] \in Entry /\ workdir \in [Dirs -> Entry]
  BY RuntimeAssumption DEF RuntimeTypeOK, Entry
<1>2. \A e \in Entry : [workdir EXCEPT ![d] = e] \in [Dirs -> Entry]
  BY <1>1
<1>3. NoEntry \in Entry
  BY DEF NoEntry, Entry
<1>4. workdir[d].active > 1 => [workdir[d] EXCEPT !.active = workdir[d].active - 1] \in Entry
  BY <1>1 DEF Entry
<1>5. g \in Nat /\ overlap \in BOOLEAN /\ workdir[d].active + 1 \in Nat
  BY <1>1 DEF Entry
<1>6. ASSUME WorkdirRegister(t)
      PROVE  /\ workdir' = [workdir EXCEPT ![d] = [generation |-> g, active |-> workdir[d].active + 1]]
             /\ registration' = [registration EXCEPT ![t] = [generation |-> g, overlap |-> overlap]]
  BY <1>6 DEF WorkdirRegister
<1> HIDE DEF overlap, g
<1>7. [generation |-> g, active |-> workdir[d].active + 1] \in Entry
  BY <1>5 DEF Entry
<1>8. [generation |-> g, overlap |-> overlap] \in [generation : Nat, overlap : BOOLEAN]
  BY <1>5
<1>9. WorkdirRegister(t) => /\ workdir' \in [Dirs -> Entry]
                            /\ registration' \in [Turns -> [generation : Nat, overlap : BOOLEAN]]
  BY <1>2, <1>6, <1>7, <1>8 DEF TurnTypeOK
<1>10. WorkdirFinish(t) => workdir' \in [Dirs -> Entry]
  BY <1>2, <1>3, <1>4 DEF WorkdirFinish
<1>11. WorkdirFinish(t) => overlapped' \in [Turns -> BOOLEAN]
  BY DEF WorkdirFinish, TurnTypeOK
<1> QED BY <1>9, <1>10, <1>11

LEMMA GuardTypes ==
  ASSUME NEW t \in Turns, turnQueue \in [Identities -> Seq(Turns)], HoldsLock(t), DropTurnGuard(t)
  PROVE  turnQueue' \in [Identities -> Seq(Turns)]
<1>1. IdentityOf[t] \in Identities
  BY RuntimeAssumption
<1>2. Tail(turnQueue[IdentityOf[t]]) \in Seq(Turns)
  BY <1>1 DEF HoldsLock
<1> QED BY <1>1, <1>2 DEF DropTurnGuard

(***************************************************************************)
(* The lock discipline: whoever is past the lock heads its queue.          *)
(***************************************************************************)
LockInv == \A t \in Turns : pc[t] \in Holding => HoldsLock(t)

(***************************************************************************)
(* Types, one group of variables at a time.  An action that a group's      *)
(* lemma does not list leaves the group alone.                             *)
(***************************************************************************)
LEMMA TurnTypeStep ==
  ASSUME TypeOK, Next
  PROVE  TurnTypeOK'
<1>1. ASSUME NEW t \in Turns, NEW S \in SUBSET TurnPc, NEW x \in S,
             pc' = [pc EXCEPT ![t] = x],
             UNCHANGED <<generation, registration, overlapped, resumed, failed>>
      PROVE  TurnTypeOK'
  BY <1>1 DEF TypeOK, TurnTypeOK
<1>2. ASSUME UNCHANGED turnVars PROVE TurnTypeOK'
  BY <1>2 DEF TypeOK, TurnTypeOK, turnVars
<1>3. ASSUME NEW t \in Turns,
             \/ Enqueue(t) \/ CannotCreateAgentDir(t) \/ SkipStale(t) \/ Proceed(t)
             \/ SeedFails(t) \/ Settle(t) \/ Finish(t) \/ Release(t)
             \/ ReportFailure(t) \/ RunnerEnds(t)
      PROVE  TurnTypeOK'
  <2>1. \E x \in TurnPc : pc' = [pc EXCEPT ![t] = x]
    BY <1>3 DEF Enqueue, CannotCreateAgentDir, SkipStale, Proceed, SeedFails, Settle,
                Finish, Release, ReportFailure, RunnerEnds,
                TurnPc, InControl, Waiting, Executing
  <2>2. UNCHANGED <<generation, registration, overlapped, resumed, failed>>
    BY <1>3 DEF Enqueue, CannotCreateAgentDir, SkipStale, Proceed, SeedFails, Settle,
                Finish, Release, ReportFailure, RunnerEnds
  <2> QED BY <1>1, <2>1, <2>2
<1>4. ASSUME NEW t \in Turns, Start(t) PROVE TurnTypeOK'
  <2>1. IdentityOf[t] \in Identities /\ control[IdentityOf[t]].generation \in Nat
    BY RuntimeAssumption DEF TypeOK, RuntimeTypeOK
  <2> QED BY <1>4, <2>1 DEF Start, TypeOK, TurnTypeOK, TurnPc, InControl, Waiting
<1>5. ASSUME NEW t \in Turns, RegisterWorkdir(t) PROVE TurnTypeOK'
  <2>1. registration' \in [Turns -> [generation : Nat, overlap : BOOLEAN]]
    BY <1>5, WorkdirTypes DEF RegisterWorkdir, TypeOK
  <2> QED BY <1>5, <2>1 DEF RegisterWorkdir, TypeOK, TurnTypeOK, TurnPc, InControl, Executing
<1>6. ASSUME NEW t \in Turns, MarkRunning(t) PROVE TurnTypeOK'
  <2>1. resume[IdentityOf[t]] \in BOOLEAN
    BY RuntimeAssumption DEF TypeOK, RuntimeTypeOK
  <2> QED BY <1>6, <2>1 DEF MarkRunning, TypeOK, TurnTypeOK, TurnPc, InControl, Executing
<1>7. ASSUME NEW t \in Turns, FinishWorkdir(t) PROVE TurnTypeOK'
  <2>1. overlapped' \in [Turns -> BOOLEAN]
    BY <1>7, WorkdirTypes DEF FinishWorkdir, TypeOK
  <2> QED BY <1>7, <2>1 DEF FinishWorkdir, TypeOK, TurnTypeOK, TurnPc, InControl, Executing
<1>8. ASSUME NEW t \in Turns, HandleUpdate(t) PROVE TurnTypeOK'
  <2>1. failed' \in [Turns -> BOOLEAN]
    BY <1>8 DEF HandleUpdate, IsFailure, TypeOK, TurnTypeOK
  <2> QED BY <1>8, <2>1 DEF HandleUpdate, TypeOK, TurnTypeOK
<1>9. ASSUME NEW t \in Turns, Launch(t) \/ LaunchFails(t) \/ Exit(t) \/ RetryFresh(t)
      PROVE  UNCHANGED turnVars
  BY <1>9 DEF Launch, LaunchFails, Exit, RetryFresh
<1>10. ASSUME NEW c \in Stops, Cancel(c) \/ TakePid(c) \/ ConfirmDead(c) \/ ReportStop(c)
       PROVE  UNCHANGED turnVars
  BY <1>10 DEF Cancel, TakePid, ConfirmDead, ReportStop
<1> QED BY ActionsOfNext, <1>2, <1>3, <1>4, <1>5, <1>6, <1>7, <1>8, <1>9, <1>10

LEMMA HistoryTypeStep ==
  ASSUME TypeOK, Next
  PROVE  HistoryTypeOK'
<1>1. ASSUME UNCHANGED historyVars PROVE HistoryTypeOK'
  BY <1>1 DEF TypeOK, HistoryTypeOK, historyVars
<1>2. ASSUME NEW t \in Turns,
             \/ Enqueue(t) \/ CannotCreateAgentDir(t) \/ SkipStale(t) \/ Proceed(t)
             \/ SeedFails(t) \/ MarkRunning(t) \/ FinishWorkdir(t) \/ Settle(t)
             \/ Finish(t) \/ Release(t) \/ ReportFailure(t) \/ Launch(t)
             \/ RetryFresh(t) \/ HandleUpdate(t) \/ RunnerEnds(t)
      PROVE  UNCHANGED historyVars
  BY <1>2 DEF Enqueue, CannotCreateAgentDir, SkipStale, Proceed, SeedFails, MarkRunning,
              FinishWorkdir, Settle, Finish, Release, ReportFailure, Launch, RetryFresh, HandleUpdate, RunnerEnds
<1>3. ASSUME NEW t \in Turns, Start(t) PROVE UNCHANGED historyVars
  BY <1>3 DEF Start
<1>4. ASSUME NEW t \in Turns, RegisterWorkdir(t) PROVE HistoryTypeOK'
  <2>1. shared' \in [Turns -> BOOLEAN]
    BY <1>4 DEF RegisterWorkdir, TypeOK, HistoryTypeOK
  <2> QED BY <1>4, <2>1 DEF RegisterWorkdir, TypeOK, HistoryTypeOK
<1>5. ASSUME NEW c \in Stops, Cancel(c) PROVE HistoryTypeOK'
  <2>1. stopped' \in [Turns -> BOOLEAN]
    BY <1>5 DEF Cancel, TypeOK, HistoryTypeOK
  <2>2. TurnsOf(TargetOf[c]) \cap AtPc(InControl) \subseteq Turns
    BY DEF TurnsOf, AtPc
  <2> QED BY <1>5, <2>1, <2>2 DEF Cancel, TypeOK, HistoryTypeOK
<1>6. ASSUME NEW c \in Stops, TakePid(c) \/ ConfirmDead(c) \/ ReportStop(c)
      PROVE  UNCHANGED historyVars
  BY <1>6 DEF TakePid, ConfirmDead, ReportStop, historyVars
<1>7. ASSUME NEW t \in Turns, LaunchFails(t) \/ Exit(t) PROVE HistoryTypeOK'
  <2>1. UNCHANGED <<stopped, shared, covered>>
    BY <1>7 DEF LaunchFails, Exit
  <2>2. \E status \in {"completed", "error"} : lastEnd' = [lastEnd EXCEPT ![IdentityOf[t]] = status]
    BY <1>7 DEF LaunchFails, Exit
  <2>3. lastEnd' \in [Identities -> {"none", "completed", "error"}]
    BY <2>2 DEF TypeOK, HistoryTypeOK
  <2> QED BY <2>1, <2>3 DEF TypeOK, HistoryTypeOK
<1> QED BY ActionsOfNext, <1>1, <1>2, <1>3, <1>4, <1>5, <1>6, <1>7

LEMMA StopTypeStep ==
  ASSUME TypeOK, Next
  PROVE  StopTypeOK'
<1>1. ASSUME UNCHANGED stopVars PROVE StopTypeOK'
  BY <1>1 DEF TypeOK, StopTypeOK, stopVars
<1>2. ASSUME NEW t \in Turns,
             \/ Start(t) \/ Enqueue(t) \/ CannotCreateAgentDir(t) \/ SkipStale(t)
             \/ Proceed(t) \/ SeedFails(t) \/ RegisterWorkdir(t) \/ MarkRunning(t)
             \/ FinishWorkdir(t) \/ Settle(t) \/ Finish(t) \/ Release(t)
             \/ ReportFailure(t) \/ Launch(t) \/ LaunchFails(t) \/ Exit(t)
             \/ RetryFresh(t) \/ HandleUpdate(t) \/ RunnerEnds(t)
      PROVE  UNCHANGED stopVars
  BY <1>2 DEF Start, Enqueue, CannotCreateAgentDir, SkipStale, Proceed, SeedFails,
              RegisterWorkdir, MarkRunning, FinishWorkdir, Settle, Finish, Release,
              ReportFailure, Launch, LaunchFails, Exit, RetryFresh, HandleUpdate, RunnerEnds
<1>3. ASSUME NEW c \in Stops, Cancel(c) PROVE StopTypeOK'
  BY <1>3 DEF Cancel, TypeOK, StopTypeOK
<1>4. ASSUME NEW c \in Stops, TakePid(c) PROVE StopTypeOK'
  <2>1. KeyOf[TargetOf[c]] \in Keys
    BY RuntimeAssumption
  <2>2. pidMap[KeyOf[TargetOf[c]]] \in Processes \cup {NoProcess}
    BY <2>1 DEF TypeOK, RuntimeTypeOK
  <2> QED BY <1>4, <2>2 DEF TakePid, TypeOK, StopTypeOK
<1>5. ASSUME NEW c \in Stops, ConfirmDead(c) \/ ReportStop(c) PROVE StopTypeOK'
  BY <1>5 DEF ConfirmDead, ReportStop, TypeOK, StopTypeOK
<1> QED BY ActionsOfNext, <1>1, <1>2, <1>3, <1>4, <1>5

LEMMA RuntimeTypeStep ==
  ASSUME TypeOK, LockInv, Next
  PROVE  RuntimeTypeOK'
<1> USE DEF TypeOK
<1>1. ASSUME UNCHANGED runtimeVars PROVE RuntimeTypeOK'
  BY <1>1 DEF RuntimeTypeOK, runtimeVars
<1>2. ASSUME NEW t \in Turns,
             \/ CannotCreateAgentDir(t) \/ SkipStale(t) \/ Proceed(t)
             \/ Launch(t) \/ LaunchFails(t) \/ Exit(t) \/ RetryFresh(t)
      PROVE  UNCHANGED runtimeVars
  BY <1>2 DEF CannotCreateAgentDir, SkipStale, Proceed, Launch, LaunchFails, Exit, RetryFresh
<1>3. \A t \in Turns : IdentityOf[t] \in Identities /\ KeyOf[IdentityOf[t]] \in Keys
  BY RuntimeAssumption
<1>4. \A c \in Stops : TargetOf[c] \in Identities /\ KeyOf[TargetOf[c]] \in Keys
  BY RuntimeAssumption
<1>5. control \in ControlType
  BY DEF ControlType, Entry, RuntimeTypeOK
<1>6. ASSUME NEW t \in Turns, Start(t) \/ Finish(t) PROVE RuntimeTypeOK'
  <2>1. control' \in ControlType
    BY <1>3, <1>5, <1>6, ControlTypes DEF Start, Finish
  <2> QED BY <1>6, <2>1 DEF Start, Finish, RuntimeTypeOK, ControlType, Entry
<1>7. ASSUME NEW t \in Turns, ReportFailure(t) PROVE RuntimeTypeOK'
  <2>1. control' \in ControlType
    BY <1>3, <1>5, <1>7, ControlTypes DEF ReportFailure
  <2> QED BY <1>7, <2>1 DEF ReportFailure, RuntimeTypeOK, ControlType, Entry
<1>8. ASSUME NEW t \in Turns, Enqueue(t) PROVE RuntimeTypeOK'
  <2>1. Append(turnQueue[IdentityOf[t]], t) \in Seq(Turns)
    BY <1>3 DEF RuntimeTypeOK
  <2> QED BY <1>8, <2>1 DEF Enqueue, RuntimeTypeOK
<1>9. ASSUME NEW t \in Turns, SeedFails(t) \/ Release(t) PROVE RuntimeTypeOK'
  <2>1. HoldsLock(t) /\ DropTurnGuard(t)
    BY <1>9 DEF SeedFails, Release, LockInv, Holding, Executing
  <2>2. turnQueue' \in [Identities -> Seq(Turns)]
    BY <2>1, GuardTypes DEF RuntimeTypeOK
  <2> QED BY <1>9, <2>2 DEF SeedFails, Release, RuntimeTypeOK
<1>10. ASSUME NEW t \in Turns, RegisterWorkdir(t) \/ FinishWorkdir(t) PROVE RuntimeTypeOK'
  <2>1. workdir' \in [Dirs -> Entry]
    BY <1>10, WorkdirTypes DEF RegisterWorkdir, FinishWorkdir
  <2> QED BY <1>10, <2>1 DEF RegisterWorkdir, FinishWorkdir, RuntimeTypeOK, Entry
<1>11. ASSUME NEW t \in Turns, MarkRunning(t) \/ Settle(t) PROVE RuntimeTypeOK'
  BY <1>11 DEF MarkRunning, Settle, CardAfter, RuntimeTypeOK
<1>12. ASSUME NEW t \in Turns, CliTypeOK, HandleUpdate(t) PROVE RuntimeTypeOK'
  <2> DEFINE u == Head(updates[t])
  <2>1. u \in Update
    BY <1>12 DEF HandleUpdate, CliTypeOK
  <2>2. <<t, u.attempt>> \in Processes
    BY <2>1 DEF Update, Processes
  <2>3. pidMap' \in [Keys -> Processes \cup {NoProcess}]
    BY <1>12, <2>2 DEF HandleUpdate, RuntimeTypeOK
  <2>4. resume' \in [Identities -> BOOLEAN]
    BY <1>12 DEF HandleUpdate, RuntimeTypeOK
  <2>5. uiStatus' \in [Identities -> {"none", "starting", "running", "completed", "error"}]
    BY <1>12 DEF HandleUpdate, RuntimeTypeOK
  <2> QED BY <1>12, <2>3, <2>4, <2>5 DEF HandleUpdate, RuntimeTypeOK
<1>13. ASSUME NEW t \in Turns, RunnerEnds(t) PROVE RuntimeTypeOK'
  BY <1>13 DEF RunnerEnds, ForgetPid, RuntimeTypeOK
<1>14. ASSUME NEW c \in Stops, Cancel(c) PROVE RuntimeTypeOK'
  <2>1. control' \in ControlType
    BY <1>4, <1>5, <1>14, ControlTypes DEF Cancel
  <2> QED BY <1>14, <2>1 DEF Cancel, RuntimeTypeOK, ControlType, Entry
<1>15. ASSUME NEW c \in Stops, TakePid(c) \/ ReportStop(c) PROVE RuntimeTypeOK'
  BY <1>15 DEF TakePid, ForgetPid, ReportStop, RuntimeTypeOK
<1>16. ASSUME NEW c \in Stops, ConfirmDead(c) PROVE UNCHANGED runtimeVars
  BY <1>16 DEF ConfirmDead
<1> QED BY ActionsOfNext, <1>1, <1>2, <1>6, <1>7, <1>8, <1>9, <1>10, <1>11, <1>12, <1>13,
           <1>14, <1>15, <1>16

LEMMA CliTypeStep ==
  ASSUME TypeOK, CliInv, Next
  PROVE  CliTypeOK'
<1>1. ASSUME UNCHANGED cliVars PROVE CliTypeOK'
  BY <1>1 DEF TypeOK, CliTypeOK, cliVars
<1>2. ASSUME NEW t \in Turns,
             \/ Start(t) \/ Enqueue(t) \/ CannotCreateAgentDir(t) \/ SkipStale(t)
             \/ Proceed(t) \/ SeedFails(t) \/ RegisterWorkdir(t)
             \/ FinishWorkdir(t) \/ Settle(t) \/ Finish(t) \/ Release(t)
             \/ ReportFailure(t) \/ RunnerEnds(t)
      PROVE  UNCHANGED cliVars
  BY <1>2 DEF Start, Enqueue, CannotCreateAgentDir, SkipStale, Proceed, SeedFails,
              RegisterWorkdir, FinishWorkdir, Settle, Finish, Release, ReportFailure, RunnerEnds
<1>3. ASSUME NEW c \in Stops, Cancel(c) \/ TakePid(c) \/ ConfirmDead(c) \/ ReportStop(c)
      PROVE  UNCHANGED cliVars
  BY <1>3 DEF Cancel, TakePid, ConfirmDead, ReportStop
<1>4. ASSUME NEW t \in Turns, MarkRunning(t) PROVE CliTypeOK'
  BY <1>4 DEF MarkRunning, TypeOK, CliTypeOK
<1>5. ASSUME NEW t \in Turns, NEW kinds \in Seq(UpdateKind),
             attempt'[t] \in Attempts, Send(t, kinds)
      PROVE  updates' \in [Turns -> Seq(Update)]
  BY <1>5, SendTypes DEF TypeOK, CliTypeOK
<1>6. ASSUME NEW t \in Turns, Launch(t) \/ LaunchFails(t) PROVE CliTypeOK'
  <2>1. attempt[t] \in 0..1
    BY <1>6 DEF Launch, LaunchFails, CliInv
  <2>2. attempt' \in [Turns -> 0..2] /\ attempt'[t] \in Attempts
    <3>1. attempt[t] + 1 \in 1..2
      BY <2>1
    <3>2. attempt' = [attempt EXCEPT ![t] = attempt[t] + 1] /\ attempt \in [Turns -> 0..2]
      BY <1>6 DEF Launch, LaunchFails, TypeOK, CliTypeOK
    <3>3. attempt[t] + 1 \in 0..2
      BY <3>1
    <3> QED BY <3>1, <3>2, <3>3 DEF Attempts
  <2>3. Prelude(t) \o <<"pid", "running">> \in Seq(UpdateKind)
        /\ Prelude(t) \o <<"error">> \in Seq(UpdateKind)
    <3>1. <<>> \in Seq(UpdateKind) /\ <<"starting">> \in Seq(UpdateKind)
      BY DEF UpdateKind
    <3>2. <<"pid", "running">> \in Seq(UpdateKind) /\ <<"error">> \in Seq(UpdateKind)
      BY DEF UpdateKind
    <3>3. Prelude(t) = <<>> \/ Prelude(t) = <<"starting">>
      BY DEF Prelude
    <3>4. \A a, b \in Seq(UpdateKind) : a \o b \in Seq(UpdateKind)
      OBVIOUS
    <3> QED BY <3>1, <3>2, <3>3, <3>4
  <2>4. updates' \in [Turns -> Seq(Update)]
    BY <1>5, <1>6, <2>2, <2>3 DEF Launch, LaunchFails
  <2> QED BY <1>6, <2>2, <2>4 DEF Launch, LaunchFails, TypeOK, CliTypeOK
<1>7. ASSUME NEW t \in Turns, Exit(t) \/ RetryFresh(t) PROVE CliTypeOK'
  <2>1. attempt' = attempt /\ attempt[t] \in Attempts
    BY <1>7 DEF Exit, RetryFresh, CliInv, Attempts
  <2>2. PICK kinds \in Seq(UpdateKind) : Send(t, kinds)
    <3>1. \A status \in {"completed", "error"} :
            /\ <<status>> \in Seq(UpdateKind)
            /\ <<"sid", status>> \in Seq(UpdateKind)
            /\ <<status, "sid">> \in Seq(UpdateKind)
      BY DEF UpdateKind
    <3>2. <<"resume_invalid">> \in Seq(UpdateKind)
      BY DEF UpdateKind
    <3> QED BY <1>7, <3>1, <3>2 DEF Exit, RetryFresh
  <2>3. updates' \in [Turns -> Seq(Update)]
    BY <1>5, <2>1, <2>2
  <2> QED BY <1>7, <2>1, <2>3 DEF Exit, RetryFresh, Reap, TypeOK, CliTypeOK
<1>8. ASSUME NEW t \in Turns, HandleUpdate(t) PROVE CliTypeOK'
  <2>1. Tail(updates[t]) \in Seq(Update)
    BY <1>8 DEF HandleUpdate, TypeOK, CliTypeOK
  <2> QED BY <1>8, <2>1 DEF HandleUpdate, TypeOK, CliTypeOK
<1> QED BY ActionsOfNext, <1>1, <1>2, <1>3, <1>4, <1>6, <1>7, <1>8

LEMMA TypeStep ==
  ASSUME TypeOK, CliInv, LockInv, [Next]_vars
  PROVE  TypeOK'
<1>1. CASE Next
  BY <1>1, RuntimeTypeStep, TurnTypeStep, CliTypeStep, StopTypeStep, HistoryTypeStep DEF TypeOK
<1>2. CASE UNCHANGED vars
  BY <1>2 DEF vars, runtimeVars, turnVars, cliVars, stopVars, historyVars, TypeOK,
              RuntimeTypeOK, TurnTypeOK, CliTypeOK, StopTypeOK, HistoryTypeOK
<1> QED BY <1>1, <1>2

(***************************************************************************)
(* The lock queue of a conversation and the places that hold the lock.     *)
(***************************************************************************)
LEMMA LockStep ==
  ASSUME TypeOK, LockInv, [Next]_vars
  PROVE  LockInv'
<1>0. turnQueue \in [Identities -> Seq(Turns)] /\ pc \in [Turns -> TurnPc]
      /\ \A t \in Turns : IdentityOf[t] \in Identities
  BY RuntimeAssumption DEF TypeOK, RuntimeTypeOK, TurnTypeOK
<1>1. ASSUME NEW u \in Turns, pc'[u] \in Holding,
             NEW t \in Turns, pc' = [pc EXCEPT ![t] = pc'[t]], turnQueue' = turnQueue,
             u = t => HoldsLock(t)
      PROVE  HoldsLock(u)'
  BY <1>0, <1>1 DEF LockInv, HoldsLock
<1>2. ASSUME NEW t \in Turns, SkipStale(t) \/ Proceed(t) PROVE LockInv'
  <2>1. turnQueue' = turnQueue /\ pc' = [pc EXCEPT ![t] = pc'[t]] /\ HoldsLock(t)
    BY <1>0, <1>2 DEF SkipStale, Proceed, runtimeVars
  <2> QED BY <1>1, <2>1 DEF LockInv
<1>3. ASSUME NEW t \in Turns,
             \/ RegisterWorkdir(t) \/ MarkRunning(t) \/ FinishWorkdir(t) \/ Settle(t)
             \/ Finish(t) \/ RunnerEnds(t)
      PROVE  LockInv'
  <2>1. pc[t] \in Holding /\ turnQueue' = turnQueue /\ pc' = [pc EXCEPT ![t] = pc'[t]]
    BY <1>0, <1>3 DEF RegisterWorkdir, MarkRunning, FinishWorkdir, Settle, Finish, RunnerEnds,
                      Holding, Executing
  <2> QED BY <1>1, <2>1 DEF LockInv
<1>4. ASSUME NEW t \in Turns, Start(t) \/ CannotCreateAgentDir(t) \/ ReportFailure(t)
      PROVE  LockInv'
  <2>1. /\ pc'[t] \notin Holding
        /\ turnQueue' = turnQueue
        /\ pc' = [pc EXCEPT ![t] = pc'[t]]
    BY <1>0, <1>4 DEF Start, CannotCreateAgentDir, ReportFailure, runtimeVars, Holding, Executing
  <2> QED BY <1>1, <2>1 DEF LockInv
<1>5. ASSUME NEW t \in Turns, Enqueue(t) PROVE LockInv'
  <2> SUFFICES ASSUME NEW u \in Turns, pc'[u] \in Holding PROVE HoldsLock(u)'
    BY DEF LockInv
  <2>1. u # t /\ pc[u] \in Holding
    BY <1>0, <1>5 DEF Enqueue, Holding, Executing
  <2>2. HoldsLock(u)
    BY <2>1 DEF LockInv
  <2> DEFINE i == IdentityOf[t]
  <2>3. turnQueue' = [turnQueue EXCEPT ![i] = Append(turnQueue[i], t)]
    BY <1>5 DEF Enqueue
  <2>4. CASE IdentityOf[u] = i
    <3>1. turnQueue'[i] = Append(turnQueue[i], t) /\ turnQueue[i] \in Seq(Turns)
      BY <1>0, <2>3
    <3> QED BY <2>2, <2>4, <3>1 DEF HoldsLock
  <2>5. CASE IdentityOf[u] # i
    BY <1>0, <2>2, <2>3, <2>5 DEF HoldsLock
  <2> QED BY <2>4, <2>5
<1>6. ASSUME NEW t \in Turns, SeedFails(t) \/ Release(t) PROVE LockInv'
  <2> SUFFICES ASSUME NEW u \in Turns, pc'[u] \in Holding PROVE HoldsLock(u)'
    BY DEF LockInv
  <2>1. u # t /\ pc[u] \in Holding /\ pc[t] \in Holding
    BY <1>0, <1>6 DEF SeedFails, Release, Holding, Executing
  <2>2. HoldsLock(u) /\ HoldsLock(t)
    BY <2>1 DEF LockInv
  <2>3. IdentityOf[u] # IdentityOf[t]
    BY <2>1, <2>2 DEF HoldsLock
  <2>4. turnQueue' = [turnQueue EXCEPT ![IdentityOf[t]] = Tail(turnQueue[IdentityOf[t]])]
    BY <1>6 DEF SeedFails, Release, DropTurnGuard
  <2> QED BY <1>0, <2>2, <2>3, <2>4 DEF HoldsLock
<1>7. ASSUME UNCHANGED <<pc, turnQueue>> PROVE LockInv'
  BY <1>7 DEF LockInv, HoldsLock
<1>8. ASSUME NEW t \in Turns,
             Launch(t) \/ LaunchFails(t) \/ Exit(t) \/ RetryFresh(t) \/ HandleUpdate(t)
      PROVE  UNCHANGED <<pc, turnQueue>>
  BY <1>8 DEF Launch, LaunchFails, Exit, RetryFresh, HandleUpdate, runtimeVars, turnVars
<1>9. ASSUME NEW c \in Stops, Cancel(c) \/ TakePid(c) \/ ConfirmDead(c) \/ ReportStop(c)
      PROVE  UNCHANGED <<pc, turnQueue>>
  BY <1>9 DEF Cancel, TakePid, ConfirmDead, ReportStop, runtimeVars, turnVars
<1>10. CASE UNCHANGED vars
  BY <1>7, <1>10 DEF vars, runtimeVars, turnVars
<1> QED BY ActionsOfNext, <1>2, <1>3, <1>4, <1>5, <1>6, <1>7, <1>8, <1>9, <1>10

(***************************************************************************)
(* One CLI at a time per turn.  It is enough to look at the turn that      *)
(* moves: no action touches the driver or the processes of another.        *)
(***************************************************************************)
CliOf(t) ==
  /\ driver[t] = "off" => attempt[t] = 0
  /\ driver[t] = "launching" => attempt[t] \in 0..1
  /\ driver[t] \in {"watching", "closed"} => attempt[t] \in 1..2
  /\ pc[t] \in Unstarted => driver[t] = "off"
  /\ driver[t] \in {"launching", "watching"} => pc[t] = "monitoring"
  /\ \A n \in Attempts : proc[<<t, n>>] = "alive" => driver[t] = "watching" /\ n = attempt[t]

LEMMA CliStep ==
  ASSUME TypeOK, CliInv, [Next]_vars
  PROVE  CliInv'
<1>0. /\ CliInv = \A t \in Turns : CliOf(t)
      /\ pc \in [Turns -> TurnPc]
      /\ CliTypeOK
  BY DEF CliInv, CliOf, TypeOK, TurnTypeOK
<1>1. ASSUME NEW t \in Turns,
             pc' = [pc EXCEPT ![t] = pc'[t]],
             driver' = [driver EXCEPT ![t] = driver'[t]],
             attempt' = [attempt EXCEPT ![t] = attempt'[t]],
             \A u \in Turns \ {t}, n \in Attempts : proc'[<<u, n>>] = proc[<<u, n>>],
             CliOf(t)'
      PROVE  CliInv'
  <2> SUFFICES ASSUME NEW u \in Turns, u # t PROVE CliOf(u)'
    BY <1>1 DEF CliInv, CliOf
  <2>1. /\ pc'[u] = pc[u] /\ driver'[u] = driver[u] /\ attempt'[u] = attempt[u]
        /\ \A n \in Attempts : proc'[<<u, n>>] = proc[<<u, n>>]
    BY <1>0, <1>1 DEF CliTypeOK
  <2> QED BY <1>0, <2>1 DEF CliOf
<1>2. ASSUME NEW t \in Turns,
             \/ Start(t) \/ Enqueue(t) \/ CannotCreateAgentDir(t) \/ SkipStale(t)
             \/ Proceed(t) \/ SeedFails(t) \/ RegisterWorkdir(t)
             \/ FinishWorkdir(t) \/ Settle(t) \/ Finish(t) \/ Release(t)
             \/ ReportFailure(t) \/ RunnerEnds(t)
      PROVE  CliInv'
  <2>1. UNCHANGED <<driver, attempt, proc>>
    BY <1>2 DEF Start, Enqueue, CannotCreateAgentDir, SkipStale, Proceed, SeedFails,
                RegisterWorkdir, FinishWorkdir, Settle, Finish, Release, ReportFailure,
                RunnerEnds, cliVars
  <2>2. pc' = [pc EXCEPT ![t] = pc'[t]]
    BY <1>0, <1>2 DEF Start, Enqueue, CannotCreateAgentDir, SkipStale, Proceed, SeedFails,
                RegisterWorkdir, FinishWorkdir, Settle, Finish, Release, ReportFailure, RunnerEnds
  <2>3. /\ pc'[t] \in Unstarted => pc[t] \in Unstarted
        /\ pc[t] = "monitoring" => driver[t] = "closed"
    BY <1>0, <1>2 DEF ChannelIsOver, Start, Enqueue, CannotCreateAgentDir, SkipStale, Proceed, SeedFails,
                RegisterWorkdir, FinishWorkdir, Settle, Finish, Release, ReportFailure, RunnerEnds,
                Unstarted
  <2>4. CliOf(t)'
    BY <1>0, <2>1, <2>3 DEF CliOf
  <2> QED BY <1>0, <1>1, <2>1, <2>2, <2>4 DEF CliTypeOK
<1>3. ASSUME NEW t \in Turns, MarkRunning(t) PROVE CliInv'
  <2>1. driver[t] = "off"
    BY <1>0, <1>3 DEF MarkRunning, CliOf, Unstarted
  <2>2. /\ pc'[t] = "monitoring" /\ driver'[t] = "launching" /\ attempt' = attempt /\ proc' = proc
        /\ attempt[t] = 0 /\ \A n \in Attempts : proc[<<t, n>>] # "alive"
    BY <1>0, <1>3, <2>1 DEF MarkRunning, CliOf, CliTypeOK
  <2>3. CliOf(t)'
    BY <2>2 DEF CliOf, Unstarted
  <2> QED BY <1>0, <1>1, <1>3, <2>3 DEF MarkRunning, CliTypeOK
<1>4. ASSUME NEW t \in Turns, Launch(t) \/ LaunchFails(t) PROVE CliInv'
  <2>1. /\ driver[t] = "launching" /\ attempt[t] \in 0..1 /\ pc[t] = "monitoring"
        /\ \A n \in Attempts : proc[<<t, n>>] # "alive"
    BY <1>0, <1>4 DEF Launch, LaunchFails, CliOf
  <2>2. /\ pc' = pc /\ attempt' = [attempt EXCEPT ![t] = attempt[t] + 1]
        /\ driver' = [driver EXCEPT ![t] = driver'[t]]
        /\ driver'[t] \in {"watching", "closed"}
        /\ \/ proc' = [proc EXCEPT ![<<t, attempt[t] + 1>>] = "alive"] /\ driver'[t] = "watching"
           \/ proc' = proc
    BY <1>0, <1>4 DEF Launch, LaunchFails, turnVars, CliTypeOK
  <2>3. attempt'[t] = attempt[t] + 1 /\ attempt'[t] \in 1..2
    BY <1>0, <2>1, <2>2 DEF CliTypeOK
  <2>4. \A n \in Attempts : proc'[<<t, n>>] = "alive" => driver'[t] = "watching" /\ n = attempt'[t]
    BY <1>0, <2>1, <2>2, <2>3 DEF CliTypeOK, Processes
  <2>5. /\ driver'[t] # "off" /\ driver'[t] # "launching" /\ pc'[t] \notin Unstarted
        /\ pc'[t] = "monitoring"
    BY <2>1, <2>2 DEF Unstarted
  <2>7. CliOf(t)'
    BY <2>3, <2>4, <2>5 DEF CliOf
  <2>6. \A u \in Turns \ {t}, n \in Attempts : proc'[<<u, n>>] = proc[<<u, n>>]
    BY <1>0, <2>2 DEF CliTypeOK, Processes
  <2> QED BY <1>0, <1>1, <2>2, <2>6, <2>7 DEF CliTypeOK
<1>5. ASSUME NEW t \in Turns, Exit(t) \/ RetryFresh(t) PROVE CliInv'
  <2>0. driver[t] = "watching"
    BY <1>5 DEF Exit, RetryFresh
  <2>1. /\ attempt[t] \in Attempts /\ pc[t] = "monitoring"
        /\ \A n \in Attempts : proc[<<t, n>>] = "alive" => n = attempt[t]
    BY <1>0, <2>0 DEF CliOf, Attempts
  <2>2. /\ pc' = pc /\ attempt' = attempt
        /\ proc' = [proc EXCEPT ![<<t, attempt[t]>>] = "dead"]
        /\ driver' = [driver EXCEPT ![t] = driver'[t]]
        /\ driver'[t] = "closed" \/ (driver'[t] = "launching" /\ attempt[t] = 1)
    BY <1>0, <1>5 DEF Exit, RetryFresh, Reap, WasResuming, turnVars, CliTypeOK
  <2>3. \A n \in Attempts : proc'[<<t, n>>] # "alive"
    BY <1>0, <2>1, <2>2 DEF CliTypeOK, Processes
  <2>4. CliOf(t)'
    <3>1. pc'[t] = "monitoring" /\ pc'[t] \notin Unstarted /\ attempt'[t] = attempt[t]
      BY <2>1, <2>2 DEF Unstarted
    <3>2. CASE driver'[t] = "closed"
      BY <2>1, <2>3, <3>1, <3>2 DEF CliOf, Attempts
    <3>3. CASE driver'[t] = "launching" /\ attempt[t] = 1
      BY <2>3, <3>1, <3>3 DEF CliOf
    <3> QED BY <2>2, <3>2, <3>3
  <2>5. \A u \in Turns \ {t}, n \in Attempts : proc'[<<u, n>>] = proc[<<u, n>>]
    BY <1>0, <2>2 DEF CliTypeOK, Processes
  <2> QED BY <1>0, <1>1, <2>2, <2>4, <2>5 DEF CliTypeOK
<1>6. ASSUME UNCHANGED <<pc, driver, attempt, proc>> PROVE CliInv'
  BY <1>6 DEF CliInv
<1>7. ASSUME NEW t \in Turns, HandleUpdate(t) PROVE CliInv'
  BY <1>6, <1>7 DEF HandleUpdate
<1>8. ASSUME NEW c \in Stops, Cancel(c) \/ TakePid(c) \/ ConfirmDead(c) \/ ReportStop(c)
      PROVE  CliInv'
  BY <1>6, <1>8 DEF Cancel, TakePid, ConfirmDead, ReportStop, turnVars, cliVars
<1>9. CASE UNCHANGED vars
  BY <1>6, <1>9 DEF vars, turnVars, cliVars
<1> QED BY ActionsOfNext, <1>2, <1>3, <1>4, <1>5, <1>7, <1>8, <1>9

(***************************************************************************)
(* The inductive invariant, and what follows from it.                      *)
(***************************************************************************)
SafetyInv == TypeOK /\ LockInv /\ CliInv

LEMMA SafetyCorrect == Spec => []SafetyInv
<1>1. Init => SafetyInv
  <2> SUFFICES ASSUME Init PROVE LockInv /\ CliInv
    BY TypeInit DEF SafetyInv
  <2>1. LockInv
    BY DEF Init, LockInv, Holding, Executing
  <2>2. CliInv
    BY DEF Init, CliInv, Processes
  <2> QED BY <2>1, <2>2
<1>2. SafetyInv /\ [Next]_vars => SafetyInv'
  BY TypeStep, LockStep, CliStep DEF SafetyInv
<1> QED BY <1>1, <1>2, PTL DEF Spec

(* Every reachable state of the runtime has its type, for every set of turns,*)
(* stops, conversations, keys and directories.                               *)
THEOREM TypeCorrect == Spec => []TypeOK
<1>1. SafetyInv => TypeOK
  BY DEF SafetyInv
<1> QED BY <1>1, SafetyCorrect, PTL

(* No conversation ever has two CLI processes: two that live belong to turns *)
(* that are monitored, so both turns head the queue of the turn lock, so     *)
(* they are the same turn in the same attempt.                               *)
THEOREM MutualExclusion == Spec => []OneProcessPerConversation
<1>1. ASSUME SafetyInv PROVE OneProcessPerConversation
  <2> SUFFICES ASSUME NEW p \in Alive, NEW q \in Alive, IdentityOf[p[1]] = IdentityOf[q[1]]
               PROVE  p = q
    BY DEF OneProcessPerConversation
  <2>1. /\ p[1] \in Turns /\ p[2] \in Attempts /\ p = <<p[1], p[2]>>
        /\ q[1] \in Turns /\ q[2] \in Attempts /\ q = <<q[1], q[2]>>
        /\ proc[p] = "alive" /\ proc[q] = "alive"
    BY DEF Alive, Processes
  <2>2. /\ pc[p[1]] = "monitoring" /\ p[2] = attempt[p[1]]
        /\ pc[q[1]] = "monitoring" /\ q[2] = attempt[q[1]]
    BY <1>1, <2>1 DEF SafetyInv, CliInv
  <2>3. HoldsLock(p[1]) /\ HoldsLock(q[1])
    BY <1>1, <2>1, <2>2 DEF SafetyInv, LockInv, Holding, Executing
  <2>4. p[1] = q[1]
    BY <2>3 DEF HoldsLock
  <2> QED BY <2>1, <2>2, <2>4
<1> QED BY <1>1, SafetyCorrect, PTL
=============================================================================
