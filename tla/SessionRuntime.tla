--------------------------- MODULE SessionRuntime ---------------------------
(***************************************************************************)
(* The engine's session runtime: sessions::start, run_start and cancel     *)
(* (engine/qaio-engine-core/src/sessions/mod.rs), the maps they share      *)
(* (sessions/control.rs, session_pids.rs), the session runner              *)
(* (qaio-agents-conversations/src/session_runner.rs) and the task that     *)
(* drives the provider's CLI (qaio-terminal-manager).                      *)
(*                                                                         *)
(* A turn is one call of `start`: one message of the user. Its tokio task  *)
(* waits for the lock of its conversation (agent path and session key),    *)
(* spawns the CLI through the runner, waits for it and flips the status of *)
(* the conversation's card on the mission board. A stop is one call of     *)
(* `cancel`. Every step between two awaits on a shared lock or channel is  *)
(* an action, so turns and stops interleave as tasks of the runtime do.    *)
(***************************************************************************)
EXTENDS Naturals, Sequences, FiniteSets

CONSTANTS
  Turns,        \* calls of sessions::start
  Stops,        \* calls of sessions::cancel
  Identities,   \* SessionIdentity: the conversations
  Keys,         \* session keys
  Dirs,         \* working directories
  IdentityOf,   \* the conversation a turn belongs to
  KeyOf,        \* the session_key of a conversation
  DirOf,        \* StartParams.working_dir of a turn
  TargetOf,     \* the conversation a stop is for
  Resumable,    \* conversations whose provider id is on disk at the start
  NewMissions,  \* conversations whose card has just been created
  NoProcess     \* the pid map's None

ASSUME RuntimeAssumption ==
  /\ IsFiniteSet(Turns)
  /\ IdentityOf \in [Turns -> Identities]
  /\ KeyOf \in [Identities -> Keys]
  /\ DirOf \in [Turns -> Dirs]
  /\ TargetOf \in [Stops -> Identities]
  /\ Resumable \subseteq Identities
  /\ NewMissions \subseteq Identities
  /\ NoProcess \notin Turns \X (1..2)

(***************************************************************************)
(* A CLI is run at most twice for a turn: again, with a fresh thread, when *)
(* the provider refuses the conversation to be resumed.                    *)
(***************************************************************************)
Attempts  == 1..2
Processes == Turns \X Attempts

VARIABLES
  control,      \* SessionControl: generation and active_or_queued, by conversation
  turnQueue,    \* SessionTurnLocks: the turns at the lock, its holder first
  workdir,      \* WorkdirActivity: active runs and generation, by directory
  pidMap,       \* SessionPidMap
  resume,       \* whether the tracker has a provider id to resume
  board,        \* status of the conversation's card in activity.json
  uiStatus,     \* last SessionStatus event sent for the conversation
  pc,           \* where a turn's task is
  generation,   \* the generation a turn was registered with
  registration, \* WorkdirActivityRegistration of a turn
  overlapped,   \* what WorkdirActivity::finish answered
  resumed,      \* whether the turn asked the CLI to resume
  failed,       \* SessionResult.error of the turn is set
  driver,       \* the task of SessionManager::spawn_session
  attempt,      \* runs of the CLI for the turn so far
  updates,      \* the channel from the driver to the runner
  proc,         \* the CLI processes
  stopPc,       \* where a stop is
  hadQueued,    \* what SessionControl::cancel answered
  victim        \* the pid it took from the map

(***************************************************************************)
(* History, read by properties only: the turns a stop overtook before they *)
(* passed their check, the runs that shared their directory, the turns a   *)
(* stop found registered, and how the last CLI of a conversation ended.    *)
(***************************************************************************)
VARIABLES stopped, shared, covered, lastEnd

runtimeVars == <<control, turnQueue, workdir, pidMap, resume, board, uiStatus>>
turnVars    == <<pc, generation, registration, overlapped, resumed, failed>>
cliVars     == <<driver, attempt, updates, proc>>
stopVars    == <<stopPc, hadQueued, victim>>
historyVars == <<stopped, shared, covered, lastEnd>>

vars == <<runtimeVars, turnVars, cliVars, stopVars, historyVars>>
-----------------------------------------------------------------------------
(* Where a turn's task can be, by what it holds there. *)
Waiting   == {"spawned", "queued"}
Executing == {"seeding", "registered", "monitoring", "joined", "settling"}
Holding   == Executing \cup {"finishing", "releasing"}
InWindow  == {"registered", "monitoring", "joined"}
OnBoard   == {"monitoring", "joined", "settling"}
InControl == Waiting \cup Executing \cup {"finishing", "failed"}
TurnPc    == {"absent", "releasing", "done", "aborted"} \cup InControl

TurnsOf(i)     == {t \in Turns : IdentityOf[t] = i}
KeyOfTurn(t)   == KeyOf[IdentityOf[t]]
AtPc(S)        == {t \in Turns : pc[t] \in S}
HoldsLock(t)   == LET q == turnQueue[IdentityOf[t]] IN q # <<>> /\ Head(q) = t
Alive          == {p \in Processes : proc[p] = "alive"}

UpdateKind == {"starting", "pid", "running", "sid", "resume_invalid",
               "completed", "error"}
Update     == [kind : UpdateKind, attempt : Attempts]
Send(t, kinds) ==
  updates' = [updates EXCEPT ![t] =
                @ \o [k \in DOMAIN kinds |-> [kind |-> kinds[k], attempt |-> attempt'[t]]]]

RuntimeTypeOK ==
  /\ control \in [Identities -> [generation : Nat, active : Nat]]
  /\ turnQueue \in [Identities -> Seq(Turns)]
  /\ workdir \in [Dirs -> [generation : Nat, active : Nat]]
  /\ pidMap \in [Keys -> Processes \cup {NoProcess}]
  /\ resume \in [Identities -> BOOLEAN]
  /\ board \in [Identities -> {"running", "needs_you", "error"}]
  /\ uiStatus \in [Identities -> {"none", "starting", "running", "completed", "error"}]

TurnTypeOK ==
  /\ pc \in [Turns -> TurnPc]
  /\ generation \in [Turns -> Nat]
  /\ registration \in [Turns -> [generation : Nat, overlap : BOOLEAN]]
  /\ overlapped \in [Turns -> BOOLEAN]
  /\ resumed \in [Turns -> BOOLEAN]
  /\ failed \in [Turns -> BOOLEAN]

CliTypeOK ==
  /\ driver \in [Turns -> {"off", "launching", "watching", "closed"}]
  /\ attempt \in [Turns -> 0..2]
  /\ updates \in [Turns -> Seq(Update)]
  /\ proc \in [Processes -> {"unborn", "alive", "dead"}]

StopTypeOK ==
  /\ stopPc \in [Stops -> {"idle", "bumped", "killing", "reporting", "reported", "refused"}]
  /\ hadQueued \in [Stops -> BOOLEAN]
  /\ victim \in [Stops -> Processes \cup {NoProcess}]

HistoryTypeOK ==
  /\ stopped \in [Turns -> BOOLEAN]
  /\ shared \in [Turns -> BOOLEAN]
  /\ covered \in [Stops -> SUBSET Turns]
  /\ lastEnd \in [Identities -> {"none", "completed", "error"}]

TypeOK == RuntimeTypeOK /\ TurnTypeOK /\ CliTypeOK /\ StopTypeOK /\ HistoryTypeOK
-----------------------------------------------------------------------------
(***************************************************************************)
(* An empty runtime. The card of a new mission is born "running", before   *)
(* its first turn is sent (agents/activity.rs, create); an older one waits *)
(* for its user.                                                           *)
(***************************************************************************)
NoEntry == [generation |-> 0, active |-> 0]

Init ==
  /\ control = [i \in Identities |-> NoEntry]
  /\ turnQueue = [i \in Identities |-> <<>>]
  /\ workdir = [d \in Dirs |-> NoEntry]
  /\ pidMap = [k \in Keys |-> NoProcess]
  /\ resume = [i \in Identities |-> i \in Resumable]
  /\ board = [i \in Identities |-> IF i \in NewMissions THEN "running" ELSE "needs_you"]
  /\ uiStatus = [i \in Identities |-> "none"]
  /\ pc = [t \in Turns |-> "absent"]
  /\ generation = [t \in Turns |-> 0]
  /\ registration = [t \in Turns |-> [generation |-> 0, overlap |-> FALSE]]
  /\ overlapped = [t \in Turns |-> FALSE]
  /\ resumed = [t \in Turns |-> FALSE]
  /\ failed = [t \in Turns |-> FALSE]
  /\ driver = [t \in Turns |-> "off"]
  /\ attempt = [t \in Turns |-> 0]
  /\ updates = [t \in Turns |-> <<>>]
  /\ proc = [p \in Processes |-> "unborn"]
  /\ stopPc = [c \in Stops |-> "idle"]
  /\ hadQueued = [c \in Stops |-> FALSE]
  /\ victim = [c \in Stops |-> NoProcess]
  /\ stopped = [t \in Turns |-> FALSE]
  /\ shared = [t \in Turns |-> FALSE]
  /\ covered = [c \in Stops |-> {}]
  /\ lastEnd = [i \in Identities |-> "none"]
-----------------------------------------------------------------------------
(* SessionControl. An entry exists exactly while its count is above zero. *)
ControlRegister(i) == control' = [control EXCEPT ![i].active = @ + 1]

(* Bug: the entry goes with the first turn that ends. *)
ControlFinish_Forgets(i) == control' = [control EXCEPT ![i] = NoEntry]

(* Bug: the generation starts over while turns are still registered. *)
ControlFinish_StartsOver(i) ==
  control' = IF control[i].active > 1
             THEN [control EXCEPT ![i] = [generation |-> 0, active |-> @.active - 1]]
             ELSE [control EXCEPT ![i] = NoEntry]

ControlFinish(i) ==
  control' = IF control[i].active > 1 THEN [control EXCEPT ![i].active = @ - 1]
             ELSE [control EXCEPT ![i] = NoEntry]

(* Bug: a stop removes the entry instead of ageing it. *)
ControlCancel_Forgets(i) == control' = [control EXCEPT ![i] = NoEntry]

ControlCancel(i) ==
  control' = IF control[i].active > 0 THEN [control EXCEPT ![i].generation = @ + 1]
             ELSE control

IsStale(t) ==
  LET entry == control[IdentityOf[t]]
  IN  entry.active = 0 \/ entry.generation # generation[t]

(* Bug: the guard outlives the turn. *)
DropTurnGuard_Leaks(t) == turnQueue' = turnQueue

(* Dropping the guard hands the turn lock to the waiter behind it. *)
DropTurnGuard(t) ==
  turnQueue' = [turnQueue EXCEPT ![IdentityOf[t]] = Tail(@)]

(* WorkdirActivity. Its entries, too, exist while their count is above zero. *)
(* Bug: the run that comes second does not tell the first. *)
WorkdirRegister_Quiet(t) ==
  LET d == DirOf[t]
  IN  /\ workdir' = [workdir EXCEPT ![d].active = @ + 1]
      /\ registration' = [registration EXCEPT ![t] =
            [generation |-> workdir[d].generation, overlap |-> workdir[d].active > 0]]

WorkdirRegister(t) ==
  LET d == DirOf[t]
      overlap == workdir[d].active > 0
      g == IF overlap THEN workdir[d].generation + 1 ELSE workdir[d].generation
  IN  /\ workdir' = [workdir EXCEPT ![d] = [generation |-> g, active |-> @.active + 1]]
      /\ registration' = [registration EXCEPT ![t] = [generation |-> g, overlap |-> overlap]]

WorkdirFinish(t) ==
  LET d == DirOf[t]
  IN  /\ overlapped' = [overlapped EXCEPT ![t] =
            \/ workdir[d].active = 0
            \/ registration[t].overlap
            \/ workdir[d].generation # registration[t].generation]
      /\ workdir' = IF workdir[d].active > 1 THEN [workdir EXCEPT ![d].active = @ - 1]
                    ELSE [workdir EXCEPT ![d] = NoEntry]
-----------------------------------------------------------------------------
(* The turn's task: sessions::start and run_start. *)

(* `start` registers the turn, spawns its task and returns. *)
Start(t) ==
  LET i == IdentityOf[t]
  IN  /\ pc[t] = "absent"
      /\ pc' = [pc EXCEPT ![t] = "spawned"]
      /\ generation' = [generation EXCEPT ![t] = control[i].generation]
      /\ ControlRegister(i)
      /\ UNCHANGED <<turnQueue, workdir, pidMap, resume, board, uiStatus,
                     registration, overlapped, resumed, failed,
                     cliVars, stopVars, historyVars>>

(* The task reaches the turn lock: tokio's mutex serves its waiters in the    *)
(* order they came to the lock, which need not be the order of the calls.     *)
Enqueue(t) ==
  /\ pc[t] = "spawned"
  /\ pc' = [pc EXCEPT ![t] = "queued"]
  /\ turnQueue' = [turnQueue EXCEPT ![IdentityOf[t]] = Append(@, t)]
  /\ UNCHANGED <<control, workdir, pidMap, resume, board, uiStatus,
                 generation, registration, overlapped, resumed, failed,
                 cliVars, stopVars, historyVars>>

(* create_dir_all of a missing agent directory fails. *)
CannotCreateAgentDir(t) ==
  /\ pc[t] = "spawned"
  /\ pc' = [pc EXCEPT ![t] = "failed"]
  /\ UNCHANGED <<runtimeVars, generation, registration, overlapped, resumed, failed,
                 cliVars, stopVars, historyVars>>

(* The lock is ours: a turn cancelled while it waited gives up. *)
SkipStale(t) ==
  /\ pc[t] = "queued"
  /\ HoldsLock(t)
  /\ IsStale(t)
  /\ pc' = [pc EXCEPT ![t] = "finishing"]
  /\ UNCHANGED <<runtimeVars, generation, registration, overlapped, resumed, failed,
                 cliVars, stopVars, historyVars>>

Proceed(t) ==
  /\ pc[t] = "queued"
  /\ HoldsLock(t)
  /\ ~IsStale(t)
  /\ pc' = [pc EXCEPT ![t] = "seeding"]
  /\ UNCHANGED <<runtimeVars, generation, registration, overlapped, resumed, failed,
                 cliVars, stopVars, historyVars>>

(* seed_agent fails: `?` leaves run_start, which drops the guard. *)
SeedFails(t) ==
  /\ pc[t] = "seeding"
  /\ pc' = [pc EXCEPT ![t] = "failed"]
  /\ DropTurnGuard(t)
  /\ UNCHANGED <<control, workdir, pidMap, resume, board, uiStatus,
                 generation, registration, overlapped, resumed, failed,
                 cliVars, stopVars, historyVars>>

RegisterWorkdir(t) ==
  /\ pc[t] = "seeding"
  /\ pc' = [pc EXCEPT ![t] = "registered"]
  /\ WorkdirRegister(t)
  /\ LET others == {u \in AtPc(InWindow) : DirOf[u] = DirOf[t]}
     IN  shared' = [u \in Turns |->
           \/ shared[u]
           \/ u \in others
           \/ u = t /\ others # {}]
  /\ UNCHANGED <<control, turnQueue, pidMap, resume, board, uiStatus,
                 generation, overlapped, resumed, failed,
                 cliVars, stopVars, stopped, covered, lastEnd>>

(* The card flips to "running" and the runner is spawned, with no await      *)
(* between; the resume id has just been read from the tracker.               *)
MarkRunning(t) ==
  LET i == IdentityOf[t]
  IN  /\ pc[t] = "registered"
      /\ pc' = [pc EXCEPT ![t] = "monitoring"]
      /\ resumed' = [resumed EXCEPT ![t] = resume[i]]
      /\ board' = [board EXCEPT ![i] = "running"]
      /\ driver' = [driver EXCEPT ![t] = "launching"]
      /\ UNCHANGED <<control, turnQueue, workdir, pidMap, resume, uiStatus,
                     generation, registration, overlapped, failed,
                     attempt, updates, proc, stopVars, historyVars>>

(* The runner's handle resolves; the run leaves its directory's window. *)
FinishWorkdir(t) ==
  /\ pc[t] = "joined"
  /\ pc' = [pc EXCEPT ![t] = "settling"]
  /\ WorkdirFinish(t)
  /\ UNCHANGED <<control, turnQueue, pidMap, resume, board, uiStatus,
                 generation, registration, resumed, failed,
                 cliVars, stopVars, historyVars>>

(* Bug: the card forgets that the run failed. *)
CardAfter_Same(t) == "needs_you"

CardAfter(t) == IF failed[t] THEN "error" ELSE "needs_you"

(* File changes are attributed or not, and the card gets its status. *)
Settle(t) ==
  /\ pc[t] = "settling"
  /\ pc' = [pc EXCEPT ![t] = "finishing"]
  /\ board' = [board EXCEPT ![IdentityOf[t]] = CardAfter(t)]
  /\ UNCHANGED <<control, turnQueue, workdir, pidMap, resume, uiStatus,
                 generation, registration, overlapped, resumed, failed,
                 cliVars, stopVars, historyVars>>

Finish(t) ==
  /\ pc[t] = "finishing"
  /\ pc' = [pc EXCEPT ![t] = "releasing"]
  /\ ControlFinish(IdentityOf[t])
  /\ UNCHANGED <<turnQueue, workdir, pidMap, resume, board, uiStatus,
                 generation, registration, overlapped, resumed, failed,
                 cliVars, stopVars, historyVars>>

Release(t) ==
  /\ pc[t] = "releasing"
  /\ pc' = [pc EXCEPT ![t] = "done"]
  /\ DropTurnGuard(t)
  /\ UNCHANGED <<control, workdir, pidMap, resume, board, uiStatus,
                 generation, registration, overlapped, resumed, failed,
                 cliVars, stopVars, historyVars>>

(* start's wrapper reports what run_start returned. *)
ReportFailure(t) ==
  LET i == IdentityOf[t]
  IN  /\ pc[t] = "failed"
      /\ pc' = [pc EXCEPT ![t] = "aborted"]
      /\ ControlFinish(i)
      /\ uiStatus' = [uiStatus EXCEPT ![i] = "error"]
      /\ UNCHANGED <<turnQueue, workdir, pidMap, resume, board,
                     generation, registration, overlapped, resumed, failed,
                     cliVars, stopVars, historyVars>>
-----------------------------------------------------------------------------
(* The driver: SessionManager::spawn_session and the provider's CLI.         *)

Prelude(t) == IF attempt[t] = 0 THEN <<"starting">> ELSE <<>>

(* Bug: the exit of the process is not awaited. *)
Reap_NotAwaited(t) == proc' = proc

Reap(t) == proc' = [proc EXCEPT ![<<t, attempt[t]>>] = "dead"]

(* cmd.spawn succeeds. The pid travels to the runner through the channel, so *)
(* the process lives for a while before the pid map knows of it.             *)
Launch(t) ==
  /\ driver[t] = "launching"
  /\ driver' = [driver EXCEPT ![t] = "watching"]
  /\ attempt' = [attempt EXCEPT ![t] = @ + 1]
  /\ proc' = [proc EXCEPT ![<<t, attempt[t] + 1>>] = "alive"]
  /\ Send(t, Prelude(t) \o <<"pid", "running">>)
  /\ UNCHANGED <<runtimeVars, turnVars, stopVars, historyVars>>

(* The working directory is gone, the CLI is missing, or it exits without    *)
(* reading its prompt.                                                       *)
LaunchFails(t) ==
  /\ driver[t] = "launching"
  /\ driver' = [driver EXCEPT ![t] = "closed"]
  /\ attempt' = [attempt EXCEPT ![t] = @ + 1]
  /\ Send(t, Prelude(t) \o <<"error">>)
  /\ lastEnd' = [lastEnd EXCEPT ![IdentityOf[t]] = "error"]
  /\ UNCHANGED <<runtimeVars, turnVars, proc, stopVars, stopped, shared, covered>>

(* The CLI exits by itself or because a stop killed it: with success or code *)
(* 143, or otherwise (a process that dies of a signal has no code). It may   *)
(* have named its conversation; agy's name is read after the exit.           *)
Exit(t) ==
  /\ driver[t] = "watching"
  /\ Reap(t)
  /\ driver' = [driver EXCEPT ![t] = "closed"]
  /\ attempt' = attempt
  /\ \E status \in {"completed", "error"} :
       /\ lastEnd' = [lastEnd EXCEPT ![IdentityOf[t]] = status]
       /\ \/ Send(t, <<status>>)
          \/ Send(t, <<"sid", status>>)
          \/ Send(t, <<status, "sid">>)
  /\ UNCHANGED <<runtimeVars, turnVars, stopVars, stopped, shared, covered>>

(* Bug: a fresh thread is taken for a resumed one. *)
WasResuming_Always(t) == resumed[t]

WasResuming(t) == resumed[t] /\ attempt[t] = 1

(* The provider refuses to resume: the same prompt goes to a fresh thread.   *)
RetryFresh(t) ==
  /\ driver[t] = "watching"
  /\ WasResuming(t)
  /\ Reap(t)
  /\ driver' = [driver EXCEPT ![t] = "launching"]
  /\ attempt' = attempt
  /\ Send(t, <<"resume_invalid">>)
  /\ UNCHANGED <<runtimeVars, turnVars, stopVars, historyVars>>
-----------------------------------------------------------------------------
(* The runner: the task of spawn_and_monitor reads the channel in order.     *)

(* Bug: what follows an error makes up for it. *)
IsFailure_OfLast(t, u) == u.kind = "error"

IsFailure(t, u) == failed[t] \/ u.kind = "error"

HandleUpdate(t) ==
  LET i == IdentityOf[t]
      u == Head(updates[t])
  IN  /\ pc[t] = "monitoring"
      /\ updates[t] # <<>>
      /\ updates' = [updates EXCEPT ![t] = Tail(@)]
      /\ pidMap' = IF u.kind = "pid"
                   THEN [pidMap EXCEPT ![KeyOf[i]] = <<t, u.attempt>>]
                   ELSE pidMap
      /\ resume' = [resume EXCEPT ![i] =
                     (@ \/ u.kind = "sid") /\ u.kind # "resume_invalid"]
      /\ uiStatus' = IF u.kind \in {"starting", "running", "completed", "error"}
                     THEN [uiStatus EXCEPT ![i] = u.kind]
                     ELSE uiStatus
      /\ failed' = [failed EXCEPT ![t] = IsFailure(t, u)]
      /\ UNCHANGED <<control, turnQueue, workdir, board,
                     pc, generation, registration, overlapped, resumed,
                     driver, attempt, proc, stopVars, historyVars>>

(* Bug: an empty channel is taken for a closed one. *)
ChannelIsOver_Empty(t) == updates[t] = <<>>

ChannelIsOver(t) == updates[t] = <<>> /\ driver[t] = "closed"

(* Bug: the pid stays in the map. *)
ForgetPid_Not(k) == pidMap' = pidMap

ForgetPid(k) == pidMap' = [pidMap EXCEPT ![k] = NoProcess]

(* The channel closes: the runner forgets the pid and returns its result. *)
RunnerEnds(t) ==
  /\ pc[t] = "monitoring"
  /\ ChannelIsOver(t)
  /\ pc' = [pc EXCEPT ![t] = "joined"]
  /\ ForgetPid(KeyOfTurn(t))
  /\ UNCHANGED <<control, turnQueue, workdir, resume, board, uiStatus,
                 generation, registration, overlapped, resumed, failed,
                 cliVars, stopVars, historyVars>>
-----------------------------------------------------------------------------
(* sessions::cancel. *)

(* SessionControl::cancel: every turn registered so far is stale from now.   *)
Cancel(c) ==
  LET i == TargetOf[c]
  IN  /\ stopPc[c] = "idle"
      /\ stopPc' = [stopPc EXCEPT ![c] = "bumped"]
      /\ hadQueued' = [hadQueued EXCEPT ![c] = control[i].active > 0]
      /\ ControlCancel(i)
      /\ stopped' = [t \in Turns |-> stopped[t] \/ (IdentityOf[t] = i /\ pc[t] \in Waiting)]
      /\ covered' = [covered EXCEPT ![c] = TurnsOf(i) \cap AtPc(InControl)]
      /\ UNCHANGED <<turnQueue, workdir, pidMap, resume, board, uiStatus,
                     turnVars, cliVars, victim, shared, lastEnd>>

(* The pid leaves the map, and terminate_process_tree goes to work on it. *)
TakePid(c) ==
  LET k == KeyOf[TargetOf[c]]
  IN  /\ stopPc[c] = "bumped"
      /\ victim' = [victim EXCEPT ![c] = pidMap[k]]
      /\ ForgetPid(k)
      /\ stopPc' = [stopPc EXCEPT ![c] =
                      IF pidMap[k] # NoProcess THEN "killing"
                      ELSE IF hadQueued[c] THEN "reporting" ELSE "refused"]
      /\ UNCHANGED <<control, turnQueue, workdir, resume, board, uiStatus,
                     turnVars, cliVars, hadQueued, historyVars>>

(* terminate_process_tree returns when it sees the process gone. *)
ConfirmDead(c) ==
  /\ stopPc[c] = "killing"
  /\ proc[victim[c]] = "dead"
  /\ stopPc' = [stopPc EXCEPT ![c] = "reporting"]
  /\ UNCHANGED <<runtimeVars, turnVars, cliVars, hadQueued, victim, historyVars>>

(* "Stopped by user" and the completed status go out; cancel returns true. *)
ReportStop(c) ==
  /\ stopPc[c] = "reporting"
  /\ stopPc' = [stopPc EXCEPT ![c] = "reported"]
  /\ uiStatus' = [uiStatus EXCEPT ![TargetOf[c]] = "completed"]
  /\ UNCHANGED <<control, turnQueue, workdir, pidMap, resume, board,
                 turnVars, cliVars, hadQueued, victim, historyVars>>
-----------------------------------------------------------------------------
TurnStep(t) ==
  \/ Enqueue(t) \/ CannotCreateAgentDir(t)
  \/ SkipStale(t) \/ Proceed(t)
  \/ SeedFails(t) \/ RegisterWorkdir(t) \/ MarkRunning(t)
  \/ FinishWorkdir(t) \/ Settle(t) \/ Finish(t) \/ Release(t) \/ ReportFailure(t)

DriverStep(t) == Launch(t) \/ LaunchFails(t) \/ Exit(t) \/ RetryFresh(t)
RunnerStep(t) == HandleUpdate(t) \/ RunnerEnds(t)
StopStep(c)   == TakePid(c) \/ ConfirmDead(c) \/ ReportStop(c)

Next ==
  \/ \E t \in Turns : Start(t) \/ TurnStep(t) \/ DriverStep(t) \/ RunnerStep(t)
  \/ \E c \in Stops : Cancel(c) \/ StopStep(c)

(***************************************************************************)
(* The runtime polls every task that can go on, so the steps of the tasks  *)
(* are weakly fair. That a CLI exits is an assumption about the provider   *)
(* (and about KILL, once a stop took its pid); the user owes nothing.      *)
(***************************************************************************)
Fairness ==
  /\ \A t \in Turns : WF_vars(TurnStep(t)) /\ WF_vars(DriverStep(t)) /\ WF_vars(RunnerStep(t))
  /\ \A c \in Stops : WF_vars(StopStep(c))

Spec     == Init /\ [][Next]_vars
FairSpec == Spec /\ Fairness
-----------------------------------------------------------------------------
(***************************************************************************)
(* Safety.                                                                 *)
(***************************************************************************)

(* "Turns with the same session_key queue": one conversation never has two   *)
(* CLI processes at once, whatever is cancelled, retried or fails.           *)
OneProcessPerConversation ==
  \A p, q \in Alive : IdentityOf[p[1]] = IdentityOf[q[1]] => p = q

(* A turn that a stop overtook while it waited never runs a CLI, although    *)
(* the generations are reset when the conversation's entry goes.             *)
StoppedTurnNeverRuns ==
  \A t \in Turns : stopped[t] => attempt[t] = 0 /\ driver[t] = "off"

(* active_or_queued counts the registered turns of the conversation: the     *)
(* entry neither outlives them nor disappears under a waiting one.           *)
ControlCountsTurns ==
  \A i \in Identities :
    control[i].active = Cardinality(TurnsOf(i) \cap AtPc(InControl))

(* WorkdirActivity::finish answers exactly whether another run shared the    *)
(* directory at any time of this run: files changed in a shared window are   *)
(* attributed to nobody, and no other run loses its attribution.             *)
OverlapIsExact ==
  \A t \in AtPc({"settling"}) : overlapped[t] <=> shared[t]

(* A pid in the map is one of the conversation that holds the key, and its   *)
(* turn is being monitored: a stop never kills for another conversation.     *)
PidsAreOurs ==
  \A k \in Keys : pidMap[k] # NoProcess =>
    pc[pidMap[k][1]] = "monitoring" /\ KeyOfTurn(pidMap[k][1]) = k

(* The card says "running" while a turn of the conversation runs. When none  *)
(* runs it tells how the last run ended, whatever was stopped, retried or    *)
(* dropped since: "error" where the CLI failed or could not be launched,     *)
(* "needs_you" otherwise.                                                    *)
BoardFollowsRuns ==
  \A i \in Identities :
    LET runs == TurnsOf(i) \cap AtPc(OnBoard)
    IN  /\ runs # {} => board[i] = "running"
        /\ runs = {} /\ lastEnd[i] # "none"
             => board[i] = IF lastEnd[i] = "error" THEN "error" ELSE "needs_you"

(* The runner's status events and the card are written by two tasks from two *)
(* sources; where nobody stopped the conversation and no turn failed before  *)
(* its run, they end with the same status.                                  *)
BoardAgreesWithEvents ==
  \A i \in Identities :
    /\ \A c \in Stops : TargetOf[c] = i => stopPc[c] \in {"idle", "refused"}
    /\ \A t \in TurnsOf(i) : pc[t] \in {"absent", "done"}
    /\ \E t \in TurnsOf(i) : pc[t] = "done"
    => uiStatus[i] = IF board[i] = "error" THEN "error" ELSE "completed"

(* Every call of `start` that was accepted ends: the lock is always passed   *)
(* on, whatever fails on the way, and a stop leaves nobody waiting.          *)
EveryTurnEnds ==
  \A t \in Turns : pc[t] = "spawned" ~> pc[t] \in {"done", "aborted"}

(* Every call of `cancel` answers. *)
EveryStopAnswers ==
  \A c \in Stops : stopPc[c] = "bumped" ~> stopPc[c] \in {"reported", "refused"}
-----------------------------------------------------------------------------
(***************************************************************************)
(* The runtime implements the queue of messages that TurnQueue promises.   *)
(***************************************************************************)
Phase(t) ==
  CASE pc[t] = "absent"              -> "absent"
    [] pc[t] \in Waiting             -> "waiting"
    [] pc[t] \in Executing           -> "running"
    [] pc[t] \in {"failed", "aborted"} -> "failed"
    [] OTHER -> IF driver[t] = "off" THEN "dropped" ELSE "ended"

Queue == INSTANCE TurnQueue WITH
  phase  <- [t \in Turns |-> Phase(t)],
  doomed <- {t \in Turns : stopped[t]}

(* No message is lost: a turn ends without having run only when it failed to *)
(* start or a stop overtook it while it waited, and then it never runs; the  *)
(* messages of a conversation run one at a time.                             *)
ImplementsTurnQueue == Queue!QueueSpec
-----------------------------------------------------------------------------
(***************************************************************************)
(* What a comment promises and the code does not keep.                     *)
(***************************************************************************)

(* "after Stop, the ... process AND everything it spawned ... are actually   *)
(* gone" (process_kill/mod.rs): when a stop has answered true, no process of *)
(* a turn it found registered lives.                                         *)
StopLeavesNoProcess ==
  \A c \in Stops : stopPc[c] = "reported" =>
    \A p \in Alive : p[1] \notin covered[c]
=============================================================================
