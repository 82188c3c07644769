------------------------------ MODULE Routines ------------------------------
(***************************************************************************)
(* The routines of one agent: the CRUD routes and the cron scheduler       *)
(* (engine/qaio-engine-core/src/routines/mod.rs, scheduler.rs, and         *)
(* qaio-engine-server/src/routes), the runner and its run history          *)
(* (routines/runner.rs, runs.rs) and the dispatcher that holds the agent's *)
(* folder while a CLI session works in it (routines/engine_dispatcher.rs). *)
(*                                                                         *)
(* A run is one call of `run_routine`, by a cron task or by a client's     *)
(* run-now request; both are futures that are dropped where they await     *)
(* when the cron task is aborted or the client goes away. The session a    *)
(* run spawned is a task of its own and is not dropped with it.            *)
(*                                                                         *)
(* Nothing locks routines.json and routine_runs.json: whoever changes one  *)
(* reads the list, changes its copy and writes the copy, on some thread of *)
(* the engine, while others do the same. The write itself is one step here *)
(* and may fail; how two writes meet in one temporary file is JsonStore's. *)
(***************************************************************************)
EXTENDS Naturals, Sequences, FiniteSets

CONSTANTS
  Ids,        \* routine ids (uuids: never used twice)
  Runs,       \* calls of run_routine
  Schedules,  \* cron expressions
  Valid,      \* those the cron crate accepts
  Quiet,      \* routines with suppress_when_silent
  MaxRuns,    \* MAX_RUNS_PER_ROUTINE
  Edits,      \* bound: the edit requests that are under way at one time
  Missing,    \* a routine that is not in routines.json
  NoJob,      \* no cron task
  NoRun

ASSUME RoutinesAssumption ==
  /\ Valid \subseteq Schedules
  /\ Quiet \subseteq Ids
  /\ MaxRuns \in Nat \ {0}
  /\ NoRun \notin Runs
  /\ NoJob \notin Schedules
  /\ Ids # {}

(* Times are left out, and with them timezones.                              *)
Routine == [enabled : BOOLEAN, schedule : Schedules]

(* What a session answers: whether its text says ROUTINE_OK, and an error. *)
Outcome == [ok : BOOLEAN, error : BOOLEAN]
Status  == {"running", "silent", "error", "surfaced"}

Lists  == [Ids -> Routine \cup {Missing}]
Entry  == [run : Runs, routine : Ids, status : Status]

VARIABLES
  routines,  \* routines.json
  born,      \* the ids that were created
  edit,      \* where an edit request is
  list,      \* the list it is going to write
  started,   \* the agent has an AgentScheduler
  jobs,      \* its cron tasks, with the schedule they were spawned for
  busy,      \* the run a cron task is in
  runs,      \* routine_runs.json
  draft,     \* what a run is going to write there
  cards,     \* runs whose card was put on the mission board
  pc,        \* where a call of run_routine is
  of,        \* its routine
  folder,    \* the run whose dispatcher holds the folder's guard
  session,   \* the session the run spawned
  outcome,   \* what the dispatcher answered
  total,     \* for properties only: how many runs were written;
  made,      \* the how-manieth each of them was, 0 for the others;
  missed,    \* who wrote the runs since a run read them;
  lost,      \* whose update a write that had not seen it went over;
  astray     \* the scheduler could not read the routines, or was not told of an edit

editVars  == <<routines, born, edit, list>>
schedVars == <<started, jobs, busy, astray>>
logVars   == <<runs, draft, total, made, missed, lost>>
callVars  == <<pc, of, folder, session, outcome>>
vars      == <<editVars, schedVars, logVars, cards, callVars>>

Drafting   == {"creating", "recording"}
Droppable  == {"created", "holding", "awaiting"}
InProgress == Drafting \cup Droppable \cup {"judging", "linking", "surfacing"}

TypeOK ==
  /\ routines \in Lists
  /\ born \subseteq Ids
  /\ edit \in [Edits -> {"idle", "read", "written"}]
  /\ list \in [Edits -> Lists]
  /\ started \in BOOLEAN
  /\ jobs \in [Ids -> Valid \cup {NoJob}]
  /\ busy \in [Ids -> Runs \cup {NoRun}]
  /\ runs \in Seq(Entry)
  /\ draft \in [Runs -> Seq(Entry)]
  /\ cards \subseteq Runs
  /\ pc \in [Runs -> InProgress \cup {"unused", "done", "abandoned"}]
  /\ of \in [Runs -> Ids]
  /\ folder \in Runs \cup {NoRun}
  /\ session \in [Runs -> {"none", "alive", "over"}]
  /\ outcome \in [Runs -> Outcome]
  /\ total \in Nat
  /\ made \in [Runs -> Nat]
  /\ missed \in [Runs -> SUBSET Runs]
  /\ lost \subseteq Runs
  /\ astray \in BOOLEAN

Unlisted == [i \in Ids |-> Missing]

Init ==
  /\ routines = Unlisted
  /\ born = {}
  /\ edit = [e \in Edits |-> "idle"]
  /\ list = [e \in Edits |-> Unlisted]
  /\ started = FALSE
  /\ jobs = [i \in Ids |-> NoJob]
  /\ busy = [i \in Ids |-> NoRun]
  /\ runs = <<>>
  /\ draft = [x \in Runs |-> <<>>]
  /\ cards = {}
  /\ pc = [x \in Runs |-> "unused"]
  /\ of = [x \in Runs |-> CHOOSE i \in Ids : TRUE]
  /\ folder = NoRun
  /\ session = [x \in Runs |-> "none"]
  /\ outcome = [x \in Runs |-> [ok |-> FALSE, error |-> FALSE]]
  /\ total = 0
  /\ made = [x \in Runs |-> 0]
  /\ missed = [x \in Runs |-> {}]
  /\ lost = {}
  /\ astray = FALSE
-----------------------------------------------------------------------------
(* A future is dropped: where it awaits, it never goes on, and the folder's  *)
(* guard goes with it. Between two awaits it runs on to the next one.        *)

(* Bug: the guard of a dropped run stays locked. *)
Drop_KeepsFolder(dropped) ==
  /\ pc' = [x \in Runs |-> IF x \in dropped /\ pc[x] \in Droppable THEN "abandoned" ELSE pc[x]]
  /\ UNCHANGED folder

Drop(dropped) ==
  /\ pc' = [x \in Runs |-> IF x \in dropped /\ pc[x] \in Droppable THEN "abandoned" ELSE pc[x]]
  /\ folder' = IF folder \in dropped THEN NoRun ELSE folder

Listed(l, i)  == l[i] # Missing
Enabled(l, i) == Listed(l, i) /\ l[i].enabled

(* Bug: a schedule the cron crate refuses gets a task all the same. *)
SpawnCron_AnySchedule(r) == r.schedule

SpawnCron(r) == IF r.schedule \in Valid THEN r.schedule ELSE NoJob

(* Bug: only tasks of deleted routines are stopped. *)
Reconciled_KeepsDisabled(l, i, old) ==
  CASE ~Listed(l, i)                   -> NoJob
    [] Listed(l, i) /\ old[i] # NoJob  -> old[i]
    [] OTHER                           -> SpawnCron(l[i])

(* sync: tasks of deleted and disabled routines are aborted, the others are  *)
(* kept, whatever became of their schedule, and an enabled routine without a *)
(* task gets one.                                                            *)
Reconciled(l, i, old) ==
  CASE ~Enabled(l, i)                   -> NoJob
    [] Enabled(l, i) /\ old[i] # NoJob  -> old[i]
    [] OTHER                            -> SpawnCron(l[i])

(* sync, on what is left of the tasks in `old`. A list that cannot be read   *)
(* counts as empty (unwrap_or_default).                                      *)
Sync(old) ==
  \E l \in {routines, Unlisted} :
    LET new     == [i \in Ids |-> Reconciled(l, i, old)]
        aborted == {i \in Ids : jobs[i] # NoJob /\ (old[i] = NoJob \/ new[i] = NoJob)}
    IN  /\ jobs' = new
        /\ busy' = [i \in Ids |-> IF i \in aborted THEN NoRun ELSE busy[i]]
        /\ Drop({busy[i] : i \in aborted})
        /\ astray' = (l # routines)

AllAborted == [i \in Ids |-> NoJob]

(* sync_agent: nothing to do for an agent without a scheduler. *)
SyncAgent ==
  IF started THEN Sync(jobs) ELSE UNCHANGED <<jobs, busy, pc, folder, astray>>
-----------------------------------------------------------------------------
(* The CRUD routes: /routines, and /agents/routines, which the desktop uses.  *)

(* A request reads the list and changes its copy. *)
ReadRoutines(e, changed) ==
  /\ edit[e] = "idle"
  /\ edit' = [edit EXCEPT ![e] = "read"]
  /\ list' = [list EXCEPT ![e] = changed]
  /\ UNCHANGED <<routines, schedVars, logVars, cards, callVars>>

CreateRoutine(e, i, r) ==
  /\ i \notin born
  /\ born' = born \cup {i}
  /\ ReadRoutines(e, [routines EXCEPT ![i] = r])

UpdateRoutine(e, i, r) ==
  /\ Listed(routines, i)
  /\ ReadRoutines(e, [routines EXCEPT ![i] = r])
  /\ UNCHANGED born

DeleteRoutine(e, i) ==
  /\ Listed(routines, i)
  /\ ReadRoutines(e, [routines EXCEPT ![i] = Missing])
  /\ UNCHANGED born

(* It writes the copy over what others have written since. *)
WriteRoutines(e) ==
  /\ edit[e] = "read"
  /\ routines' = list[e]
  /\ edit' = [edit EXCEPT ![e] = "written"]
  /\ list' = [list EXCEPT ![e] = Unlisted]
  /\ UNCHANGED <<born, schedVars, logVars, cards, callVars>>

(* The write fails: the request answers so, and does not sync. *)
EditFails(e) ==
  /\ edit[e] = "read"
  /\ edit' = [edit EXCEPT ![e] = "idle"]
  /\ list' = [list EXCEPT ![e] = Unlisted]
  /\ UNCHANGED <<routines, born, schedVars, logVars, cards, callVars>>

(* The request goes on, once it has the scheduler's lock, to sync. *)
SyncAfterEdit(e) ==
  /\ edit[e] = "written"
  /\ edit' = [edit EXCEPT ![e] = "idle"]
  /\ SyncAgent
  /\ UNCHANGED <<routines, born, list, started, logVars, cards, of, session, outcome>>

(* Its client goes away while it waits for the lock, and nobody syncs. *)
EditDropped(e) ==
  /\ edit[e] = "written"
  /\ edit' = [edit EXCEPT ![e] = "idle"]
  /\ astray' = TRUE
  /\ UNCHANGED <<routines, born, list, started, jobs, busy, logVars, cards, callVars>>

SchedulerSync ==
  /\ SyncAgent
  /\ UNCHANGED <<editVars, started, logVars, cards, of, session, outcome>>

SchedulerStart ==
  /\ started' = TRUE
  /\ Sync(jobs)
  /\ UNCHANGED <<editVars, logVars, cards, of, session, outcome>>

(* shutdown: every task is told to stop and aborted. *)
SchedulerStop ==
  /\ started
  /\ started' = FALSE
  /\ jobs' = AllAborted
  /\ busy' = [i \in Ids |-> NoRun]
  /\ Drop({busy[i] : i \in Ids})
  /\ UNCHANGED <<editVars, astray, logVars, cards, of, session, outcome>>

(* A new timezone preference respawns every task. *)
SetTimezone ==
  /\ started
  /\ Sync(AllAborted)
  /\ UNCHANGED <<editVars, started, logVars, cards, of, session, outcome>>
-----------------------------------------------------------------------------
(* The run history: read, changed and written back without a lock.           *)

(* The positions of a routine's runs in the file. *)
Positions(file, i) == {k \in DOMAIN file : file[k].routine = i}

(* Bug: a routine's newest run is the one that goes. *)
Outdated_Newest(file, k) ==
  Cardinality({j \in Positions(file, file[k].routine) : j < k}) >= MaxRuns

Outdated(file, k) ==
  Cardinality({j \in Positions(file, file[k].routine) : j > k}) >= MaxRuns

(* At most MaxRuns runs of a routine are kept, the oldest go. *)
Prune(file) ==
  LET kept == {k \in DOMAIN file : ~Outdated(file, k)}
  IN  [n \in 1..Cardinality(kept) |->
         file[CHOOSE k \in kept : Cardinality({j \in kept : j < k}) = n - 1]]

(* A run has read the file and is going to write `file`. *)
HoldDraft(x, file) ==
  /\ draft' = [draft EXCEPT ![x] = file]
  /\ UNCHANGED <<runs, total, made, missed, lost>>

(* It writes, over what others have written since. *)
WriteDraft(x) ==
  /\ runs' = draft[x]
  /\ draft' = [draft EXCEPT ![x] = <<>>]
  /\ lost' = lost \cup missed[x]
  /\ missed' = [y \in Runs |-> IF y # x /\ pc[y] \in Drafting THEN missed[y] \cup {x} ELSE {}]

(* run_routine: the routine is read from the file, and the run is added to   *)
(* the copy of the history.                                                  *)
Begin(i, x) ==
  /\ Listed(routines, i)
  /\ pc[x] = "unused"
  /\ pc' = [pc EXCEPT ![x] = "creating"]
  /\ of' = [of EXCEPT ![x] = i]
  /\ HoldDraft(x, Prune(Append(runs, [run |-> x, routine |-> i, status |-> "running"])))
  /\ UNCHANGED <<editVars, started, jobs, astray, cards, folder, session, outcome>>

WriteRun(x) ==
  /\ pc[x] = "creating"
  /\ pc' = [pc EXCEPT ![x] = "created"]
  /\ WriteDraft(x)
  /\ total' = total + 1
  /\ made' = [made EXCEPT ![x] = total + 1]
  /\ UNCHANGED <<editVars, schedVars, cards, of, folder, session, outcome>>

(* The cron task wakes up; while it is in a run it does not sleep for a new one. *)
Fire(i, x) ==
  /\ jobs[i] # NoJob
  /\ busy[i] = NoRun
  /\ busy' = [busy EXCEPT ![i] = x]
  /\ Begin(i, x)

RunNow(i, x) == Begin(i, x) /\ UNCHANGED busy
-----------------------------------------------------------------------------
(* The dispatcher. *)

Failure == [ok |-> FALSE, error |-> TRUE]

(* The folder is free: the run works in it. *)
TakeFolder(x) ==
  /\ pc[x] = "created"
  /\ folder = NoRun
  /\ folder' = x
  /\ pc' = [pc EXCEPT ![x] = "holding"]
  /\ UNCHANGED <<editVars, schedVars, logVars, cards, of, session, outcome>>

(* "another mission is already running in this folder" *)
Conflict(x) ==
  /\ pc[x] = "created"
  /\ folder # NoRun
  /\ pc' = [pc EXCEPT ![x] = "judging"]
  /\ outcome' = [outcome EXCEPT ![x] = Failure]
  /\ UNCHANGED <<editVars, schedVars, logVars, cards, of, folder, session>>

SeedFails(x) ==
  /\ pc[x] = "holding"
  /\ pc' = [pc EXCEPT ![x] = "judging"]
  /\ folder' = NoRun
  /\ outcome' = [outcome EXCEPT ![x] = Failure]
  /\ UNCHANGED <<editVars, schedVars, logVars, cards, of, session>>

SpawnSession(x) ==
  /\ pc[x] = "holding"
  /\ pc' = [pc EXCEPT ![x] = "awaiting"]
  /\ session' = [session EXCEPT ![x] = "alive"]
  /\ UNCHANGED <<editVars, schedVars, logVars, cards, of, folder, outcome>>

(* The session ends, whether or not its run still awaits it. *)
SessionEnds(x) ==
  /\ session[x] = "alive"
  /\ session' = [session EXCEPT ![x] = "over"]
  /\ UNCHANGED <<editVars, schedVars, logVars, cards, pc, of, folder, outcome>>

(* dispatch returns what the session answered, and its guard goes. *)
Collect(x, o) ==
  /\ pc[x] = "awaiting"
  /\ session[x] = "over"
  /\ pc' = [pc EXCEPT ![x] = "judging"]
  /\ folder' = NoRun
  /\ outcome' = [outcome EXCEPT ![x] = o]
  /\ UNCHANGED <<editVars, schedVars, logVars, cards, of, session>>
-----------------------------------------------------------------------------
(* run_routine goes on with the answer, without another await. *)

RecordedStatus(x) ==
  IF of[x] \in Quiet /\ outcome[x].ok THEN "silent"
  ELSE IF outcome[x].error THEN "error"
  ELSE "surfaced"

(* Bug: a finding is recorded without a card. *)
NeedsCard_Never(x) == FALSE

NeedsCard(x) == RecordedStatus(x) = "surfaced"

FinishTask(x) == busy' = [i \in Ids |-> IF busy[i] = x THEN NoRun ELSE busy[i]]

(* A run that found something gets a card: it is created, and then marked    *)
(* with the run it belongs to.                                               *)
CreateCard(x) ==
  /\ pc[x] = "judging"
  /\ NeedsCard(x)
  /\ pc' = [pc EXCEPT ![x] = "linking"]
  /\ UNCHANGED <<editVars, schedVars, logVars, cards, of, folder, session, outcome>>

LinkCard(x) ==
  /\ pc[x] = "linking"
  /\ pc' = [pc EXCEPT ![x] = "surfacing"]
  /\ cards' = cards \cup {x}
  /\ UNCHANGED <<editVars, schedVars, logVars, of, folder, session, outcome>>

Updated(x, status) ==
  [k \in DOMAIN runs |->
     IF runs[k].run = x THEN [runs[k] EXCEPT !.status = status] ELSE runs[k]]

(* Bug: the newest run of the routine is updated, not this one. *)
ReadForRecord_OfNewest(x) ==
  LET newest == {k \in DOMAIN runs :
                   runs[k].routine = of[x] /\ \A j \in Positions(runs, of[x]) : j <= k}
  IN  /\ pc[x] = "surfacing" \/ (pc[x] = "judging" /\ ~NeedsCard(x))
      /\ pc' = [pc EXCEPT ![x] = "recording"]
      /\ HoldDraft(x, [k \in DOMAIN runs |->
                         IF k \in newest THEN [runs[k] EXCEPT !.status = RecordedStatus(x)]
                                         ELSE runs[k]])
      /\ UNCHANGED <<editVars, schedVars, cards, of, folder, session, outcome>>

(* The status is recorded, if the run has not been pruned or lost meanwhile. *)
ReadForRecord(x) ==
  /\ pc[x] = "surfacing" \/ (pc[x] = "judging" /\ ~NeedsCard(x))
  /\ \E k \in DOMAIN runs : runs[k].run = x
  /\ pc' = [pc EXCEPT ![x] = "recording"]
  /\ HoldDraft(x, Updated(x, RecordedStatus(x)))
  /\ UNCHANGED <<editVars, schedVars, cards, of, folder, session, outcome>>

WriteRecord(x) ==
  /\ pc[x] = "recording"
  /\ pc' = [pc EXCEPT ![x] = "done"]
  /\ WriteDraft(x)
  /\ FinishTask(x)
  /\ UNCHANGED <<editVars, started, jobs, astray, total, made, cards, of, folder, session, outcome>>

(* A file cannot be read or written, or the run is not found: `?` leaves the *)
(* run as it is.                                                             *)
GiveUp(x) ==
  /\ pc[x] \in Drafting \cup {"judging", "linking", "surfacing"}
  /\ pc' = [pc EXCEPT ![x] = "abandoned"]
  /\ draft' = [draft EXCEPT ![x] = <<>>]
  /\ missed' = [missed EXCEPT ![x] = {}]
  /\ FinishTask(x)
  /\ UNCHANGED <<editVars, started, jobs, astray, runs, total, made, lost, cards,
                 of, folder, session, outcome>>
-----------------------------------------------------------------------------
(* The client of a run-now request goes away, and its handler is dropped; or *)
(* a run whose task was aborted while it ran comes to its next await.        *)
ClientGone(x) ==
  /\ pc[x] \in Droppable
  /\ busy[of[x]] # x
  /\ Drop({x})
  /\ UNCHANGED <<editVars, schedVars, logVars, cards, of, session, outcome>>

(* The engine dies and comes back: its tasks are gone, wherever they were;   *)
(* files stay, and so do the CLIs, which are processes of their own.         *)
Restart ==
  /\ edit' = [e \in Edits |-> "idle"]
  /\ list' = [e \in Edits |-> Unlisted]
  /\ started' = FALSE
  /\ jobs' = AllAborted
  /\ busy' = [i \in Ids |-> NoRun]
  /\ folder' = NoRun
  /\ pc' = [x \in Runs |-> IF pc[x] \in InProgress THEN "abandoned" ELSE pc[x]]
  /\ draft' = [x \in Runs |-> <<>>]
  /\ missed' = [x \in Runs |-> {}]
  /\ UNCHANGED <<routines, born, astray, runs, total, made, lost, cards, of, session, outcome>>

EditStep(e) ==
  \/ \E i \in Ids : DeleteRoutine(e, i)
  \/ \E i \in Ids, r \in Routine : CreateRoutine(e, i, r) \/ UpdateRoutine(e, i, r)
  \/ WriteRoutines(e) \/ EditFails(e) \/ SyncAfterEdit(e) \/ EditDropped(e)

RunStep(x) ==
  \/ WriteRun(x) \/ TakeFolder(x) \/ Conflict(x) \/ SeedFails(x) \/ SpawnSession(x)
  \/ SessionEnds(x) \/ \E o \in Outcome : Collect(x, o)
  \/ CreateCard(x) \/ LinkCard(x) \/ ReadForRecord(x) \/ WriteRecord(x) \/ GiveUp(x)

Next ==
  \/ \E e \in Edits : EditStep(e)
  \/ SchedulerSync \/ SchedulerStart \/ SchedulerStop \/ SetTimezone
  \/ \E i \in Ids, x \in Runs : Fire(i, x) \/ RunNow(i, x)
  \/ \E x \in Runs : RunStep(x) \/ ClientGone(x)
  \/ Restart

Spec == Init /\ [][Next]_vars
-----------------------------------------------------------------------------
(***************************************************************************)
(* Safety.                                                                 *)
(***************************************************************************)

(* A session that a run still awaits works under the folder's guard, so two  *)
(* such sessions never share the folder; and a guard is never left behind by *)
(* a run that is over, aborted or dropped.                                   *)
FolderIsGuarded ==
  /\ \A x \in Runs : pc[x] \in {"holding", "awaiting"} => folder = x
  /\ folder # NoRun => pc[folder] \in {"holding", "awaiting"}

(* A status other than "running" is the run's own, judged from its answer,   *)
(* and the run is over; a run that was recorded is not left "running" unless *)
(* another run, which had read the file before, wrote over the record.       *)
RunsTellTheirOutcome ==
  \A k \in DOMAIN runs :
    LET x == runs[k].run
    IN  /\ runs[k].status # "running" => pc[x] = "done" /\ runs[k].status = RecordedStatus(x)
        /\ pc[x] = "done" /\ x \notin lost => runs[k].status # "running"

Newer(x) == {y \in Runs : of[y] = of[x] /\ made[y] > made[x]}

(* The history lists runs that were made, each once, in the order they were  *)
(* written, and at most MaxRuns of a routine; and a run with fewer than      *)
(* MaxRuns newer ones of its routine is listed unless a write that had not   *)
(* seen its own went over it.                                                *)
HistoryKeepsNewest ==
  /\ \A k \in DOMAIN runs : made[runs[k].run] > 0 /\ runs[k].routine = of[runs[k].run]
  /\ \A j, k \in DOMAIN runs : j < k => made[runs[j].run] < made[runs[k].run]
  /\ \A k \in DOMAIN runs : Cardinality({j \in Positions(runs, runs[k].routine) : j > k}) < MaxRuns
  /\ \A x \in Runs :
       made[x] > 0 /\ x \notin lost /\ Cardinality(Newer(x)) < MaxRuns =>
         \E k \in DOMAIN runs : runs[k].run = x

(* Once every edit has synced, a running scheduler that was told of them all *)
(* and could read the file has a task for every enabled routine whose        *)
(* schedule is valid, and none for a routine that is disabled or gone.       *)
JobsFollowRoutines ==
  started /\ ~astray /\ (\A e \in Edits : edit[e] # "written") =>
    \A i \in Ids :
      /\ ~Enabled(routines, i) => jobs[i] = NoJob
      /\ Enabled(routines, i) /\ routines[i].schedule \in Valid => jobs[i] # NoJob

(* The board and the history agree: only a run that found something gets a   *)
(* card, and a run recorded as surfaced was given one.                       *)
CardsAreSurfacedRuns ==
  /\ \A x \in cards : RecordedStatus(x) = "surfaced" /\ session[x] = "over"
  /\ \A k \in DOMAIN runs : runs[k].status = "surfaced" => runs[k].run \in cards
=============================================================================
