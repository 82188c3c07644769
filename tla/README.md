# Qaio desktop: a TLA+ verification project

Qaio desktop runs coding agents: provider CLIs (claude, codex, agy, kimi) that a
Rust engine starts, watches and stops on behalf of a desktop app, a mobile web
client and cron routines. This directory holds TLA+ modules translated from the
code, TLC configurations that check them on small instances, and proofs that
TLAPS checks for every instance. What they cover is where the program is hard:
tasks, processes, sockets and files that meet in orders nobody wrote a test for.

    tlc -workers 2 -config SessionQueue.cfg MCSessionRuntime   # a run
    tlapm SessionRuntime_proofs.tla                            # a proof module

`PROJECT.json` lists the components, the runs with their properties, the source
lines behind every definition, the hazards, and for every property of a passing
run a mutant: an operator next to the real one (its name has a suffix, its
comment starts with "Bug:") that breaks the property.

## Inventory

Paths are below `src/`. "State" is what outlives one call. `PROJECT.json` lists
every part with its sources, also the mostly stateless ones (parsers, skills,
installers, database access), and why it is modelled or not.

| Component | State | Operations | Hard part |
|---|---|---|---|
| Session runtime, `engine/qaio-engine-core/src/sessions/{mod,control}.rs` | SessionControl (generation and count by conversation), turn locks, WorkdirActivity, pid map | `start`, `run_start`, `cancel` | every message is a task of its own; stops come at any time; five maps under five locks |
| Session runner and CLIs, `qaio-agents-conversations/src/session_runner.rs`, `qaio-terminal-manager` | the channel of updates, the CLI process, the resume id | `spawn_and_monitor`, `spawn_session`, `run_cli_process`, retry | pid and status arrive late; a refused resume starts a second process |
| Session ids and chat history, `session_id_tracker.rs`, `sessions/history.rs` | memory, `.sid`, `.history` and `.invalid` files, rows of `chat_feed` | get, set, clear, store a row, find rows | copies written one after the other; rows stored by tasks under an id that arrives late or is refused |
| Mission board, `agents/activity.rs` | `activity.json` | create, update, set status | written by turns, runs and the user |
| Agent JSON files, `agents/store.rs`, `qaio-agent-files` | one file per list | read, change, write | one temporary name for all writers, no lock |
| Routines, `engine-core/src/routines` | `routines.json`, `routine_runs.json`, cron tasks, folder guard | edit, sync, fire, run now, dispatch, record | futures dropped half-way; history pruned under runs in progress; two routes with two types for one file |
| Process termination, `sessions/process_kill` | none | `terminate_process_tree` | the tree forks while it is being killed |
| Event forwarding, `engine-server/src/ws.rs` | subscriptions, bounded queue, statuses that wait | forward, flush, lag | order and loss when the queue is full |
| Engine client, `ui/engine-client/src/ws.ts` | topics, the socket, the timer | subscribe, reconnect, handlers | events between a refetch and the new subscription |
| Provider login, `provider/login_session.rs`, `provider-picker.tsx` | the list of logins; the spinner and the codes of the picker | launch, register, cancel, watch | a list looked at in three critical sections; a spinner that only an event ends |
| Tunnel client, `qaio-tunnel` | the socket to the relay, the legs it proxies | connect, dispatch, reconnect | the end of a session waits for its writer, reordered legs |
| Relay, `qaio-relay/src/tunnel-do.ts` | the desktop's socket, mobile sockets, pending requests | register, proxy, time out, close, hibernate | a replaced socket against its late close, a cap checked before an await |
| Mobile access, `engine-server/src/mobile_access.rs`, `qaio-db` | the secret of the QR code, device tokens | pair, redeem, reset | one mutex around all three |
| Desktop shell, `app/src-tauri/src/{lib,engine_supervisor}.rs` | the engine process, its slot, the handshake | start, restart, announce | a thread, a setup closure and a page that load independently |
| Desktop client, `app/src/lib/{engine,events}.ts`, `app/src/hooks` | the client, the shared socket, queued messages | apply a handshake, subscribe, queue, flush | answers about an engine that is gone |

How they interact: HTTP handlers call the session runtime and the routines; both
drive the session runner, which talks to a CLI process through a channel and
reports through the event bus; the bus feeds the forwarder of every WebSocket
client; mobile clients reach the same handlers through relay and tunnel; cards,
routines and run histories are JSON files that all of them write; the desktop
shell starts the engine, starts it again when it dies and tells the page where
it is.

## Modules

| Module | Role | Runs |
|---|---|---|
| `SessionRuntime` | the session runtime, the runner and the driver of the CLI | through `MCSessionRuntime` |
| `TurnQueue` | what the runtime promises: messages wait for each other, a stop dooms the ones that wait, a doomed message never runs and no other is dropped | refined by `SessionRuntime` |
| `Routines` | one agent's routines: edit routes, cron scheduler, runner, history, folder guard | through `MCRoutines` |
| `TunnelLink`, `TunnelRoom`, `TunnelClient` | the sockets between desktop and relay; the relay's durable object; the engine's side | composed by `Tunnel`, through `MCTunnel` |
| `EventStream` | the engine's events on their way to one client that reconnects | through `MCEventStream` |
| `ChatHistory` | resume ids and stored rows of one conversation | through `MCChatHistory` |
| `ProviderLogin` | signing in to a provider, from the picker to the process | through `MCProviderLogin` |
| `DesktopShell` | supervisor, setup and page | directly |
| `JsonStore` | the missions of an agent in their file | through `MCJsonStore` |
| `SessionRuntime_proofs`, then `SessionTurns_proofs`, which extends it | theorems about `SessionRuntime` and its refinement of `TurnQueue` | |
| `Routines_proofs`, `ProviderLogin_proofs`, `DesktopShell_proofs`, `ChatHistory_proofs`, `Tunnel_proofs`, `EventStream_proofs` | theorems about the module each is named after | |

The modules meet at the facts one takes from another: `ChatHistory` lets turns of a
conversation come one at a time, which is `OneProcessPerConversation` of
`SessionRuntime`; `EventStream` starts where an event has been emitted.

### SessionRuntime

A *turn* is one call of `start`; a *stop* is one call of `cancel`. An action is
what a task does between two awaits on something shared.

| Action | Code |
|---|---|
| `Start` | `start`: registration, spawn, return |
| `Enqueue`, `CannotCreateAgentDir` | the task reaches the turn lock, or cannot create the agent's directory |
| `SkipStale`, `Proceed` | the lock is ours: `is_stale` |
| `SeedFails`, `RegisterWorkdir` | `seed_agent`, then the window of the working directory opens |
| `MarkRunning` | resume id, card to running, runner spawned |
| `Launch`, `LaunchFails`, `Exit`, `RetryFresh` | the driver: `run_cli_process` and the providers' retries |
| `HandleUpdate`, `RunnerEnds` | the runner's loop and its end |
| `FinishWorkdir`, `Settle`, `Finish`, `Release` | the end of `run_start` |
| `ReportFailure` | the wrapper in `start` |
| `Cancel`, `TakePid`, `ConfirmDead`, `ReportStop` | `cancel` |

The maps appear as functions over all keys: an entry of SessionControl or
WorkdirActivity exists exactly when its count is above zero, as the code removes
it at zero. A turn lock is the queue of the tasks at it, its holder first: tokio's
mutex is fair. `stopped`, `shared`, `covered` and `lastEnd` (how the last CLI of a
conversation ended) are history, read by properties only.

Abstractions. Feed items, prompts, authentication messages, chat persistence and
the snapshots' contents are left out. File operations succeed and are atomic; the
concurrent writes of one JSON file are the subject of `JsonStore`. A CLI that refuses its
prompt has exited. codex reports a missing rollout only for a thread it was asked
to resume. A process id is not reused while the map holds it.
`terminate_process_tree` returns when the process is gone (the code gives up after
its timeouts; then it warns and goes on to report). Runner tasks do not panic.
Conversations have session keys of their own, as those of first-party clients do.

### Routines

A *run* is one call of `run_routine`. Cron tasks and run-now handlers are futures:
`Drop` says what becomes of the run when one is dropped (by a sync that aborts its
task, a timezone change, a stop of the scheduler, a client that goes away): where it
awaits, it never goes on and its guard is released; between its last await and its
end it completes. The session it spawned is a task of its own and lives on.

| Action | Code |
|---|---|
| `CreateRoutine`, `UpdateRoutine`, `DeleteRoutine`, then `WriteRoutines` or `EditFails` | the routes `/routines` and `/agents/routines`: the list is read and changed, then written |
| `SyncAfterEdit`, `EditDropped` | the sync of such a request, or its end at the scheduler's lock |
| `SchedulerSync`, `SchedulerStart`, `SchedulerStop`, `SetTimezone` | the scheduler's operations, each with its whole `sync` |
| `Fire`, `RunNow`, then `WriteRun` | the beginning of `run_routine`: the routine and the history are read, a run added, the history pruned; the write |
| `TakeFolder`, `Conflict`, `SeedFails`, `SpawnSession`, `Collect` | `dispatch` |
| `SessionEnds` | the spawned session |
| `CreateCard`, `LinkCard`, `ReadForRecord`, `WriteRecord`, `GiveUp` | the rest of `run_routine`; `?` |
| `ClientGone`, `Restart` | the environment |

Neither `routines.json` nor `routine_runs.json` is locked. Who changes one holds a copy
(`list`, `draft`) from its read to its write, and the write goes over what others
wrote in between. `missed` and `lost` are history: a run is `lost` once a write went
over one of its own that the writer had not seen. `RunsTellTheirOutcome` and
`HistoryKeepsNewest` exempt exactly these runs, and so say that an overlap does no other
harm; a lost run may say "running" for ever or be gone from the file. A sync takes a
list that it cannot read for empty and aborts every task, and a request dropped at the
scheduler's lock never syncs: `astray` marks a scheduler that either happened to last,
and `JobsFollowRoutines` exempts it.

Abstractions. Time is left out: a cron task may fire whenever it sleeps; timezones
have no part in who has a task and are left out with it. Whether a routine suppresses
silent runs never changes. A session is alive from its spawn. A read is one step and
a write is one step: what two writers do to each other in the one temporary file is
the subject of `JsonStore`. The card is created and then linked to its run, two
writes of `activity.json`, whose own reads and other writers are `JsonStore`'s too:
`cards` are those the run has put on the board, whether or not another writer or the
user takes them off it later. A card that is created but never linked is not in `cards`.
The create-run and update-run routes are not modelled; no first-party client calls
them. A CLI outlives the engine that started it, or not: `SessionEnds` may come
at any time.

### TunnelLink, TunnelRoom, TunnelClient, Tunnel

A *socket* is one dial of the desktop. Every handler of the durable object runs to
its next await as one action; the client's loop, its writer, a call and a leg are
tasks.

| Action | Code |
|---|---|
| `Register` | `connect_async` and `handleDesktopRegister`, which replaces an older socket |
| `Arrive`, `PairWithoutCode`, `Forward`, `TimeOut` | `handleProxyHttp` and `handlePairRequest` before and after the await of the body, and their timer |
| `OnDesktopMessage` | `onDesktopMessage` with what each kind of frame does |
| `DesktopSocketCloses`, `Watchdog`, `AlarmWithoutDesktop`, `Hibernate` | `webSocketClose`, `alarm`, the constructor |
| `PhoneOpens`, `PhoneSends`, `PhoneCloses` | `handleMobileWs`, `onMobileMessage`, the close of a phone |
| `Dispatch`, `RunCall`, `LegConnects`, `LegRefused`, `EngineSends`, `EngineCloses` | `dispatch`, `proxy_http`, `redeem`, `proxy_ws_open` and its pumps |
| `WriterSends`, `WriterFails`, `WriterDone` | the writer task of a session |
| `StreamEnds`, `RoomFallsSilent`, `SessionOver` | the end of the read loop, its watchdog, `writer.await` |
| `CutLink`, `DesktopFallsSilent` | a network path that dies without telling either end; time |

Abstractions. A 400 or 502 that `proxy_http` makes itself (`proxy.rs:48-57`, 101-109)
is a reply like the engine's: `ran` counts the calls taken up for the engine, not
those it has seen. Pings are not frames: what their absence does is an action of the end
that misses them. Frame contents, sizes and their caps, the worker's routing,
allocation and the new allocation after a 401 or 403 are left out. A pairing call
counts as a call whose answer is the engine's. `webSocketClose` of a phone stands
for `webSocketError` too.

### EventStream

One client and one connection at a time. `Forward` is one turn of the forwarder's
loop (marker, lag, an event passed over, queued or overflowing, statuses flushed
behind it); `OnOpen`, `OnClose`, `Subscribe`, `Unsubscribe`, `OnMessage` are
EngineWebSocket; `Refetch` is what an invalidated query does. An event is its kind
(status, streaming delta, other) and session. `newest` and `owed` are history: what
arrived last on this connection, and what the client has still to learn. `Lose`
strikes off what the code itself loses, and these are the exceptions of
`QuietClientIsCurrent`: an event dropped because the queue is full, one skipped
because the receiver lags, one flushed when the queue is full again, and one
forwarded while the sub frame that asks for its topic was still on its way
(`AskedFor`), after a call of subscribe, the first connect or a reconnect. So the
property does not find these losses; it shows that there are no others. A TCP
connection delivers in order or is lost.

### ChatHistory

One conversation that changes its provider from turn to turn. `StartTurn` loads the
handle, `Announce` and `ResumeInvalid` put the file operations of `set` and
`clear_current_preserving_history` on `todo`, which `WriteFile` does one at a time;
`StoreMessage`, `FeedItem` and `Insert` store rows as the runner does, in tasks of
their own; `RetryFresh` begins again without an id; `Restart` may come between any
two of these and leaves files and rows only. `interrupted` is history: the refused
ids whose clearing a crash cut between the append to `.invalid` and the removal of
`.sid`, which the next engine asks for again. A crash anywhere else in a turn is
checked for what files and rows then say, not for the id the next engine resumes
with: `RestartAgrees` is about an end between two turns.

Abstractions. A CLI that resumes a session announces the id it was given. The code
announces it with each line that tells it (`session_io.rs:79-81`), the model once
per process: the writes of the second time change nothing. File writes do not fail and
are atomic. A conversation has one folder. The order of rows is left out.

### ProviderLogin

A *login* is one request to sign in. `ClickSignIn`, `ClickCancel`, `HandleEvent` and
`Remount` are the picker; `Launch`, `CancelPrevious`, `Push` the three stretches of
`launch_login` and `register` between locks; `WatcherStarts` to `EmitComplete` the
watcher task; `HandlerDropped` a handler whose client went away. `Cleaned` removes
all sessions of the provider, as the code does, not the watcher's own. The list is
kept as a set: with two sessions of a provider, which happens, either may be first.
A notify permit is kept for a watcher that does not wait yet (`notify_one`). A listed
login may be one that is over and not yet cleaned up: a cancel may spend itself on it
(`ListedUntilCleanup`).

Events come on the WebSocket of `EventStream`, whose losses are one action here:
`LoseEvent` takes any event on its way, for a full queue, a socket that connects
again, or a handler left on the socket of an engine that is gone. `EngineRestarts`
takes the list, the tasks, the events and the requests without an answer, and leaves
login processes alive or not. `unheard` is history: the providers of which a report
was lost since "Sign in" was clicked. It is the exception of `SpinnerHasReason`, so the
property does not find a spinner that turns for a lost report; it shows that nothing
else, a failed launch, a dropped handler, a cancel or an overtaken login, leaves one.

### DesktopShell

Engines are numbered in the order of their start, and an address is the number of
its engine. The supervisor's `LockAndWait` keeps the mutex of the slot until
`ExitSeen`, as the guard in the code lives through `wait()`; `ReadSlot` of the setup
closure needs the same mutex. `Inject`, `Announce` and `PullHandshake` are the three
ways on which the page learns the address. `PullAnswered` is the answer of a
question that is on its way, and it comes in no order with the events: the code does not look at its client again after the await. `PullTimesOut`
is the 60 s deadline, which a setup can outlast that waits for a banner (`read_line`
does not heed its timeout) or for the mutex. `Mount` and `Unmount` are hooks that
put handlers on the shared socket. `followed` is history: the last restart told to a
page that had a client and awaited no answer.

Abstractions. An engine whose `spawn` fails counts as dead. The code kills it when
its banner is late, and lets it alone when its output is closed or cannot be read
(`engine_supervisor.rs:140-145`): that such an engine is over is an assumption. A
deadline that passes when setup is done is left out: then the pull has its address.
A hook's handler lives on the socket it mounted on. Tauri's `emit` reaches the
listeners that are registered when it is called, in order. The page reloads from
inside the app only.

### JsonStore

A *request* reads the list, changes it and writes it back: the routes of the
missions, and the engine's own turns that set a card's status. Actions are the
system calls: `ReadJson`, `CreateTmp`, `WriteTmp`, `Rename`. Files are inodes, so
that a writer who still has a file open goes on writing it after another's rename.
The text of a list is its rows and a closing bracket; a shorter list written over a
longer one leaves the tail of the longer one.

## Runs

| Run | Instance | Shows |
|---|---|---|
| `SessionConversation` | 2 messages of a resumable conversation, 2 stops; 1.0 million states | one CLI per conversation, stopped turns never run, registrations are counted exactly, pids belong to monitored turns, the card says running or how the last run ended |
| `SessionFolder` | 3 conversations in one folder, one of them new, 1 message each; 2.6 million | overlap is detected exactly; card and events end with the same final status |
| `SessionQueue` | 2 messages, 1 stop, fair; 145 000 | refinement of `TurnQueue`; every turn ends, every stop answers |
| `Routines` | 1 routine, 2 runs, history of 1, 2 edits under way; 1.9 million | guard, history, tasks and cards are as consistent as unlocked writes can leave them |
| `TunnelCalls` | 2 HTTP calls and a pairing call, 3 dials, 1 cut or hibernation, 1 call at a time, fair | every call is answered once and told whether it was taken up; none is taken up twice |
| `TunnelPhones` | 1 phone with 2 messages each way, 3 dials, 1 cut or hibernation, fair | order in both directions, no phone left on a dead leg, a broken session redials |
| `EventStream` | 2 sessions, 4 events, broadcast of 3, queue of 1 or 2, 1 lost connection | subscriptions agree, a quiet client has missed only what overflow, lag or a late sub frame took, other events come in order |
| `ChatHistory` | 3 providers (early and listed, late and listed, late and unlisted), 3 ids, 3 turns, 1 crash; 4.9 million | rows are found again, a restart between turns resumes the same, refused stays refused but for a clearing cut short, transcripts of early providers are whole |
| `ProviderLogin` | 2 logins of a provider with device codes, 1 of another, events lost, engine restarts; 4.4 million | a login stays listed until its cleanup at most, a spinner has a reason or lost its report, a cancel is never lost |
| `DesktopShell` | 3 engines, 2 hooks, fair page; 63 000 | one engine at a time, the page gets past its gate, a restart reaches the client and the shared socket |
| `SessionStopWindow` | 1 message, 1 stop | violated, see below |
| `StoreTorn` | 3 requests about 2 missions | violated, see below |

Bounds, and why they are enough.

- Sessions: two messages and two stops give every order of two turns around a stop
  and of two stops around a turn: entries that go and come back, a retry while
  another turn waits, a pid taken twice. Three runs in a folder are the smallest
  chain in which a run overlaps two others that do not overlap each other.
  Generations are bounded by the number of turns and stops.
- Routines: two runs with a history of one make a run lose its record while it is in
  progress, to the pruning of the other or to its write. `Edits` are the requests
  under way at one time; each may be used again, so any number of edits come one
  after the other. A second routine beside the second edit is beyond TLC; it is what
  the proofs add.
- Tunnel: three dials are a session, the one that replaces it and one that replaces
  that while the close of the first is still to come. One fault at each place of
  every interleaving; the closes that the code itself causes are not counted. A cap
  of one call and two callers reach the cap. The last dial may not be followed by
  another, so the liveness properties speak of what precedes it or holds without it.
- EventStream: queues of one and two are full at once, two also with room for a part
  of the statuses that wait; a broadcast of three with four events lags. Sessions
  are interchangeable. The view leaves out the kind and session of events that
  neither queue nor receiver nor history will look at again: states that differ in
  these have the same futures, and no property reads them.
- ChatHistory: three turns are a session, the turn that finds it refused and one
  after; three ids give each process one of its own. New ids are interchangeable.
- ProviderLogin: two logins of one provider are the least that compete; the third
  shares the spinner but not the list.
- DesktopShell: three engines are a start, a restart and a restart that meets the
  first one's messages.

Symmetry is used only where no liveness is checked. Deadlock checking is off where
the bounded system comes to its end, which each `.cfg` says; `Routines` checks it.

Fairness. tokio polls every task that can go on, so the steps of turn, runner,
driver and stop (`SessionRuntime!FairSpec`) are weakly fair, and so are those of the
tunnel client's tasks. Mutex queues are part of the state and need no more. That a
CLI exits at last is an assumption about the provider and, after a stop, about
KILL. In the tunnel, timers fire, frames in flight and closes are delivered, and the
engine answers each call and leg it is asked for; `WriterFails` is fair because a
leg gives its writer something to send at least every 20 seconds, the engine's
ping, and a session its heartbeat. In `DesktopShell` only the page's own steps are
fair (its loading, its pull and the answers, its messages), not its registration for
events nor its deadline; no engine has to start, no setup to be done. No step of a user, a phone or the
environment is fair anywhere.

### Where the code departs from its comments

Two are runs that TLC finds violated; `PROJECT.json` quotes the lines.

| Run | Promise | What happens |
|---|---|---|
| `SessionStopWindow` | after Stop the process is gone | a stop between the stale check and the arrival of the pid finds no pid, reports success, and the CLI runs |
| `StoreTorn` | files are written atomically | two requests write one temporary file; a text is left that nobody can parse, and every later request on the list fails |

The following were met while translating the code. Each is in the models where
they reach it, none has a run of its own, and no property above claims the contrary.

Sessions and board (below `engine/qaio-engine-core/src/sessions`).
- `start` returns before its task reaches the turn lock: a follow-up may overtake
  (`mod.rs:174`, comment at 101-103).
- The pid a stop takes may belong to a message sent after the stop (`mod.rs:404`,
  `control.rs:157`).
- A new card is born "running"; a turn that is skipped or fails before its run never
  flips it (`mod.rs:175`, 283-289).
- The second snapshot is taken after the window of the run is closed (`mod.rs:296`).
- The history of a mission in a worktree is looked up under the agent's folder
  (`engine-server/src/routes/sessions.rs:175`).
- Answers of agy are never stored, since its id comes last, so its replay is never
  skipped (`session_runner.rs:244`, 441-443). Kimi is missing from `PROVIDERS`: its
  history is never shown.
- The pid map is keyed by the session key alone (`session_pids.rs:16`).
- An engine that dies between the append to `.invalid` and the removal of `.sid` leaves
  a refused id that the next one asks for again
  (`qaio-agents-conversations/src/session_id_tracker.rs:147-150`).

Routines (below `engine/qaio-engine-core/src/routines`).
- A sync keeps the cron task there is, with its old schedule, also when the new one is
  not valid (`scheduler.rs:94`, `knowledge-base/engine-protocol.md:175`).
- A sync that cannot read the routines aborts all cron tasks (`scheduler.rs:72`).
- Runs of one agent that overlap lose each other's records in `routine_runs.json`
  (`runs.rs:26-70`), as edits lose each other in `routines.json` (`mod.rs:60-124`).
- A write through `/agents/routines` drops every routine's timezone
  (`routines/types.rs:26-27`). Timezones are not modelled.
- ROUTINE_OK is looked at before the error (`runner.rs:117`, 40).
- A dropped run gives up the folder while its session works on
  (`engine_dispatcher.rs:103`, `knowledge-base/files-first.md:111-113`).

Relay and tunnel.
- After a hibernation the watchdog counts from zero and may close a healthy desktop
  (`tunnel-do.ts:67`, 38-42).
- The close of a replaced socket forgets its successor (`tunnel-do.ts:279`); a desktop
  the room has forgotten stays connected for as long as a leg holds its writer
  (`connection/session.rs:125`, `connection.rs:29-31`).
- A pairing call failed by `failAllPending` gets HTTP 400; the cap on calls is checked
  before an await and can be exceeded.

Events.
- A client that subscribes before it starts a session is called free of races
  (`engine-server/src/routes/sessions.rs:11-15`), but the sub frame and the request
  travel apart: events may be passed over before the frame is there.
- The lag marker is tried on the queue that was just full and almost never gets in
  (`ws.rs:208-213`); no first-party client acts on it.
- A status that waited is sent after a newer one (`ws.rs:187`, 10-11), and the `break`
  in the flush loses those drained after it (`ws.rs:188-193`).

Desktop.
- Hooks mounted before a restart of the engine keep their handlers on the
  disconnected socket (`engine.ts:150-162`, comment at 136-138).
- `EngineHandshakeState` is not updated by `on_restart`: a page reloaded after one gets
  the address of the dead engine (`lib.rs:20`), and an answer that comes after the
  event of a restart puts the first engine back (`engine.ts:71-75`).
- The engine has no `spawn_parent_watchdog`, and nothing in it reads its standard input:
  an engine left by a failed spawn or an aborted app goes on
  (`engine_supervisor.rs:52-57`, 77-82, `knowledge-base/engine-server.md:72`, 85).
- The timeout of the banner is looked at between two lines: an engine that prints
  nothing is awaited for as long as it lives (`engine_supervisor.rs:132-142`).
- The supervisor may take the slot's mutex before setup reads it; setup then hangs
  until the engine dies (`engine_supervisor.rs:398-400`, `lib.rs:217`).
- Two requests to sign in to one provider may both run, and the watcher of a login
  that ended removes the entry of the one that follows (`login_session.rs:34-36`, 57,
  3-4). A `Complete` of one provider ends the spinner of another.
- A cancel takes the first login of its provider in the list, which may be over
  already while another one runs on (`login_session.rs:75`).
- A `Complete` that the socket or a restart of the engine loses leaves the spinner
  turning: nothing repeats it, and the picker's poll of the statuses does not end it
  (`login_session.rs:4-6`, `provider-picker.tsx:57-85`).
- Messages queued while the queue is flushed wait for the next change of status, and
  a flush that fails loses its messages (`use-session-message-queue.ts:64-73`,
  `knowledge-base/engine-protocol.md:122-124`).
- The Composio watcher looks and inserts under two locks: two may run for one
  connection (`connection_watcher.rs:79-103`).

## Proofs

Every safety property of a passing run is a theorem, for every value of the
constants that satisfies the module's ASSUME; `ImplementsTurnQueue`, the refinement,
is one too. The proofs share one shape. The property is seldom inductive, so a module
defines an invariant that is, proves in lemmas that each action keeps it (one per
group of actions, one step per conjunct it can disturb), and combines them in a
temporal step.

`SessionRuntime_proofs`, from `RuntimeAssumption` (the constants are functions
between the sets they relate; `NoProcess` is no process):

- `TypeCorrect`: types.
- `MutualExclusion`: `OneProcessPerConversation`. That two turns do not run at once is
  a fact about locks, not about processes. `SafetyInv` adds `LockInv` (a turn past the
  lock is at the head of its conversation's queue) and `CliInv` (a living process is
  the current attempt of a driver that watches it, a driver that is not closed belongs
  to a turn that is being monitored). Two living processes of one conversation then
  belong to the head of one queue and to its one current attempt.

`SessionTurns_proofs`, over `RuntimeInv`, which has `SafetyInv` as a part:

- `ControlCorrect`: `ControlCountsTurns`. A cardinality that each registration and
  each leave moves by one.
- `StopCorrect`: `StoppedTurnNeverRuns`. `DoomInv`: the generation a waiting turn
  holds is at most that of its conversation's entry, and differs from it exactly when
  a stop overtook the turn. Generations start over when the entry goes; that no
  waiting turn then meets an old number follows from `ControlCountsTurns`.
- `PidsCorrect`: `PidsAreOurs`. `ClosedInv`: a turn past its monitor has no driver left
  whose pid could still arrive.
- `BoardCorrect`: `BoardFollowsRuns`. `EndInv` follows the end of the CLI to the card:
  once the driver is closed, an error was the CLI's end exactly when `failed` says so or
  an error is still in the channel, and the channel is empty when the runner has joined.
  The lock keeps any other turn's flip from coming between.
- `OverlapCorrect`: `OverlapIsExact`. `WindowInv`: the folder's entry counts the runs
  in their windows, and a run was met by another exactly when its registration says so
  or the generation of the folder has moved since.
- `EventsCorrect`: `BoardAgreesWithEvents`. `EventsInv` follows what the run ended with
  from the CLI through the channel of updates: it has been said, or is the last status
  in the channel. It speaks of conversations in which no stop was heeded and no turn
  failed outside its run, which the stop of an idle conversation does not change.
- `QueueRefinement`: `Spec => ImplementsTurnQueue`, initial states to initial states,
  each step to a step of `TurnQueue` or a stutter. The step needs `DoomInv`: a turn is
  skipped for being stale only when the abstract queue has it doomed.

`Routines_proofs`, from `RoutinesAssumption` (among others: "no job" is no job, and
there is a routine id):

- `FolderGuard`: `FolderIsGuarded`, inductive with the types of `pc` and `folder`.
- `RoutinesTypes`: types. Not plain: `Prune` picks entries by their rank among the
  kept, and `RankGrows` and `RankIsOnto` show that every rank is that of one entry.
- `SchedulerFollows`: `JobsFollowRoutines`. Each sync reads all of the file, so an edit
  between its write and its sync is the only thing to account for.
- `HistoryIsTrue`, `HistoryIsNewest`, `CardsAgree`: `RunsTellTheirOutcome`,
  `HistoryKeepsNewest`, `CardsAreSurfacedRuns`. `RunInv` ties a run's place to its
  session and its card, and says that nothing a recorded status depends on changes
  after the answer was judged. `LogInv` says of the file, and of every copy that a run
  holds, what the properties say of the file: of a copy as it will be once written
  (`Stamps`, `Own`) and up to the runs whose writes it has not seen (`missed`). A write
  turns a copy into the file and its `missed` runs into lost ones; every other copy
  then misses one run more (`OtherDraft`). A new entry keeps the order because runs
  are numbered as they are written (`NextStamp`); what `Prune` takes has `MaxRuns` newer
  runs, because an entry's followers in the file are newer (`FollowersAreNewer`).

`ProviderLogin_proofs`, from `LoginAssumption` (every login has a provider):

- `ListIsCurrent`, `CancelIsNeverLost`: `ListedUntilCleanup`, `DismissedAreDoomed`.
  What a cleanup takes from the list, or an exit leaves there, depends on where the
  watcher is, so `LoginInv` adds for every login that before its `Push` it has no
  watcher and is in no set, and that a watcher at its cleanup or past it has seen the
  process dead.
- `SpinnersEnd`: `SpinnerHasReason`, inductive with `LoginInv`: a login whose request was
  answered has a watcher, and a watcher ends with its report. A lost report and a
  restart put the provider among the `unheard`, which only the next click takes out;
  `WithoutOne` is the fact about sequences that a loss keeps every other event.

`DesktopShell_proofs`, from `ShellAssumption` (at least one engine, finitely many
hooks):

- `SingleEngine`: `OneEngine`. That the supervisor starts an engine only when the last
  one is gone follows from where the thread is: `EngineInv` says that engines before
  `latest` are dead and those after it have not begun, that the thread waits on the
  last engine or on an empty slot whose engine is dead, and that it begins with the
  first engine.
- `PageFollowsRestart`: `RestartIsFollowed`. `FollowInv`: the announcement of the
  engine the page has to follow has arrived, or is in the inbox with nothing but
  `ready` messages after it; `LoadInv`: a document whose module has not run has heard
  nothing, and a page with a restart to follow has a client and awaits no answer that
  could put an older engine in its place.

`ChatHistory_proofs`, from `HistoryAssumption` (the ids are finitely many, and the
three special values are no ids and differ), with one invariant, `HistoryInv`:

- `HistoryTypes`, `RestartHarmless`, `RefusalsHold`, `HistoryComplete`,
  `TranscriptComplete`: the types, `RestartAgrees`, `RefusedStaysRefused`,
  `HistoryShowsRows` and `TranscriptIsWhole`. Files, memory and rows disagree in the
  middle of a turn, so `TurnOk` says for each of the file operations still to do what
  is in memory and in each file; `FilesOk` is what holds of a provider in between.
  `RestartHarmless` is about an end between two turns: after a crash memory is empty and
  the formula says nothing. For `RefusalsHold`, `FilesOk` has a refused id in `.sid` only
  as `interrupted`, and each step of a clearing says which of its writes are still to do.
  `TranscriptComplete` is limited to providers that tell their id first; of the others
  the code loses the answers.

`Tunnel_proofs`, from `LinkAssumption` and `AnswerAssumption` (the bounds are numbers,
a call is not both kinds, "none" is no socket and no answer):

- `TunnelTypes`: types, with `LinkInv` and `ClientInv`: which frames travel in which
  direction, and that a session and a leg have their socket.
- `TablesAreRight`, `PhonesAreKept`: `PendingAreUnanswered`, `OpenPhonesAreKnown`.
- `AnswersAreTrue`: `AnswersTellTheTruth`. `CallsInv`: of a call there is at most one
  token, the frame that asks for it, the task that works on it or the fact that it ran.
- `EngineOrder`, `PhoneOrder`: `EngineSeesPhoneOrder`, `PhoneSeesEngineOrder`.
  `LegsInv` says of each place on the way that messages stand in it in order, above
  those that have arrived, and `NoGap` that while phone and socket live nothing
  between what arrived and what was sent is missing.

`EventStream_proofs`, from `StreamAssumption` (capacities are at least one, topics are
finitely many and not the firehose):

- `StreamTypes`: types, and that the outbound queue stays within its capacity: marker
  and flush find room or wait.
- `SubscriptionsConverge`: `SubscriptionsAgree`. `SubInv`: the last request about a
  filter says whether the client wants it; a filter no request mentions is settled.
- `EventsInOrder`: `ArrivesInOrder`. Nothing queued, waiting or arrived is newer than
  the cursor, and only statuses wait.
- `QuietMeansCurrent`: `QuietClientIsCurrent`. `OwedInv`: an event that is owed is
  covered, by a refetch to come, the place of the loop, or a newer event in the queue
  or waiting for it. `LastInv` gives each filter that a request mentions a last word, and
  with `SubInv` the loop passes an event over only when the client does not want it or
  a sub frame for its topic is on its way.

Two properties are stated pointwise, over positions, where a filter of a sequence
would be shorter: `ArrivesInOrder` and `HistoryKeepsNewest`. A filter is a recursive
function, and what a recursive function computes for every input cannot be proved
here.

Model-checked only:

- Liveness (`EveryTurnEnds`, `EveryStopAnswers`, `EveryCallAnswered`,
  `BrokenSessionsRedial`, `NoZombiePhone`, `GateOpens`): it rests on fairness and
  `ENABLED`, which the provers do not reason about.
- The two violations, `SessionStopWindow` and `StoreTorn`, which are counterexamples.

## Plan

Proofs, where more can be said:

1. Of `TurnQueue`, what it is for: order, exclusion and that a doomed message never
   runs, as theorems of the abstract module that `QueueRefinement` carries over.
2. Of `JsonStore`: that a list which one request writes at a time can always be read.
3. Of `Routines`, as an action property: an entry of the history changes only when its
   own run is recorded, and only once.

Modules, where a run can make room: mobile access over the one database connection;
the TERM, grace, KILL sequence over a process tree that forks; the desktop's queue of
messages; `SessionRuntime` and `Routines` over one folder with its snapshots.

## Not modelled

- Parsers, formatters, prompts, skills, installers, the store, the website and the
  examples: transformations of text and downloads, without state that two actors
  share.
- Agents, workspaces and worktrees: sequential file operations behind requests. What
  can go wrong between two of them is what `JsonStore` shows for a list.
- Mobile access: its three operations are serialised by one mutex; what is left is
  the transaction over the shared connection.
- Process termination, the file watcher and Composio's poller: their results enter
  the models as environment (`SessionRuntime!ConfirmDead`, `EventStream!Emit`).
- Views and stores of the clients over the engine's events, beyond the picker, the
  engine client and `engine.ts`.

The lines that "map" names are a small share of the repository, most of which is of
these kinds.
