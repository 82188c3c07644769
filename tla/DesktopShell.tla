------------------------------ MODULE DesktopShell ------------------------------
(***************************************************************************)
(* The desktop app around the engine: the supervisor thread that starts    *)
(* the engine and starts it again when it dies (engine_supervisor.rs), the *)
(* setup of the shell (lib.rs), and the page in the webview, which learns  *)
(* the engine's address on three ways and shares one WebSocket among its   *)
(* hooks (app/src/lib/engine.ts). Engines are numbered in the order of     *)
(* their start; an address is the number of its engine.                    *)
(***************************************************************************)
EXTENDS Naturals, Sequences, FiniteSets

CONSTANTS
  MaxEngines,    \* bound: engines started
  Hooks          \* React hooks that subscribe to events

ASSUME ShellAssumption == MaxEngines \in Nat \ {0} /\ IsFiniteSet(Hooks)

Engines == 1..MaxEngines
None    == 0

VARIABLES
  (* processes and threads *)
  engine,        \* the process of each engine
  latest,        \* the engine started last
  slot,          \* EngineSubprocess in spawn_supervisor's slot
  supervisor,    \* where the supervisor thread is; "waiting" holds the slot's mutex
  setup,         \* where the setup closure is
  handshake,     \* its local variable
  stashed,       \* EngineHandshakeState
  (* the page *)
  page,          \* "blank", "document" (no module has run), "running"
  injected,      \* window.__QAIO_ENGINE__ when the module starts
  client,        \* _client: the engine its QaioClient talks to
  listening,     \* Tauri events the page is registered for
  pull,          \* pullHandshakeWithRetry: "off", "retry", "asked"
  inbox,         \* events on their way to the page, in order
  shared,        \* _ws: the engine of the shared EngineWebSocket
  hooks,         \* the engine of the socket each mounted hook has its handler on
  followed       \* history: the last restart told to a page that had a client and asked for none

pageVars  == <<page, injected, client, listening, pull, inbox, shared, hooks, followed>>
shellVars == <<engine, latest, slot, supervisor, setup, handshake, stashed>>
vars == <<shellVars, pageVars>>

Message == [kind : {"ready", "restarted"}, engine : Engines]

TypeOK ==
  /\ engine \in [Engines -> {"none", "booting", "up", "dead"}]
  /\ latest \in 0..MaxEngines
  /\ {slot, handshake, stashed, injected, client, shared, followed} \subseteq 0..MaxEngines
  /\ supervisor \in {"none", "waiting", "locking", "clearing", "sleeping", "booting", "telling", "storing"}
  /\ setup \in {"booting", "reading", "health", "stashing", "injecting", "announcing", "done", "aborted"}
  /\ page \in {"blank", "document", "running"}
  /\ listening \subseteq {"ready", "restarted"}
  /\ pull \in {"off", "retry", "asked"}
  /\ inbox \in Seq(Message)
  /\ hooks \in [Hooks -> 0..MaxEngines]

NewPage ==
  /\ page' = "blank" /\ injected' = None /\ client' = None /\ listening' = {}
  /\ pull' = "off" /\ inbox' = <<>> /\ shared' = None /\ followed' = None
  /\ hooks' = [h \in Hooks |-> None]

Init ==
  /\ engine = [e \in Engines |-> IF e = 1 THEN "booting" ELSE "none"]
  /\ latest = 1 /\ slot = None
  /\ supervisor = "none" /\ setup = "booting" /\ handshake = None /\ stashed = None
  /\ page = "blank" /\ injected = None /\ client = None /\ listening = {}
  /\ pull = "off" /\ inbox = <<>> /\ shared = None /\ followed = None
  /\ hooks = [h \in Hooks |-> None]

Running == setup # "aborted"

(***************************************************************************)
(* The engine processes                                                    *)
(***************************************************************************)

\* The engine prints its banner and serves.
Banner ==
  /\ engine[latest] = "booting"
  /\ engine' = [engine EXCEPT ![latest] = "up"]
  /\ UNCHANGED <<latest, slot, supervisor, setup, handshake, stashed, pageVars>>

\* It crashes, closes its output without a banner, or is killed when the banner is late.
EngineDies ==
  /\ engine[latest] \in {"booting", "up"}
  /\ engine' = [engine EXCEPT ![latest] = "dead"]
  /\ UNCHANGED <<latest, slot, supervisor, setup, handshake, stashed, pageVars>>

(***************************************************************************)
(* The supervisor thread                                                   *)
(***************************************************************************)

\* slot_clone.lock(): the guard lives until wait() returns.
LockAndWait ==
  /\ supervisor = "locking"
  /\ supervisor' = "waiting"
  /\ UNCHANGED <<engine, latest, slot, setup, handshake, stashed, pageVars>>

\* wait() returns when the process is gone, or at once when there is none.
ExitSeen ==
  /\ supervisor = "waiting"
  /\ slot # None => engine[slot] = "dead"
  /\ supervisor' = "clearing"
  /\ UNCHANGED <<engine, latest, slot, setup, handshake, stashed, pageVars>>

ClearSlot ==
  /\ supervisor = "clearing"
  /\ slot' = None
  /\ supervisor' = "sleeping"
  /\ UNCHANGED <<engine, latest, setup, handshake, stashed, pageVars>>

\* The backoff is over: EngineSubprocess::spawn.
Respawn ==
  /\ supervisor = "sleeping"
  /\ latest < MaxEngines
  /\ latest' = latest + 1
  /\ engine' = [engine EXCEPT ![latest + 1] = "booting"]
  /\ supervisor' = "booting"
  /\ UNCHANGED <<slot, setup, handshake, stashed, pageVars>>

\* Bug: a late banner fails the spawn and the process is left alone.
Respawned_NotKilled ==
  /\ supervisor = "booting"
  /\ \/ engine[latest] = "up" /\ supervisor' = "telling"
     \/ engine[latest] \in {"booting", "dead"} /\ supervisor' = "locking"
  /\ UNCHANGED <<engine, latest, slot, setup, handshake, stashed, pageVars>>

\* The banner is there, or spawn failed and the loop begins again with an empty slot.
Respawned ==
  /\ supervisor = "booting"
  /\ \/ engine[latest] = "up" /\ supervisor' = "telling"
     \/ engine[latest] = "dead" /\ supervisor' = "locking"
  /\ UNCHANGED <<engine, latest, slot, setup, handshake, stashed, pageVars>>

\* app.emit: whoever is not registered when it is called misses it.
Emit(kind, e) ==
  inbox' = IF kind \in listening THEN Append(inbox, [kind |-> kind, engine |-> e]) ELSE inbox

\* on_restart
TellRestart ==
  /\ supervisor = "telling"
  /\ Emit("restarted", latest)
  /\ followed' = IF "restarted" \in listening /\ client # None /\ pull # "asked"
                   THEN latest ELSE followed
  /\ supervisor' = "storing"
  /\ UNCHANGED <<engine, latest, slot, setup, handshake, stashed>>
  /\ UNCHANGED <<page, injected, client, listening, pull, shared, hooks>>

StoreSlot ==
  /\ supervisor = "storing"
  /\ slot' = latest
  /\ supervisor' = "locking"
  /\ UNCHANGED <<engine, latest, setup, handshake, stashed, pageVars>>

(***************************************************************************)
(* The setup closure                                                       *)
(***************************************************************************)

\* expect: the app aborts; what becomes of its engine is not followed.
Abort == /\ setup' = "aborted"
         /\ UNCHANGED <<engine, latest, slot, supervisor, handshake, stashed, pageVars>>

\* spawn_supervisor: the first engine is awaited, then the thread begins.
Booted ==
  /\ setup = "booting"
  /\ \/ /\ engine[1] = "up"
        /\ slot' = 1 /\ supervisor' = "locking" /\ setup' = "reading"
        /\ UNCHANGED <<engine, latest, handshake, stashed, pageVars>>
     \/ engine[1] = "dead" /\ Abort

\* slot.lock(): not while the supervisor waits for an exit under the same mutex.
ReadSlot ==
  /\ setup = "reading"
  /\ supervisor # "waiting"
  /\ \/ slot = None /\ Abort
     \/ /\ slot # None
        /\ handshake' = slot /\ setup' = "health"
        /\ UNCHANGED <<engine, latest, slot, supervisor, stashed, pageVars>>

\* wait_until_healthy: the health check passes, or times out.
Health ==
  /\ setup = "health"
  /\ \/ /\ engine[handshake] = "up" /\ setup' = "stashing"
        /\ UNCHANGED <<engine, latest, slot, supervisor, handshake, stashed, pageVars>>
     \/ Abort

\* app.manage(handshake_state): from now on get_engine_handshake answers.
Stash ==
  /\ setup = "stashing"
  /\ stashed' = handshake
  /\ setup' = "injecting"
  /\ UNCHANGED <<engine, latest, slot, supervisor, handshake, pageVars>>

\* window.eval: it reaches the document there is.
Inject ==
  /\ setup = "injecting"
  /\ injected' = IF page = "document" THEN handshake ELSE injected
  /\ setup' = "announcing"
  /\ UNCHANGED <<engine, latest, slot, supervisor, handshake, stashed>>
  /\ UNCHANGED <<page, client, listening, pull, inbox, shared, hooks, followed>>

\* app.emit("qaio-engine-ready"), once
Announce ==
  /\ setup = "announcing"
  /\ Emit("ready", handshake)
  /\ setup' = "done"
  /\ UNCHANGED <<engine, latest, slot, supervisor, handshake, stashed>>
  /\ UNCHANGED <<page, injected, client, listening, pull, shared, hooks, followed>>

(***************************************************************************)
(* The page                                                                *)
(***************************************************************************)

LoadDocument ==
  /\ page = "blank"
  /\ page' = "document"
  /\ UNCHANGED <<shellVars, injected, client, listening, pull, inbox, shared, hooks, followed>>

\* engine.ts is evaluated: resolveConfig, and the pull when it finds nothing.
RunModule ==
  /\ page = "document"
  /\ page' = "running"
  /\ client' = injected
  /\ pull' = IF injected = None THEN "retry" ELSE "off"
  /\ UNCHANGED <<shellVars, injected, listening, inbox, shared, hooks, followed>>

\* listen() is answered by the shell.
Listen(kind) ==
  /\ page = "running" /\ kind \notin listening
  /\ listening' = listening \cup {kind}
  /\ UNCHANGED <<shellVars, page, injected, client, pull, inbox, shared, hooks, followed>>

\* Bug: the shell is asked once, when the module starts, and an error ends the pull.
PullHandshake_Once ==
  /\ pull = "retry"
  /\ pull' = IF client # None \/ stashed = None THEN "off" ELSE "asked"
  /\ UNCHANGED <<shellVars, page, injected, client, listening, inbox, shared, hooks, followed>>

\* One round of the loop: stop when there is a client, else invoke the command. An error
\* leads to the next round.
PullHandshake ==
  /\ pull = "retry"
  /\ \/ client # None /\ pull' = "off"
     \/ client = None /\ stashed # None /\ pull' = "asked"
  /\ UNCHANGED <<shellVars, page, injected, client, listening, inbox, shared, hooks, followed>>

\* The command's answer, in no order with the events. The client is not looked at again.
\* What is stashed does not change while the answer is on its way.
PullAnswered ==
  /\ pull = "asked"
  /\ pull' = "off"
  /\ client' = stashed
  /\ UNCHANGED <<shellVars, page, injected, listening, inbox, shared, hooks, followed>>

\* The 60 s of the pull are over and setup is not: it waits for a banner that does not
\* come, or for the slot's mutex. The listeners are registered long since.
PullTimesOut ==
  /\ pull = "retry" /\ setup # "done" /\ "ready" \in listening
  /\ pull' = "off"
  /\ UNCHANGED <<shellVars, page, injected, client, listening, inbox, shared, hooks, followed>>

\* Bug: the new client is made and the old socket kept.
Applied_KeepsSocket(m) ==
  /\ client' = IF m.kind = "ready" /\ client # None THEN client ELSE m.engine
  /\ UNCHANGED shared

\* The handlers of the two events. A restart makes a new client and forgets the shared
\* socket, which it disconnects.
Applied(m) ==
  /\ client' = IF m.kind = "ready" /\ client # None THEN client ELSE m.engine
  /\ shared' = IF m.kind = "restarted" THEN None ELSE shared

HandleMessage ==
  /\ inbox # <<>>
  /\ Applied(Head(inbox))
  /\ inbox' = Tail(inbox)
  /\ UNCHANGED <<shellVars, page, injected, listening, pull, hooks, followed>>

\* Behind the EngineGate a hook mounts: getEngineWs makes the shared socket when there
\* is none, and the hook puts its handler on it.
Mount(h) ==
  /\ client # None /\ hooks[h] = None
  /\ shared' = IF shared = None THEN client ELSE shared
  /\ hooks' = [hooks EXCEPT ![h] = shared']
  /\ UNCHANGED <<shellVars, page, injected, client, listening, pull, inbox, followed>>

Unmount(h) ==
  /\ hooks[h] # None
  /\ hooks' = [hooks EXCEPT ![h] = None]
  /\ UNCHANGED <<shellVars, page, injected, client, listening, pull, inbox, shared, followed>>

\* agent-update-banner.tsx: window.location.reload(), from inside the app.
Reload ==
  /\ client # None
  /\ NewPage
  /\ UNCHANGED shellVars

Supervisor == LockAndWait \/ ExitSeen \/ ClearSlot \/ Respawn \/ Respawned \/ TellRestart \/ StoreSlot
Setup == Booted \/ ReadSlot \/ Health \/ Stash \/ Inject \/ Announce
Loading == LoadDocument \/ RunModule \/ PullHandshake \/ PullAnswered \/ HandleMessage
Page == Loading \/ PullTimesOut \/ Reload \/ (\E k \in {"ready", "restarted"} : Listen(k)) \/ \E h \in Hooks : Mount(h) \/ Unmount(h)

Next == Running /\ (Banner \/ EngineDies \/ Supervisor \/ Setup \/ Page)

\* The page's own steps happen: it loads, its timer fires, its messages are handled.
\* Neither an engine nor a user has to do anything.
FairSpec == Init /\ [][Next]_vars /\ WF_vars(Running /\ Loading)

(***************************************************************************)
(* Properties                                                              *)
(***************************************************************************)

\* Two engines never run at once: the next one starts when the last is gone. Both would
\* write the same database and files (engine_supervisor.rs:396-412).
OneEngine ==
  \A e, f \in Engines : {engine[e], engine[f]} \subseteq {"booting", "up"} => e = f

\* However loading and setup interleave, and whichever of the three ways loses its race,
\* a page behind a setup that is done gets past its gate (engine.ts:54-91, lib.rs:227-262).
GateOpens == (setup = "done") ~> (client # None)

\* A page that was told of a restart while it had a client, and while no answer to its own
\* question was on the way, talks to the new engine once it has handled what it was told,
\* and so does the socket the next hook gets. Hooks that were mounted before keep the old
\* socket, and an answer that arrives late puts the first engine back: of these it says
\* nothing (engine.ts:65-77, 121-128, 150-162).
RestartIsFollowed ==
  followed # None /\ (\A i \in 1..Len(inbox) : inbox[i].kind # "restarted") =>
    client = followed /\ shared \in {None, client}
==============================================================================
