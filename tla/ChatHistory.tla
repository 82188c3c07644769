----------------------------- MODULE ChatHistory -----------------------------
(***************************************************************************)
(* What is kept of one conversation: the resume ids of its providers, in   *)
(* memory and in three files each (session_id_tracker.rs), and the rows of *)
(* its chat, which are stored under those ids (session_runner.rs) and      *)
(* found again through them (sessions/history.rs). The engine may die      *)
(* between any two writes. Turns of a conversation come one at a time:     *)
(* SessionRuntime!OneProcessPerConversation.                               *)
(***************************************************************************)
EXTENDS Naturals, Sequences, FiniteSets

CONSTANTS
  Providers,   \* the conversation may change its provider from turn to turn
  Listed,      \* PROVIDERS: those whose files make up the history
  Late,        \* those whose CLI tells its id when its output is over (agy, kimi)
  Ids,         \* ids the CLIs may give to new sessions
  Legacy,      \* the id an older version may have left in the flat file
  None, Absent,\* no id; no handle in the tracker's map
  MaxTurns,    \* bound: turns
  MaxCrashes   \* bound: crashes of the engine

ASSUME HistoryAssumption ==
  /\ Listed \subseteq Providers /\ Late \subseteq Providers
  /\ IsFiniteSet(Ids)
  /\ Legacy # None /\ None # Absent /\ Absent # Legacy
  /\ {Legacy, None, Absent} \cap Ids = {}
  /\ {MaxTurns, MaxCrashes} \subseteq Nat

VARIABLES
  memory,      \* SessionIdTracker.inner: the id in a provider's handle
  sid, history, invalid,   \* the .sid, .history and .invalid files
  legacy,      \* the flat .sid file
  turn,        \* the turn at work: its provider's CLI and the runner's locals
  todo,        \* file operations the runner still has to do, in their order
  tasks,       \* spawned inserts into the database
  rows,        \* chat_feed
  used,        \* ids the CLIs have given
  turns, crashes

(***************************************************************************)
(* History: the answers the CLIs gave; the ids whose clearing the engine   *)
(* did not survive, dead after the append to .invalid and before the       *)
(* removal of .sid, until they are cleared after all; and the turns a      *)
(* crash took something from.                                              *)
(***************************************************************************)
VARIABLES answers, interrupted, cut

files       == <<sid, history, invalid, legacy>>
historyVars == <<answers, interrupted, cut>>
vars == <<memory, files, turn, todo, tasks, rows, used, turns, crashes, historyVars>>

AllIds == Ids \cup {Legacy}
Turns  == 1..MaxTurns
Row    == [turn : Turns, kind : {"user_message", "assistant_text"}, id : AllIds]
Answer == [turn : Turns, provider : Providers, id : AllIds]
Step   == [op : {"sid", "history", "invalid", "remove", "report", "retry"}, id : AllIds]
Turn   == [phase : {"running", "exited"}, n : Turns, provider : Providers,
           id : AllIds,              \* the session the CLI works in
           resumed : BOOLEAN,        \* it was asked for that session
           announced : BOOLEAN,      \* it has told its id
           current : AllIds \cup {None},   \* PersistOptions.claude_session_id
           message : BOOLEAN]        \* PersistOptions.user_message is not yet taken
Idle == [phase |-> "idle"]

TypeOK ==
  /\ memory \in [Providers -> AllIds \cup {None, Absent}]
  /\ sid \in [Providers -> AllIds \cup {None}]
  /\ {history, invalid, interrupted} \subseteq [Providers -> SUBSET AllIds]
  /\ legacy \in {Legacy, None}
  /\ turn \in Turn \cup {Idle}
  /\ todo \in Seq(Step) /\ (todo # <<>> => turn # Idle)
  /\ tasks \subseteq Row /\ rows \subseteq Row
  /\ used \subseteq AllIds
  /\ turns \in 0..MaxTurns /\ crashes \in 0..MaxCrashes
  /\ answers \subseteq Answer /\ cut \subseteq Turns

Init ==
  /\ memory = [p \in Providers |-> Absent]
  /\ sid = [p \in Providers |-> None]
  /\ history = [p \in Providers |-> {}] /\ invalid = history
  /\ legacy \in {Legacy, None}
  /\ turn = Idle /\ todo = <<>> /\ tasks = {} /\ rows = {}
  /\ used = {} /\ turns = 0 /\ crashes = 0
  /\ answers = {} /\ interrupted = history /\ cut = {}
-----------------------------------------------------------------------------
(***************************************************************************)
(* get_for_session, for a handle that is not in memory: the provider's own *)
(* file, or the flat one unless the provider has refused its id.           *)
(* Bug: refusals are not remembered.                                       *)
(***************************************************************************)
OnDisk_Forgets(p) == IF sid[p] # None THEN sid[p] ELSE legacy
OnDisk(p) ==
  IF sid[p] # None THEN sid[p]
  ELSE IF legacy \in invalid[p] THEN None ELSE legacy

(* Its handle in the map, made if there is none. Bug: it is not made. *)
Handle_NotMade(p) == memory[p]
Handle(p) == IF memory[p] = Absent THEN OnDisk(p) ELSE memory[p]

(* session_ids_for_history. Bug: only the ids that can be resumed. *)
SessionIdsForHistory_Current == ({legacy} \cup {sid[p] : p \in Listed}) \ {None}
SessionIdsForHistory ==
  ({legacy} \cup {sid[p] : p \in Listed} \cup UNION {history[p] : p \in Listed}) \ {None}

(* The session a CLI works in: the one it resumes, or a new one. *)
SessionFor(resume) == IF resume # None THEN {resume} ELSE Ids \ used

Steps(ops, id) == [k \in DOMAIN ops |-> [op |-> ops[k], id |-> id]]

(* run_start and spawn_and_monitor: the turn takes its handle and its CLI is launched. *)
StartTurn(p) ==
  /\ turn = Idle /\ turns < MaxTurns
  /\ turns' = turns + 1
  /\ memory' = [memory EXCEPT ![p] = Handle(p)]
  /\ \E id \in SessionFor(Handle(p)) :
       /\ turn' = [phase |-> "running", n |-> turns + 1, provider |-> p, id |-> id,
                   resumed |-> Handle(p) # None, announced |-> FALSE, current |-> None,
                   message |-> TRUE]
       /\ used' = used \cup {id}
  /\ UNCHANGED <<files, todo, tasks, rows, crashes, historyVars>>

(***************************************************************************)
(* SessionUpdate::SessionId: SessionIdHandle::set, then the turn's message *)
(* can be stored.                                                          *)
(* Bug: the file is not written until the turn's end.                      *)
(***************************************************************************)
Announce_InMemory ==
  /\ turn # Idle /\ todo = <<>> /\ ~turn.announced
  /\ turn.phase = IF turn.provider \in Late THEN "exited" ELSE "running"
  /\ memory' = [memory EXCEPT ![turn.provider] = turn.id]
  /\ todo' = Steps(<<"history", "report">>, turn.id)
  /\ turn' = [turn EXCEPT !.announced = TRUE]
  /\ UNCHANGED <<files, tasks, rows, used, turns, crashes, historyVars>>
Announce ==
  /\ turn # Idle /\ todo = <<>> /\ ~turn.announced
  /\ turn.phase = IF turn.provider \in Late THEN "exited" ELSE "running"
  /\ memory' = [memory EXCEPT ![turn.provider] = turn.id]
  /\ todo' = Steps(<<"sid", "history", "report">>, turn.id)
  /\ turn' = [turn EXCEPT !.announced = TRUE]
  /\ UNCHANGED <<files, tasks, rows, used, turns, crashes, historyVars>>

(* SessionUpdate::ResumeInvalid: clear_current_preserving_history. *)
ResumeInvalid ==
  /\ turn # Idle /\ todo = <<>>
  /\ turn.phase = "running" /\ turn.resumed /\ turn.provider \notin Late
  /\ memory' = [memory EXCEPT ![turn.provider] = None]
  /\ todo' = Steps(<<"history", "invalid", "remove", "retry">>, memory[turn.provider])
  /\ UNCHANGED <<files, turn, tasks, rows, used, turns, crashes, historyVars>>

(* A feed item: it is stored if the id is known by now. *)
FeedItem ==
  LET answer == [turn |-> turn.n, provider |-> turn.provider, id |-> turn.id]
      row == [turn |-> turn.n, kind |-> "assistant_text", id |-> turn.current]
  IN /\ turn # Idle /\ todo = <<>> /\ turn.phase = "running"
     /\ turn.announced \/ turn.provider \in Late
     /\ answer \notin answers
     /\ answers' = answers \cup {answer}
     /\ tasks' = IF turn.current = None THEN tasks ELSE tasks \cup {row}
     /\ UNCHANGED <<memory, files, turn, todo, rows, used, turns, crashes, interrupted, cut>>

(* write_atomic, append_history_id, remove_file. *)
WriteFile ==
  LET p == turn.provider  s == Head(todo)
  IN /\ todo # <<>> /\ s.op \in {"sid", "history", "invalid", "remove"}
     /\ todo' = Tail(todo)
     /\ sid' = CASE s.op = "sid"    -> [sid EXCEPT ![p] = s.id]
                 [] s.op = "remove" -> [sid EXCEPT ![p] = None]
                 [] OTHER           -> sid
     /\ history' = IF s.op = "history" THEN [history EXCEPT ![p] = @ \cup {s.id}] ELSE history
     /\ invalid' = IF s.op = "invalid" THEN [invalid EXCEPT ![p] = @ \cup {s.id}] ELSE invalid
     /\ interrupted' = IF s.op = "remove" THEN [interrupted EXCEPT ![p] = @ \ {s.id}]
                       ELSE interrupted
     /\ UNCHANGED <<memory, legacy, turn, tasks, rows, used, turns, crashes, answers, cut>>

(* The id is known: the pending message of the user is taken and stored. *)
StoreMessage ==
  /\ todo # <<>> /\ Head(todo).op = "report"
  /\ todo' = Tail(todo)
  /\ turn' = [turn EXCEPT !.current = turn.id, !.message = FALSE]
  /\ tasks' = IF turn.message
                THEN tasks \cup {[turn |-> turn.n, kind |-> "user_message", id |-> turn.id]}
                ELSE tasks
  /\ UNCHANGED <<memory, files, rows, used, turns, crashes, historyVars>>

(***************************************************************************)
(* restore_pending_user_message, and retry_fresh of the CLI's runner.      *)
(* Bug: the message is not restored.                                       *)
(***************************************************************************)
RetryFresh_NoMessage ==
  /\ todo # <<>> /\ Head(todo).op = "retry"
  /\ todo' = Tail(todo)
  /\ \E id \in SessionFor(None) :
       /\ turn' = [turn EXCEPT !.id = id, !.resumed = FALSE, !.announced = FALSE,
                               !.current = None]
       /\ used' = used \cup {id}
  /\ UNCHANGED <<memory, files, tasks, rows, turns, crashes, historyVars>>
RetryFresh ==
  /\ todo # <<>> /\ Head(todo).op = "retry"
  /\ todo' = Tail(todo)
  /\ \E id \in SessionFor(None) :
       /\ turn' = [turn EXCEPT !.id = id, !.resumed = FALSE, !.announced = FALSE,
                               !.current = None, !.message = TRUE]
       /\ used' = used \cup {id}
  /\ UNCHANGED <<memory, files, tasks, rows, turns, crashes, historyVars>>

(* The CLI ends, with or without having told an id; a late one may tell it now. *)
Exit ==
  /\ turn # Idle /\ todo = <<>> /\ turn.phase = "running"
  /\ turn' = [turn EXCEPT !.phase = "exited"]
  /\ UNCHANGED <<memory, files, todo, tasks, rows, used, turns, crashes, historyVars>>

EndTurn ==
  /\ turn # Idle /\ todo = <<>> /\ turn.phase = "exited"
  /\ turn' = Idle
  /\ UNCHANGED <<memory, files, todo, tasks, rows, used, turns, crashes, historyVars>>

(* add_chat_feed_item_by_session, in a task of its own. *)
Insert(r) ==
  /\ r \in tasks
  /\ tasks' = tasks \ {r}
  /\ rows' = rows \cup {r}
  /\ UNCHANGED <<memory, files, turn, todo, used, turns, crashes, historyVars>>

(* The engine dies and starts again: the files and the database are left. *)
Restart ==
  /\ crashes < MaxCrashes /\ crashes' = crashes + 1
  /\ memory' = [p \in Providers |-> Absent]
  /\ turn' = Idle /\ todo' = <<>> /\ tasks' = {}
  /\ cut' = cut \cup {r.turn : r \in tasks} \cup (IF turn = Idle THEN {} ELSE {turn.n})
  /\ interrupted' = IF todo # <<>> /\ Head(todo).op = "remove"
                      THEN [interrupted EXCEPT ![turn.provider] = @ \cup {Head(todo).id}]
                      ELSE interrupted
  /\ UNCHANGED <<files, rows, used, turns, answers>>

Next ==
  \/ \E p \in Providers : StartTurn(p)
  \/ Announce \/ ResumeInvalid \/ FeedItem \/ Exit \/ EndTurn
  \/ WriteFile \/ StoreMessage \/ RetryFresh
  \/ \E r \in tasks : Insert(r)
  \/ Restart

Spec == Init /\ [][Next]_vars
-----------------------------------------------------------------------------
(* The history shows every row of the chat that was stored under a listed
   provider, also after its session was refused and left, and after a crash
   between any two writes. *)
HistoryShowsRows ==
  \A r \in rows :
    r.id \in SessionIdsForHistory
      \/ \E p \in Providers \ Listed : r.id \in history[p]

(* Between turns the engine would resume the same session whether or not it
   is restarted before the next turn: memory and files agree once a turn's
   writes are done, its refusals included. *)
RestartAgrees ==
  turn = Idle => \A p \in Providers : memory[p] \in {Absent, OnDisk(p)}

(* A session whose refusal is in the .invalid file is not asked for again, in
   this run of the engine or a later one, but where the engine died between the
   append to .invalid and the removal of .sid: then it is, until the provider
   refuses it once more and the clearing is done. *)
RefusedStaysRefused ==
  turn # Idle /\ turn.resumed /\ todo = <<>> /\ turn.id \in invalid[turn.provider]
    => turn.id \in interrupted[turn.provider]

Settled(n) == n \notin cut /\ n \notin {r.turn : r \in tasks}

(* Of a provider that tells its id first, every answer is kept, and with it,
   under the same id, the message it answers, also when the CLI was
   restarted with a new session in the middle of the turn. *)
TranscriptIsWhole ==
  \A a \in answers :
    a.provider \notin Late /\ Settled(a.turn) =>
      {[turn |-> a.turn, kind |-> k, id |-> a.id] : k \in {"user_message", "assistant_text"}}
        \subseteq rows
=============================================================================
