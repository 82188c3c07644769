------------------------------ MODULE TurnQueue ------------------------------
(***************************************************************************)
(* What the session runtime promises its clients (the comment of           *)
(* sessions::start, engine/qaio-engine-core/src/sessions/mod.rs): the      *)
(* messages of a conversation wait for each other and run one at a time;   *)
(* a stop dooms the messages that wait; a message is dropped only when a   *)
(* stop doomed it, and a doomed one never runs.  No locks, no generations, *)
(* no processes: SessionRuntime is shown to implement this.                *)
(***************************************************************************)
CONSTANTS Turns, Identities, IdentityOf

VARIABLES
  phase,    \* where a message is
  doomed    \* the messages a stop overtook while they waited

queueVars == <<phase, doomed>>

Phases == {"absent", "waiting", "running", "ended", "dropped", "failed"}

QueueTypeOK ==
  /\ phase \in [Turns -> Phases]
  /\ doomed \subseteq Turns

QueueInit ==
  /\ phase = [t \in Turns |-> "absent"]
  /\ doomed = {}

Move(t, from, to) ==
  /\ phase[t] \in from
  /\ phase' = [phase EXCEPT ![t] = to]
  /\ UNCHANGED doomed

Submit(t) == Move(t, {"absent"}, "waiting")

Begin(t) ==
  /\ t \notin doomed
  /\ \A u \in Turns : IdentityOf[u] = IdentityOf[t] => phase[u] # "running"
  /\ Move(t, {"waiting"}, "running")

End(t) == Move(t, {"running"}, "ended")

Drop(t) == t \in doomed /\ Move(t, {"waiting"}, "dropped")

Fail(t) == Move(t, {"waiting", "running"}, "failed")

Doom(i) ==
  /\ doomed' = doomed \cup {t \in Turns : IdentityOf[t] = i /\ phase[t] = "waiting"}
  /\ UNCHANGED phase

QueueNext ==
  \/ \E t \in Turns : Submit(t) \/ Begin(t) \/ End(t) \/ Drop(t) \/ Fail(t)
  \/ \E i \in Identities : Doom(i)

QueueSpec == QueueInit /\ [][QueueNext]_queueVars
=============================================================================
