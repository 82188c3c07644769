--------------------------- MODULE MCEventStream ---------------------------
(* Instances of EventStream for TLC. *)
EXTENDS EventStream

(* Sessions are interchangeable. *)
SameTopics == Permutations(Topics)

(***************************************************************************)
(* Two states that differ in nothing but the kind or session of an event   *)
(* which nobody will look at again have the same futures.                  *)
(***************************************************************************)
InUse(n) ==
  \/ n > cursor \/ n \in ToSet(out) \cup owed
  \/ \E t \in Topics : pending[t] = n
WithoutOldEvents ==
  <<{<<n, emitted[n]>> : n \in {k \in DOMAIN emitted : InUse(k)}}, Len(emitted),
    cursor, topics, out, marking, pending, requests, clientVars, boundVars, historyVars>>
=============================================================================
