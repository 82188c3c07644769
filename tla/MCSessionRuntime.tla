-------------------------- MODULE MCSessionRuntime --------------------------
(***************************************************************************)
(* Instances of SessionRuntime for TLC: who sends which message, in which  *)
(* folder, and whom a stop is for.                                         *)
(***************************************************************************)
EXTENDS SessionRuntime, TLC

CONSTANTS t1, t2, t3, c1, c2, i1, i2, i3, k1, k2, k3, d1

AllKeys   == (i1 :> k1) @@ (i2 :> k2) @@ (i3 :> k3)
AllInD1   == [t \in Turns |-> d1]

(* Messages of one conversation, which the stops are for. *)
SameConversation == [t \in Turns |-> i1]
StopsForI1       == [c \in Stops |-> i1]

(* One message in each of several conversations. *)
OwnConversation == (t1 :> i1) @@ (t2 :> i2) @@ (t3 :> i3)

(* The messages of one conversation are interchangeable, and so are its stops. *)
Interchangeable == Permutations(Turns) \cup Permutations(Stops)
=============================================================================
