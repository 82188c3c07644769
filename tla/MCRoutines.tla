----------------------------- MODULE MCRoutines -----------------------------
(* Instances of Routines for TLC. *)
EXTENDS Routines, TLC

(* Runs are interchangeable, each is one call of run_routine, and so are the *)
(* requests to edit.                                                         *)
Symmetric == Permutations(Runs) \cup Permutations(Edits)
=============================================================================
