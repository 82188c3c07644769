---------------------------- MODULE MCJsonStore ----------------------------
(* Three requests about the two missions of an agent. *)
EXTENDS JsonStore, TLC

CONSTANTS old, other, turn, delete, create

TwoMissions == <<old, other>>
Jobs == (turn   :> [kind |-> "status", id |-> old])
     @@ (delete :> [kind |-> "delete", id |-> other])
     @@ (create :> [kind |-> "create", id |-> create])
=============================================================================
