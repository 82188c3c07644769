-------------------------- MODULE MCProviderLogin --------------------------
(* An instance of ProviderLogin for TLC: the providers of three logins. *)
EXTENDS ProviderLogin, TLC

CONSTANTS claude, codex, first, again, other

TwoAndOne == (first :> codex) @@ (again :> codex) @@ (other :> claude)
SameProvider == Permutations({first, again})
=============================================================================
