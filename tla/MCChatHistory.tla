--------------------------- MODULE MCChatHistory ---------------------------
(* Instances of ChatHistory for TLC. *)
EXTENDS ChatHistory, TLC

(* New ids are interchangeable. *)
NewIds == Permutations(Ids)
=============================================================================
