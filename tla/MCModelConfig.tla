---------------------------- MODULE MCModelConfig ----------------------------
(* Slots and users are interchangeable. *)
EXTENDS ModelConfig, TLC

Interchangeable == Permutations(Requests) \cup Permutations(Users)
=============================================================================
