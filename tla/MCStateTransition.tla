------------------------- MODULE MCStateTransition -------------------------
(* Instantiates StateTransition for TLC. *)
EXTENDS StateTransition

Symmetric == Permutations(Accounts) \cup Permutations(Reports)
                 \cup Permutations(Batches) \cup Permutations(Transitions)
=============================================================================
