---------------------------- MODULE MCAccountPnl ----------------------------
(* Instantiates AccountPnl for TLC. *)
EXTENDS AccountPnl

SomeDeltas == {-1, 2}
BelowZero == -1
AssertedValues == {V(-2), V(1)}

(* Nested assertions far from the type's range and at its end. *)
Ranges == {[limit |-> 20, maxElements |-> 2], [limit |-> 3, maxElements |-> 2]}

Symmetric == Permutations(Batches) \cup Permutations(Reports)
=============================================================================
