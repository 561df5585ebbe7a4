------------------------------ MODULE MCEngine ------------------------------
(* Instantiates Engine for TLC. *)
EXTENDS Engine

AllKinds == {"pre_trade", "drop_copy", "adjustment", "report", "retire"}

Engine(kinds, policies, custom, maxElements) ==
    [kinds |-> kinds, policies |-> policies, custom |-> custom,
     maxElements |-> maxElements]

(* A built-in and a custom policy; one policy with batches of two elements. *)
Engines == {Engine(AllKinds, 2, {2}, 1),
            Engine(AllKinds \ {"drop_copy", "retire"}, 1, {}, 2)}

(* Batches of two elements beside reports. *)
BatchesAndReports == {Engine({"adjustment", "report"}, 2, {2}, 2)}

Symmetric == Permutations(Calls)
=============================================================================
