---------------------------- MODULE MCRateLimit ----------------------------
(***************************************************************************)
(* The rate-limit policy for TLC.  Its two kinds of axes share no state:   *)
(* a behaviour is either one of the policy, whose counters take one step   *)
(* per push, or one of a single counter, atomic access by atomic access.   *)
(***************************************************************************)
EXTENDS RateLimit, WindowCounter, TLC

VARIABLE grain  \* "policy" or "counter"

MCInit == grain \in {"policy", "counter"} /\ Init /\ CounterInit

MCNext ==
    \/ grain = "policy" /\ Next /\ UNCHANGED <<grain, counterVars>>
    \/ grain = "counter" /\ CounterNext /\ UNCHANGED <<grain, vars>>

MCSpec == MCInit /\ [][MCNext]_<<grain, vars, counterVars>>

Symmetric == Permutations(Threads) \cup Permutations(Callers)

NoLimits == {}
One == {[window |-> 2, max_orders |-> 1]}
TwoLimits == {[window |-> 2, max_orders |-> 1], [window |-> 3, max_orders |-> 1]}
(* Two limits, the second with a longer window, and one that is refused. *)
Varied == TwoLimits \cup {[window |-> 0, max_orders |-> 1]}
=============================================================================
