----------------------------- MODULE MCHoldings -----------------------------
(***************************************************************************)
(* Holdings and the index of its store for TLC.  A slot's amounts and its  *)
(* place in the index share no state, so each is checked beside the other  *)
(* at rest: the account without orders is the one whose index is used.     *)
(***************************************************************************)
EXTENDS Holdings, HoldingsIndex, TLC

CONSTANTS o1, o2, o3, t1, k1

Symmetric == Permutations(Orders)
BothSides == {"buy", "sell"}

Request(available, held, incoming) ==
    [available |-> available, held |-> held, incoming |-> incoming,
     balance_lower |-> -6]
Requests == {Request(<<"absolute", 1>>, None, None),
             Request(<<"delta", -1>>, <<"absolute", 1>>, None),
             [Request(None, None, <<"delta", 1>>) EXCEPT !.balance_lower = 2]}

(* Two orders and an adjustment near the limits of the amount type. *)
Adjusting ==
    [orders |-> {o1, o2}, quantities |-> {2}, prices |-> {-1, 2},
     improvements |-> {-1}, fees |-> {-1, 0}, requests |-> Requests, funds |-> 3,
     limitMode |-> "Enforce", positionLimit |-> None, maxAmount |-> 6]

(* Three orders that compete for the same funds. *)
Spending ==
    [orders |-> {o1, o2, o3}, quantities |-> {2}, prices |-> {-1, 1},
     improvements |-> {0, 1}, fees |-> {0}, requests |-> {}, funds |-> 3,
     limitMode |-> "Enforce", positionLimit |-> None, maxAmount |-> 12]

(* Three orders of both directions against a position limit. *)
Positioned ==
    [orders |-> {o1, o2, o3}, quantities |-> {1, 2}, prices |-> {1},
     improvements |-> {0}, fees |-> {0}, requests |-> {}, funds |-> 0,
     limitMode |-> "TrackOnly", positionLimit |-> 2, maxAmount |-> 12]

WithoutOrders == [Spending EXCEPT !.orders = {}]

Accounts == {Adjusting, Spending, Positioned, WithoutOrders}

OneAccount == [k \in Keys |-> "account"]

MCInit ==
    /\ Init /\ IndexInit
    /\ creator = [k \in Keys |-> t1] /\ key = [t \in Callers |-> k1]

MCNext ==
    \/ setup # WithoutOrders /\ Next /\ UNCHANGED indexVars
    \/ setup = WithoutOrders /\ IndexNext /\ UNCHANGED vars

MCSpec == MCInit /\ [][MCNext]_<<vars, indexVars>>
=============================================================================
