------------------------------ MODULE Holdings ------------------------------
(***************************************************************************)
(* Holdings of one account under the spot-funds policy                     *)
(* (crates/openpit/src/pretrade/holdings/holdings.rs and policies/         *)
(* spot_funds/{pre_trade,execution,adjustment,rollback,position_limit}.rs).*)
(*                                                                         *)
(* Orders reserve funds leg by leg, are committed or rolled back, filled   *)
(* and cancelled; adjustments write balances and may be rolled back later. *)
(* One access to a holdings slot is one step: the operations of different  *)
(* orders and batches interleave between their legs.  An absent slot is    *)
(* the zero slot.  Average entry price and position PnL are left out.      *)
(***************************************************************************)
EXTENDS Integers, Sequences, FiniteSets, SequencesExt, FiniteSetsExt, Functions

CONSTANTS
    Orders, Adjusters,       \* orders of the account; adjustment batches
    Sides,
    Setups,                  \* accounts and the traffic they see, see below
    None,
    MaxReports               \* bound on the reports of an order

Assets == {"underlying", "settlement"}
Fields == {"available", "held", "incoming"}

ASSUME BoundsAssumption ==
    /\ IsFiniteSet(Orders) /\ MaxReports \in Nat
    /\ Sides \subseteq {"buy", "sell"}
    /\ \A s \in Setups : /\ s.maxAmount \in Nat /\ s.funds \in Nat
                         /\ s.orders \subseteq Orders
                         /\ s.quantities \subseteq Nat /\ s.prices \subseteq Int
                         /\ s.improvements \subseteq Int /\ s.fees \subseteq Int
                         /\ s.limitMode \in {"Enforce", "TrackOnly"}
                         /\ s.positionLimit = None \/ s.positionLimit \in Nat

VARIABLES
    setup,     \* one of Setups, fixed at the start
    holdings,  \* [Assets -> Holdings]
    orders,    \* each order: side, quantity left, lock price, phase
    todo,      \* the slot accesses its current operation still has to make
    undo,      \* the reservation's mutations, newest first
    batches,   \* each adjuster: phase, asset, and the deltas it can take back
    blocked,   \* the account carries a block
    base       \* what adjustments, trades and fees have moved in total

vars == <<setup, holdings, orders, todo, undo, batches, blocked, base>>

LimitMode == setup.limitMode           \* "Enforce" or "TrackOnly"
PositionLimit == setup.positionLimit   \* on the underlying asset, or None
MaxAmount == setup.maxAmount           \* PositionSize is -MaxAmount .. MaxAmount
Quantities == setup.quantities
Prices == setup.prices                 \* lock prices
Improvements == setup.improvements     \* how much better than its lock an order trades
Fees == setup.fees                     \* signed fees of a report, in settlement
AdjustRequests == setup.requests       \* what an adjustment may ask for

Slot(available, held, incoming) ==
    [available |-> available, held |-> held, incoming |-> incoming]
Plus(h, d) == [f \in Fields |-> h[f] + d[f]]
Minus(h, d) == [f \in Fields |-> h[f] - d[f]]
InRange(h) == \A f \in Fields : h[f] \in -MaxAmount .. MaxAmount
non_negative(x) == Max({0, x})

NewOrder == [phase |-> "new", side |-> "buy", left |-> 0, price |-> 0, final |-> FALSE,
             reports |-> 0]
IdleBatch == [phase |-> "idle", asset |-> "underlying", delta |-> Slot(0, 0, 0)]

Init ==
    /\ setup \in Setups
    /\ holdings = [a \in Assets |-> Slot(setup.funds, 0, 0)]
    /\ base = holdings
    /\ orders = [o \in Orders |-> NewOrder]
    /\ todo = [o \in Orders |-> <<>>]
    /\ undo = [o \in Orders |-> <<>>]
    /\ batches = [b \in Adjusters |-> IdleBatch]
    /\ blocked = FALSE

-----------------------------------------------------------------------------
(* compute_reservation_legs: what an order of a quantity at a lock price   *)
(* reserves in an asset, as held and incoming.                             *)
Reserved(side, quantity, price, a) ==
    LET notional == price * quantity IN
    CASE side = "buy" /\ a = "settlement" ->
             [held |-> non_negative(notional), incoming |-> 0]
      [] side = "buy" /\ a = "underlying" -> [held |-> 0, incoming |-> quantity]
      [] side = "sell" /\ a = "underlying" -> [held |-> quantity, incoming |-> 0]
      [] side = "sell" /\ a = "settlement" ->
             [held |-> non_negative(-notional), incoming |-> non_negative(notional)]

(* reservation_steps: what is given away first. *)
LegOrder(side) ==
    IF side = "buy" THEN <<"settlement", "underlying">>
                    ELSE <<"underlying", "settlement">>

(* What a reservation leg moves in its slot. *)
HoldDelta(leg) == Slot(-leg.held, leg.held, leg.incoming)

(* Mutant: held funds count as spendable. *)
SpendableWithHeld(h) == h.available + h.held

(* try_hold: a negative held is owed from available. *)
Spendable(h) == IF h.held < 0 THEN h.available + h.held ELSE h.available

hold_with_mode(h, amount) ==
    amount # 0 /\ LimitMode = "Enforce" => amount <= Spendable(h)

(* Mutant: open orders that buy are left out of the projection. *)
VerifyOwnedOnly(h, leg) ==
    LET net == leg.incoming - leg.held
        owned == h.available + h.held
    IN  IF net > 0 THEN owned + net <= PositionLimit
                   ELSE owned - non_negative(h.held) + net >= -PositionLimit

(* position_limit::verify, against the slot before the leg: the worst case *)
(* assumes that the open orders of the same direction all trade.           *)
verify(h, leg) ==
    LET net == leg.incoming - leg.held
        owned == h.available + h.held
    IN  IF net > 0 THEN owned + non_negative(h.incoming) + net <= PositionLimit
                   ELSE owned - non_negative(h.held) + net >= -PositionLimit

PositionAllowed(a, h, leg) ==
    PositionLimit # None /\ a = "underlying" /\ leg.incoming # leg.held => verify(h, leg)

-----------------------------------------------------------------------------
(* perform_pre_trade_check: an unblocked account sends an order; its legs  *)
(* are computed once.  A notional that does not fit rejects the order.     *)
Reserve(o) ==
    /\ orders[o].phase = "new" /\ ~blocked
    /\ \E side \in Sides, q \in Quantities, price \in Prices :
          /\ orders' = [orders EXCEPT ![o] = [phase |-> "reserving", side |-> side,
                            left |-> q, price |-> price, final |-> FALSE,
                            reports |-> 0]]
          /\ todo' = [todo EXCEPT ![o] = [i \in 1 .. 2 |->
                         LET a == LegOrder(side)[i]
                         IN  [asset |-> a, leg |-> Reserved(side, q, price, a)]]]
          /\ price * q \in -MaxAmount .. MaxAmount
    /\ UNCHANGED <<holdings, undo, batches, blocked, base>>

(* reserve_asset: hold, project and verify in one access to the slot; a    *)
(* leg that moves nothing does not touch it.                               *)
ReserveLeg(o) ==
    /\ orders[o].phase = "reserving" /\ todo[o] # <<>>
    /\ LET a == Head(todo[o]).asset
           leg == Head(todo[o]).leg
           new == Plus(holdings[a], HoldDelta(leg))
       IN  \/ /\ leg.held = 0 /\ leg.incoming = 0
              /\ todo' = [todo EXCEPT ![o] = Tail(@)]
              /\ UNCHANGED <<holdings, undo, orders>>
           \/ /\ leg.held # 0 \/ leg.incoming # 0
              /\ hold_with_mode(holdings[a], leg.held)
              /\ InRange(new) /\ PositionAllowed(a, holdings[a], leg)
              /\ holdings' = [holdings EXCEPT ![a] = new]
              /\ undo' = [undo EXCEPT ![o] = <<Head(todo[o])>> \o @]
              /\ todo' = [todo EXCEPT ![o] = Tail(@)]
              /\ UNCHANGED orders
           \/ /\ leg.held # 0 \/ leg.incoming # 0
              /\ ~( /\ hold_with_mode(holdings[a], leg.held)
                    /\ InRange(new) /\ PositionAllowed(a, holdings[a], leg) )
              /\ todo' = [todo EXCEPT ![o] = <<>>]
              /\ orders' = [orders EXCEPT ![o].phase = "rolling_back"]
              /\ UNCHANGED <<holdings, undo>>
    /\ UNCHANGED <<batches, blocked, base>>

(* The reservation is committed, a no-op for the slots, and the order goes *)
(* to the venue; or a later policy or the caller rolls it back.            *)
Commit(o) ==
    /\ orders[o].phase = "reserving" /\ todo[o] = <<>>
    /\ \E phase \in {"open", "rolling_back"} :
          orders' = [orders EXCEPT ![o].phase = phase]
    /\ undo' = IF orders'[o].phase = "open" THEN [undo EXCEPT ![o] = <<>>] ELSE undo
    /\ UNCHANGED <<holdings, todo, batches, blocked, base>>

(* Mutant: the rollback hands the hold back and forgets the projection. *)
UndoHoldOnly(h, leg) == Plus(h, Slot(leg.held, -leg.held, 0))

(* The rollback of one leg: the inverse delta on whatever the slot holds.  *)
UndoLeg(h, leg) == Minus(h, HoldDelta(leg))

(* apply_delta_rollback of register_hold_rollback; on overflow the slot is *)
(* left alone and the account blocked.                                     *)
RollbackLeg(o) ==
    /\ orders[o].phase = "rolling_back"
    /\ IF undo[o] = <<>>
       THEN /\ orders' = [orders EXCEPT ![o].phase = "closed", ![o].left = 0]
            /\ UNCHANGED <<holdings, undo, blocked>>
       ELSE LET a == Head(undo[o]).asset
                new == UndoLeg(holdings[a], Head(undo[o]).leg)
            IN  /\ undo' = [undo EXCEPT ![o] = Tail(@)]
                /\ holdings' = IF InRange(new) THEN [holdings EXCEPT ![a] = new] ELSE holdings
                /\ blocked' = (blocked \/ ~InRange(new))
                /\ UNCHANGED orders
    /\ UNCHANGED <<todo, batches, base>>

-----------------------------------------------------------------------------
(* The signed flow of a trade into an asset. *)
Flow(side, quantity, price, a) ==
    LET sign == IF side = "buy" THEN 1 ELSE -1
    IN  IF a = "underlying" THEN sign * quantity ELSE -sign * price * quantity

(* settle_fill_leg: the part reserved at the lock price leaves held, and   *)
(* available takes it back less (or plus) the real flow.                   *)
SettleDelta(side, quantity, lock, price, a) ==
    LET consume == Reserved(side, quantity, lock, a)
    IN  Slot(consume.held + Flow(side, quantity, price, a), -consume.held,
             -consume.incoming)

(* release_leg: the unfilled remainder returns to available. *)
ReleaseDelta(side, quantity, lock, a) ==
    LET release == Reserved(side, quantity, lock, a)
    IN  Slot(release.held, -release.held, -release.incoming)

Leg(part, a, delta) == [part |-> part, asset |-> a, delta |-> delta]

(* The slot accesses of one execution report: the trade in the side's      *)
(* order, its fee, then, on a final report, the release of the remainder.  *)
ReportLegs(order, filled, price, fee, final) ==
    LET sides == LegOrder(order.side)
        trade == [i \in 1 .. 2 |-> Leg("fill", sides[i],
                     SettleDelta(order.side, filled, order.price, price, sides[i]))]
        left == order.left - filled
        release == <<"underlying", "settlement">>
    IN  (IF filled > 0 THEN trade ELSE <<>>)
            \o (IF fee # 0 THEN <<Leg("fill", "settlement", Slot(fee, 0, 0))>> ELSE <<>>)
            \o (IF final /\ left > 0
                THEN [i \in 1 .. 2 |-> Leg("release", release[i],
                         ReleaseDelta(order.side, left, order.price, release[i]))]
                ELSE <<>>)

(* The release, which comes last, runs even when the trade has failed. *)
Releases(legs) ==
    LET others == {i \in DOMAIN legs : legs[i].part # "release"}
    IN  SubSeq(legs, Cardinality(others) + 1, Len(legs))

(* apply_execution_request: a trade, a fee, the end of the order, or any   *)
(* of them together.  A trade whose notional does not fit blocks.          *)
Report(o) ==
    /\ orders[o].phase = "open" /\ orders[o].reports < MaxReports
    /\ \E filled \in 0 .. orders[o].left, improvement \in Improvements,
          fee \in Fees, final \in BOOLEAN :
          LET order == orders[o]
              price == IF order.side = "buy" THEN order.price - improvement
                                             ELSE order.price + improvement
              fits == price * filled \in -MaxAmount .. MaxAmount
              legs == ReportLegs(order, filled, price, fee, final)
          IN  /\ filled > 0 \/ fee # 0 \/ final
              /\ final \/ filled < order.left
              /\ filled = 0 => improvement = Min(Improvements)
              /\ orders' = [orders EXCEPT ![o].phase = "reporting",
                                ![o].left = @ - filled, ![o].final = final,
                                ![o].reports = @ + 1]
              /\ todo' = [todo EXCEPT ![o] =
                             IF fits THEN legs ELSE Releases(legs)]
              /\ blocked' = (blocked \/ ~fits)
              /\ base' = [a \in Assets |-> Plus(base[a],
                            Slot(Flow(order.side, filled, price, a) +
                                    (IF a = "settlement" THEN fee ELSE 0), 0, 0))]
    /\ UNCHANGED <<holdings, undo, batches>>

(* mutate_slot for one leg.  A leg that does not fit leaves its slot and   *)
(* the rest of its part alone and blocks the account; the release that     *)
(* follows a failed trade still runs.                                      *)
ReportLeg(o) ==
    /\ orders[o].phase = "reporting" /\ todo[o] # <<>>
    /\ LET leg == Head(todo[o])
           new == Plus(holdings[leg.asset], leg.delta)
       IN  IF InRange(new) /\ InRange(leg.delta)
           THEN /\ holdings' = [holdings EXCEPT ![leg.asset] = new]
                /\ todo' = [todo EXCEPT ![o] = Tail(@)]
                /\ UNCHANGED blocked
           ELSE /\ todo' = [todo EXCEPT ![o] =
                               IF leg.part = "release" THEN <<>> ELSE Releases(@)]
                /\ blocked' = TRUE
                /\ UNCHANGED holdings
    /\ UNCHANGED <<orders, undo, batches, base>>

ReportDone(o) ==
    /\ orders[o].phase = "reporting" /\ todo[o] = <<>>
    /\ orders' = [orders EXCEPT
                     ![o].phase = IF orders[o].final THEN "closed" ELSE "open",
                     ![o].left = IF orders[o].final THEN 0 ELSE @]
    /\ UNCHANGED <<holdings, todo, undo, batches, blocked, base>>

-----------------------------------------------------------------------------
(* apply_adjustment on one field: an absolute value or a delta. *)
Adjusted(amount, current) ==
    CASE amount = None -> current
      [] amount # None /\ amount[1] = "absolute" -> amount[2]
      [] amount # None /\ amount[1] = "delta" -> current + amount[2]

(* apply_account_adjustment: all requested fields in one access; what does *)
(* not fit, leaves the bounds or has no representable inverse is rejected  *)
(* before anything is written.                                             *)
Adjust(b) ==
    /\ batches[b].phase = "idle" /\ ~blocked
    /\ \E a \in Assets, request \in AdjustRequests :
          LET current == holdings[a]
              new == [f \in Fields |-> Adjusted(request[f], current[f])]
              delta == Minus(new, current)
          IN  /\ InRange(new) /\ InRange(delta)
              /\ new.available >= request.balance_lower
              /\ holdings' = [holdings EXCEPT ![a] = new]
              /\ base' = [base EXCEPT ![a] = Plus(@, delta)]
              /\ batches' = [batches EXCEPT ![b] =
                                [phase |-> "applied", asset |-> a, delta |-> delta]]
    /\ UNCHANGED <<orders, todo, undo, blocked>>

(* The batch commits: nothing to do. *)
AdjustCommit(b) ==
    /\ batches[b].phase = "applied"
    /\ batches' = [batches EXCEPT ![b].phase = "done"]
    /\ UNCHANGED <<holdings, orders, todo, undo, blocked, base>>

(* register_adjustment_rollback: the inverse of the forward deltas.        *)
AdjustRollback(b) ==
    /\ batches[b].phase = "applied"
    /\ LET a == batches[b].asset
           new == Minus(holdings[a], batches[b].delta)
       IN  /\ holdings' = IF InRange(new) THEN [holdings EXCEPT ![a] = new] ELSE holdings
           /\ blocked' = (blocked \/ ~InRange(new))
           /\ base' = [base EXCEPT ![a] = Minus(@, batches[b].delta)]
    /\ batches' = [batches EXCEPT ![b].phase = "done"]
    /\ UNCHANGED <<orders, todo, undo>>

Steps ==
    \/ \E o \in setup.orders : \/ Reserve(o) \/ ReserveLeg(o) \/ Commit(o)
                               \/ RollbackLeg(o) \/ Report(o) \/ ReportLeg(o)
                               \/ ReportDone(o)
    \/ \E b \in Adjusters : Adjust(b) \/ AdjustCommit(b) \/ AdjustRollback(b)

Next == Steps /\ UNCHANGED setup

Spec == Init /\ [][Next]_vars

-----------------------------------------------------------------------------
(* What an order has reserved of a field of an asset, and what the live    *)
(* orders should have reserved between them.                               *)
Full(o, a, f) ==
    HoldDelta(Reserved(orders[o].side, orders[o].left, orders[o].price, a))[f]

ReservedIn(a) ==
    [f \in Fields |-> SumFunction([o \in Orders |->
        IF orders[o].phase = "open" THEN Full(o, a, f) ELSE 0])]

Quiet == \A o \in Orders : orders[o].phase \in {"new", "open", "closed"}

(* The books balance (rollback.rs:298-368, execution.rs:1159-1294): between *)
(* operations every slot is what adjustments, trades and fees have moved   *)
(* plus exactly the reservations of the live orders, whatever fills,       *)
(* cancels, absolute adjustments and rollbacks came in between, unless     *)
(* an overflow has blocked the account.                                    *)
BooksBalance ==
    Quiet /\ ~blocked =>
        \A a \in Assets : holdings[a] = Plus(base[a], ReservedIn(a))

(* "otherwise the same 100 USD could be reserved twice" (rollback.rs:      *)
(* 321-323): where limits are enforced, nothing but the orders moves the   *)
(* balances and no order trades worse than its lock, available never runs  *)
(* dry below zero.                                                         *)
NoDoubleSpend ==
    LimitMode = "Enforce" /\ AdjustRequests = {}
        /\ (\A x \in Improvements \cup Fees : x >= 0) =>
            \A a \in Assets : holdings[a].available >= 0

(* Position limit (position_limit.rs:91-154): where nothing but the orders  *)
(* moves a position that began within the limit, it stays within, even if  *)
(* every open order of one direction trades.                               *)
Confined ==
    PositionLimit # None /\ AdjustRequests = {} /\ setup.funds <= PositionLimit

PositionWithinLimit ==
    Confined =>
        LET h == holdings["underlying"]
        IN  /\ h.available + h.held + non_negative(h.incoming) <= PositionLimit
            /\ h.available + h.held - non_negative(h.held) >= -PositionLimit

-----------------------------------------------------------------------------
(* The inductive invariant behind NoDoubleSpend.  Sheltered is the case it *)
(* speaks of; then no step that is still to be made takes from available   *)
(* except a hold, which is judged in the access that makes it.             *)
Sheltered ==
    /\ LimitMode = "Enforce" /\ AdjustRequests = {}
    /\ \A x \in Improvements \cup Fees : x >= 0

Amounts == [Fields -> Int]
Holds == [asset : Assets, leg : [held : Nat, incoming : Nat]]
Moves == {m \in [part : {"fill", "release"}, asset : Assets, delta : Amounts] :
             Sheltered => m.delta["available"] >= 0}

SpendTypeOK ==
    /\ setup \in Setups /\ holdings \in [Assets -> Amounts]
    /\ orders \in [Orders -> [phase : {"new", "reserving", "open", "rolling_back",
                                       "reporting", "closed"},
                              side : {"buy", "sell"}, left : Nat, price : Int,
                              final : BOOLEAN, reports : Nat]]
    /\ todo \in [Orders -> Seq(Holds) \cup Seq(Moves)]
    /\ undo \in [Orders -> Seq(Holds)]
    /\ batches \in [Adjusters -> [phase : {"idle", "applied", "done"}, asset : Assets,
                                  delta : Amounts]]

SpendInv ==
    /\ SpendTypeOK
    /\ \A o \in Orders : /\ orders[o].phase = "reserving" => todo[o] \in Seq(Holds)
                         /\ orders[o].phase = "reporting" => todo[o] \in Seq(Moves)
    /\ Sheltered => /\ \A b \in Adjusters : batches[b].phase = "idle"
                    /\ \A a \in Assets : holdings[a]["available"] >= 0

-----------------------------------------------------------------------------
(* The inductive invariant behind BooksBalance and PositionWithinLimit.    *)
(* HoldAt and MoveAt are what the n-th leg of a list moves in a field of   *)
(* an asset: a reservation has two legs, a report five.                    *)
HoldAt(legs, n, a, f) ==
    IF n \in DOMAIN legs /\ legs[n].asset = a THEN HoldDelta(legs[n].leg)[f] ELSE 0
MoveAt(legs, n, a, f) ==
    IF n \in DOMAIN legs /\ legs[n].asset = a THEN legs[n].delta[f] ELSE 0

Holding(legs, a, f) == HoldAt(legs, 1, a, f) + HoldAt(legs, 2, a, f)
Moving(legs, a, f) ==
    MoveAt(legs, 1, a, f) + MoveAt(legs, 2, a, f) + MoveAt(legs, 3, a, f)
        + MoveAt(legs, 4, a, f) + MoveAt(legs, 5, a, f)

(* What is in a slot for an order: what it has taken so far, or what it    *)
(* will have when its report is through, less what the report still moves. *)
Share(o, a, f) ==
    CASE orders[o].phase \in {"new", "closed"} -> 0
      [] orders[o].phase \in {"reserving", "rolling_back"} -> Holding(undo[o], a, f)
      [] orders[o].phase = "open" -> Full(o, a, f)
      [] orders[o].phase = "reporting" ->
             (IF orders[o].final THEN 0 ELSE Full(o, a, f)) - Moving(todo[o], a, f)

Shares(a, f) == SumFunctionOnSet([o \in Orders |-> Share(o, a, f)], Orders)

LegsInv ==
    \A o \in Orders :
        /\ orders[o].phase = "new" => undo[o] = <<>>
        /\ orders[o].phase = "rolling_back" => Len(undo[o]) <= 2
        /\ orders[o].phase = "reserving" =>
              /\ Len(todo[o]) + Len(undo[o]) <= 2
              /\ \A a \in Assets, f \in Fields :
                    Holding(undo[o], a, f) + Holding(todo[o], a, f) = Full(o, a, f)
        /\ orders[o].phase = "reporting" => Len(todo[o]) <= 5

Balanced ==
    ~blocked => \A a \in Assets, f \in Fields : holdings[a][f] = base[a][f] + Shares(a, f)

LedgerInv == base \in [Assets -> Amounts] /\ LegsInv /\ Balanced

(* No leg of a report brings the position nearer to the limit than the     *)
(* order was judged to, and what orders have in the slot is there, also in *)
(* a blocked account, where a leg may have failed.                         *)
Settles(d) ==
    /\ d["held"] <= 0 /\ d["incoming"] <= 0
    /\ d["available"] >= 0 /\ d["available"] + d["held"] + d["incoming"] <= 0

PositionInv ==
    /\ \A o \in Orders : orders[o].phase = "reporting" =>
          \A n \in DOMAIN todo[o] : todo[o][n].asset = "underlying" => Settles(todo[o][n].delta)
    /\ Confined =>
          /\ \A b \in Adjusters : batches[b].phase = "idle"
          /\ \A f \in {"held", "incoming"} : holdings["underlying"][f] >= Shares("underlying", f)
          /\ PositionWithinLimit
=============================================================================
