---------------------------- MODULE KillSwitch ----------------------------
(***************************************************************************)
(* The PnL bounds kill switch of one account                               *)
(* (crates/openpit/src/pretrade/policies/pnl_bounds_killswitch.rs, the     *)
(* configurator's pnl_bounds_killswitch and set_account_pnl).              *)
(*                                                                         *)
(* Reports accumulate realized PnL per settlement asset and are judged by  *)
(* the barriers published at that moment; orders are judged by a snapshot  *)
(* of the barriers and the PnL read after it.  Settings are read without a *)
(* lock and retuned without a sweep over the accounts: what a retune turns *)
(* into a breach is found by the next order or report.                     *)
(***************************************************************************)
EXTENDS Integers

CONSTANTS
    SettlementAssets,
    Feeds, Clients, Tuners,  \* threads that report, order and retune
    Bounds,                  \* bounds a barrier may have: [low, up], each a PnL or NoBound
    Results,                 \* pnl + fee of a report
    ForcedPnls,              \* values set_account_pnl is called with
    MaxPnl,                  \* Pnl is -MaxPnl .. MaxPnl
    MaxUpdates,              \* bound on reports, forced values and retunes together
    NoBound, Nothing

ASSUME KillSwitchAssumption ==
    /\ SettlementAssets # {} /\ Nothing \notin Int /\ Nothing \notin Bounds
    /\ MaxPnl \in Nat /\ MaxUpdates \in Nat
    /\ Results \subseteq Int /\ ForcedPnls \subseteq -MaxPnl .. MaxPnl
    /\ \A b \in Bounds : b.low # NoBound \/ b.up # NoBound   \* validate_bounds

VARIABLES
    realized,   \* [SettlementAssets -> PnL, or Nothing without an entry]
    barriers,   \* the published settings: broker and account barrier of each asset
    tuning,     \* the retune in progress: who holds the writer mutex, and its copy
    report,     \* [Feeds -> program point, asset, and the block to record]
    order,      \* [Clients -> program point, asset, snapshot of the settings]
    retiring,   \* keys the retirement in progress still removes, or Nothing
    barred,     \* the account is blocked
    updates,
    \* History: the PnL the account really made; the settings in force since
    \* an order's check began; whether one of them let the order pass.
    total, inForce, passable

switchVars == <<realized, barriers, tuning, report, order, retiring, barred, updates,
                total, inForce, passable>>

-----------------------------------------------------------------------------
NoBarriers == [a \in SettlementAssets |-> Nothing]
BarrierMaps == [SettlementAssets -> Bounds \cup {Nothing}]
Settings == [broker : BarrierMaps, account : BarrierMaps]
Configured(s) == s.broker # NoBarriers \/ s.account # NoBarriers
Covered(s, a) == s.broker[a] # Nothing \/ s.account[a] # Nothing

breached_sides(b, pnl) ==
    (b.low # NoBound /\ pnl < b.low) \/ (b.up # NoBound /\ pnl > b.up)

(* is_outside_bounds: either barrier is enough. *)
is_outside_bounds(s, a, pnl) ==
    \E b \in {s.broker[a], s.account[a]} \ {Nothing} : breached_sides(b, pnl)

RealizedOf(a) == IF realized[a] = Nothing THEN 0 ELSE realized[a]

Reporting(r, at) == report[r].at = at
(* A report's closure has the entry of its asset to itself.                *)
EntryLocked(a) == \E r \in Feeds : Reporting(r, "inside") /\ report[r].asset = a

-----------------------------------------------------------------------------
(* Mutant: PnL is only tracked for assets that have a barrier. *)
AddedIfCovered(a, result) ==
    IF Covered(barriers, a) THEN RealizedOf(a) + result ELSE RealizedOf(a)

Added(a, result) == RealizedOf(a) + result

(* apply_execution_report, inside the shared lease and the entry's lock:   *)
(* the new total is written, or the addition overflows and nothing is.     *)
Accumulate(r, a, result) ==
    LET sum == Added(a, result) IN
    /\ Reporting(r, "idle") /\ retiring = Nothing /\ ~EntryLocked(a)
    /\ updates < MaxUpdates /\ updates' = updates + 1
    /\ \/ /\ sum \in -MaxPnl .. MaxPnl
          /\ realized' = [realized EXCEPT ![a] = sum]
          /\ total' = [total EXCEPT ![a] = @ + result]
          /\ report' = [report EXCEPT ![r] = [at |-> "inside", asset |-> a, block |-> FALSE]]
       \/ /\ sum \notin -MaxPnl .. MaxPnl
          /\ realized' = [realized EXCEPT ![a] = RealizedOf(a)]
          /\ report' = [report EXCEPT ![r] = [at |-> "judged", asset |-> a, block |-> TRUE]]
          /\ UNCHANGED total
    /\ UNCHANGED <<barriers, tuning, order, retiring, barred>>

(* A report without a required field, or whose pnl + fee overflows.        *)
FailReport(r, a) ==
    /\ Reporting(r, "idle")
    /\ updates < MaxUpdates /\ updates' = updates + 1
    /\ report' = [report EXCEPT ![r] = [at |-> "judged", asset |-> a, block |-> TRUE]]
    /\ UNCHANGED <<realized, barriers, tuning, order, retiring, barred, total>>

(* Still inside: the settings are loaded after the write.                  *)
JudgeReport(r) ==
    LET a == report[r].asset IN
    /\ Reporting(r, "inside")
    /\ report' = [report EXCEPT ![r].at = "judged",
                                ![r].block = is_outside_bounds(barriers, a, realized[a])]
    /\ UNCHANGED <<realized, barriers, tuning, order, retiring, barred, updates, total>>

(* The engine records the block once every policy has returned.            *)
RecordBreach(r) ==
    /\ Reporting(r, "judged")
    /\ barred' = (barred \/ report[r].block)
    /\ report' = [report EXCEPT ![r].at = "idle", ![r].block = FALSE]
    /\ UNCHANGED <<realized, barriers, tuning, order, retiring, updates, total>>

-----------------------------------------------------------------------------
(* start_pre_trade: a blocked account gets no further.                     *)
BeginOrder(c, a) ==
    /\ order[c].at = "idle" /\ ~barred
    /\ order' = [order EXCEPT ![c].at = "begun", ![c].asset = a]
    /\ UNCHANGED <<realized, barriers, tuning, report, retiring, barred, updates, total>>

(* check_pre_trade_start: the settings are loaded; without a barrier for   *)
(* the pair the PnL is not read.                                           *)
LoadBarriers(c) ==
    /\ order[c].at = "begun"
    /\ order' = [order EXCEPT ![c].at = IF Covered(barriers, order[c].asset) THEN "loaded"
                                                                     ELSE "admitted",
                              ![c].snapshot = barriers]
    /\ UNCHANGED <<realized, barriers, tuning, report, retiring, barred, updates, total>>

ReadRealized(c) ==
    LET a == order[c].asset IN
    /\ order[c].at = "loaded" /\ ~EntryLocked(a)
    /\ order' = [order EXCEPT ![c].at =
                    IF is_outside_bounds(order[c].snapshot, a, RealizedOf(a))
                    THEN "refused" ELSE "admitted"]
    /\ UNCHANGED <<realized, barriers, tuning, report, retiring, barred, updates, total>>

(* The reject has account scope: the engine blocks the account.            *)
EndOrder(c) ==
    /\ order[c].at \in {"refused", "admitted"}
    /\ barred' = (barred \/ order[c].at = "refused")
    /\ order' = [order EXCEPT ![c].at = "idle"]
    /\ UNCHANGED <<realized, barriers, tuning, report, retiring, updates, total>>

-----------------------------------------------------------------------------
(* set_broker_barriers and set_account_barriers on a copy, under the       *)
(* cell's writer mutex; a set that leaves no barrier at all is refused.    *)
Retune(m, tier, map) ==
    LET copy == [barriers EXCEPT ![tier] = map] IN
    /\ tuning.by = Nothing /\ updates < MaxUpdates
    /\ Configured(copy)
    /\ tuning' = [by |-> m, copy |-> copy]
    /\ updates' = updates + 1
    /\ UNCHANGED <<realized, barriers, report, order, retiring, barred, total>>

PublishRetune(m) ==
    /\ tuning.by = m
    /\ barriers' = tuning.copy
    /\ tuning' = [tuning EXCEPT !.by = Nothing]
    /\ UNCHANGED <<realized, report, order, retiring, barred, updates, total>>

(* set_account_pnl, under the shared lease. *)
ForcePnl(a, value) ==
    /\ retiring = Nothing /\ ~EntryLocked(a)
    /\ updates < MaxUpdates /\ updates' = updates + 1
    /\ realized' = [realized EXCEPT ![a] = value]
    /\ total' = [total EXCEPT ![a] = value]
    /\ UNCHANGED <<barriers, tuning, report, order, retiring, barred>>

(* retire_account, under the exclusive lease: refused while an entry is    *)
(* not zero or an account barrier exists.                                  *)
BeginRetirement ==
    /\ retiring = Nothing /\ \A r \in Feeds : ~Reporting(r, "inside")
    /\ \A a \in SettlementAssets : RealizedOf(a) = 0
    /\ barriers.account = NoBarriers
    /\ retiring' = {a \in SettlementAssets : realized[a] # Nothing}
    /\ UNCHANGED <<realized, barriers, tuning, report, order, barred, updates, total>>

(* The mutations remove what is zero; then the engine forgets the account, *)
(* its block included.                                                     *)
EndRetirement ==
    /\ retiring # Nothing
    /\ realized' = [a \in SettlementAssets |->
                       IF a \in retiring /\ realized[a] = 0 THEN Nothing ELSE realized[a]]
    /\ barred' = FALSE
    /\ retiring' = Nothing
    /\ UNCHANGED <<barriers, tuning, report, order, updates, total>>

(* The operator. *)
LiftBlock ==
    /\ barred /\ barred' = FALSE
    /\ UNCHANGED <<realized, barriers, tuning, report, order, retiring, updates, total>>

-----------------------------------------------------------------------------
(* History: what could have let an order pass while it was being checked.  *)
Checked(c) == order[c].at \in {"begun", "loaded"}
Watch ==
    /\ inForce' = [c \in Clients |->
          IF ~Checked(c)' THEN {}
          ELSE {barriers'} \cup (IF Checked(c) THEN inForce[c] ELSE {})]
    /\ passable' = [c \in Clients |->
          \/ (Checked(c) \/ order[c].at = "admitted") /\ order'[c].at # "idle" /\ passable[c]
          \/ \E s \in inForce'[c] :
                ~is_outside_bounds(s, order'[c].asset, total'[order'[c].asset])]

SwitchInit ==
    /\ realized = [a \in SettlementAssets |-> Nothing]
    /\ barriers \in {s \in Settings : Configured(s)}
    /\ tuning = [by |-> Nothing, copy |-> barriers]
    /\ report = [r \in Feeds |->
          [at |-> "idle", asset |-> CHOOSE a \in SettlementAssets : TRUE, block |-> FALSE]]
    /\ order = [c \in Clients |->
          [at |-> "idle", asset |-> CHOOSE a \in SettlementAssets : TRUE, snapshot |-> barriers]]
    /\ retiring = Nothing /\ barred = FALSE /\ updates = 0
    /\ total = [a \in SettlementAssets |-> 0]
    /\ inForce = [c \in Clients |-> {}] /\ passable = [c \in Clients |-> FALSE]

SwitchSteps ==
    \/ \E r \in Feeds :
          \/ \E a \in SettlementAssets :
                (\E result \in Results : Accumulate(r, a, result)) \/ FailReport(r, a)
          \/ JudgeReport(r) \/ RecordBreach(r)
    \/ \E c \in Clients :
          \/ \E a \in SettlementAssets : BeginOrder(c, a)
          \/ LoadBarriers(c) \/ ReadRealized(c) \/ EndOrder(c)
    \/ \E m \in Tuners :
          \/ \E tier \in {"broker", "account"}, map \in BarrierMaps : Retune(m, tier, map)
          \/ PublishRetune(m)
    \/ \E a \in SettlementAssets, value \in ForcedPnls : ForcePnl(a, value)
    \/ BeginRetirement \/ EndRetirement \/ LiftBlock

SwitchNext == SwitchSteps /\ Watch

SwitchSpec == SwitchInit /\ [][SwitchNext]_switchVars

-----------------------------------------------------------------------------
(* An order is only admitted if, at some moment of its check, the PnL the  *)
(* account had really made was inside some settings that had been in force *)
(* during the check: no loss is forgotten by a retune, a barrier added     *)
(* later, a retirement or a report on the way ("a barrier added at runtime *)
(* sees the true accumulated P&L rather than a stale zero",                *)
(* pnl_bounds_killswitch.rs:585-586), although neither side waits for the  *)
(* other.                                                                  *)
NoOrderPastBreach ==
    \A c \in Clients : order[c].at = "admitted" => passable[c]

-----------------------------------------------------------------------------
(* The inductive invariant behind it. *)
OrderSteps == {"idle", "begun", "loaded", "refused", "admitted"}
SwitchTypeOK ==
    /\ realized \in [SettlementAssets -> Int \cup {Nothing}]
    /\ total \in [SettlementAssets -> Int]
    /\ order \in [Clients -> [at : OrderSteps, asset : SettlementAssets, snapshot : Settings]]
    /\ barriers \in Settings /\ tuning \in [by : Tuners \cup {Nothing}, copy : Settings]
    /\ passable \in [Clients -> BOOLEAN]

(* No result is lost: a missing entry stands for zero.                     *)
NothingLost == \A a \in SettlementAssets : RealizedOf(a) = total[a]

(* A check works with settings that have been in force since it began, and *)
(* the history has noticed whether one of them lets the order pass.        *)
Inside(s, a) == ~is_outside_bounds(s, a, total[a])
SnapshotWasInForce ==
    \A c \in Clients :
        /\ Checked(c) => barriers \in inForce[c]
        /\ order[c].at = "loaded" => order[c].snapshot \in inForce[c]
PassableNoticed ==
    \A c \in Clients :
        Checked(c) /\ (\E s \in inForce[c] : Inside(s, order[c].asset)) => passable[c]

SwitchInv ==
    SwitchTypeOK /\ NothingLost /\ SnapshotWasInForce /\ PassableNoticed /\ NoOrderPastBreach
=============================================================================
