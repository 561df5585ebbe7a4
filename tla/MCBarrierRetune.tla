--------------------------- MODULE MCBarrierRetune ---------------------------
(***************************************************************************)
(* The two PnL barriers for TLC: the retune of the spot funds barrier and  *)
(* the kill switch policy.  They share no state, so each is checked while  *)
(* the other stays in its first state.                                     *)
(***************************************************************************)
EXTENDS BarrierRetune, KillSwitch

CONSTANTS a1, a2, g1, r1, t1, m1, m2, usd, eur

VARIABLE policy   \* the one that runs

Tight == [low |-> 0, currency |-> usd]
Other == [low |-> 0, currency |-> eur]

TwoBarriers == {Tight, Other}
GlobalAndGroup == {"global", g1}
Losses == {-1, Halted}
Reset == {0, Halted}

(* An asset has a barrier on both sides or none. *)
BothSides == {[low |-> -1, up |-> 1]}
LossesAndGains == {-2, 2}
Zero == {0}

MCInit ==
    /\ Init /\ SwitchInit
    /\ policy \in {"SpotFunds", "KillSwitch"}
    /\ policy = "SpotFunds" => \A a \in SettlementAssets : Covered(barriers, a)
                                                        /\ barriers.account[a] = Nothing

MCNext ==
    /\ \/ policy = "SpotFunds" /\ Next /\ UNCHANGED switchVars
       \/ policy = "KillSwitch" /\ SwitchNext /\ UNCHANGED vars
    /\ UNCHANGED policy

MCSpec == MCInit /\ [][MCNext]_<<vars, switchVars, policy>>
=============================================================================
