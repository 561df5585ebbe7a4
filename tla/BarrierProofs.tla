---------------------------- MODULE BarrierProofs ----------------------------
(***************************************************************************)
(* The two PnL barriers.  Retunes of the spot-funds barriers keep each     *)
(* other's updates, orders are checked by the barriers in force, and a     *)
(* breach is blocked, for any accounts, groups, barriers, amounts and      *)
(* threads.  The kill switch admits no order past a breach that lasts      *)
(* through its check, for any assets, bounds, results and threads.         *)
(***************************************************************************)
EXTENDS BarrierRetune, KillSwitch, TLAPS

USE BarrierRetuneAssumption, KillSwitchAssumption

LEMMA StepEffect ==
  ASSUME TypeOK, NEW t \in Threads, NEW l, NEW v, Step(t, l, v)
  PROVE  /\ pc'[t] = l /\ arg'[t] = v
         /\ \A u \in Threads \ {t} : pc'[u] = pc[u] /\ arg'[u] = arg[u]
         /\ DOMAIN pc' = Threads /\ DOMAIN arg' = Threads
  BY DEF Step, TypeOK

(* What a step writes has its type when the thread carries what its next   *)
(* step needs and the shared state keeps its type.                         *)
StateTypes ==
    /\ settings \in BarrierSets /\ pnl \in [Accounts -> PnlValues]
    /\ group \in [Accounts -> Groups \cup {None}]
    /\ currency \in [Accounts -> Currencies \cup {None}]

LEMMA StepTypes ==
  ASSUME TypeOK, NEW t \in Threads, NEW l, NEW v, Step(t, l, v), Carries(t, l, v), StateTypes'
  PROVE  TypeOK'
PROOF
  <1>1. \A u \in Threads : Carries(u, pc'[u], arg'[u])
    BY StepEffect DEF TypeOK
  <1> QED BY <1>1, StepEffect DEF TypeOK, StateTypes

(* What a writer reads when it enters (with_state_writer). *)
LEMMA EnterArgs ==
  ASSUME TypeOK, NEW a \in Accounts, NEW v \in PnlValues
  PROVE  [account |-> a, value |-> v, settings |-> settings, group |-> group[a],
          currency |-> currency[a], block |-> FALSE] \in WriterArgs
  BY DEF TypeOK, WriterArgs

LEMMA Inputs ==
  /\ Deltas \subseteq PnlValues /\ Assertions \subseteq PnlValues /\ None \in PnlValues
  /\ Reporters \subseteq Threads /\ Traders \subseteq Threads /\ Admins \subseteq Threads
  /\ Scopes \subseteq AllScopes /\ Accounts \subseteq AllScopes /\ Groups \subseteq AllScopes
  /\ "global" \in AllScopes
  BY DEF PnlValues, Threads, AllScopes

(* The steps of writers. *)
LEMMA ReportTypes ==
  ASSUME TypeOK, NEW r \in Reporters,
         \/ \E a \in Accounts, d \in Deltas : ReportArrives(r, a, d)
         \/ ApplyReport(r) \/ RecordReport(r)
  PROVE  TypeOK'
PROOF
  <1>0. r \in Threads /\ StateTypes /\ Carries(r, pc[r], arg[r])
    BY Inputs DEF TypeOK, StateTypes
  <1>1. ASSUME NEW a \in Accounts, NEW d \in Deltas, ReportArrives(r, a, d) PROVE TypeOK'
    <2> DEFINE v == [account |-> a, value |-> d, settings |-> settings, group |-> group[a],
                     currency |-> currency[a], block |-> FALSE]
    <2>1. Step(r, "apply", v) /\ StateTypes'
      BY <1>0, <1>1 DEF ReportArrives, Enter, StateTypes
    <2>2. Carries(r, "apply", v)
      BY EnterArgs, Inputs DEF Carries
    <2> QED BY <1>0, <2>1, <2>2, StepTypes
  <1>2. ASSUME ApplyReport(r) PROVE TypeOK'
    <2> DEFINE a == arg[r].account
               v == IF pnl[a] = Halted \/ arg[r].value = Halted THEN Halted
                    ELSE Stored(pnl[a]) + arg[r].value
               w == [arg[r] EXCEPT !.block = Blocks(arg[r].currency, v, SnapshotBarrier(r))]
    <2>1. arg[r] \in WriterArgs /\ a \in Accounts /\ arg[r].value \in Deltas
      BY <1>0, <1>2 DEF ApplyReport, Carries, WriterArgs
    <2>2. StateTypes' /\ Step(r, "record", w)
      <3>1. Step(r, "record", w) /\ pnl' = [pnl EXCEPT ![a] = v]
        BY <1>2 DEF ApplyReport
      <3>2. v \in PnlValues
        <4>1. pnl[a] \in Int \cup {Halted, None} /\ arg[r].value \in Int \cup {Halted}
          BY <1>0, <2>1 DEF PnlValues, StateTypes
        <4> QED BY <4>1 DEF PnlValues, Stored
      <3> QED BY <1>0, <1>2, <2>1, <3>1, <3>2 DEF ApplyReport, StateTypes
    <2>3. w \in WriterArgs /\ w.value \in Deltas
      BY <2>1 DEF WriterArgs, Blocks
    <2>4. Carries(r, "record", w)
      BY <2>3 DEF Carries
    <2> QED BY <1>0, <2>2, <2>4, StepTypes
  <1>3. ASSUME RecordReport(r) PROVE TypeOK'
    <2>1. Step(r, "idle", None) /\ StateTypes'
      BY <1>0, <1>3 DEF RecordReport, StateTypes
    <2> QED BY <1>0, <2>1, StepTypes DEF Carries
  <1> QED BY <1>1, <1>2, <1>3

LEMMA OrderTypes ==
  ASSUME TypeOK, NEW t \in Traders,
         (\E a \in Accounts : OrderArrives(t, a)) \/ CheckOrder(t) \/ OrderLeaves(t)
  PROVE  TypeOK'
PROOF
  <1>0. t \in Threads /\ StateTypes /\ Carries(t, pc[t], arg[t])
    BY Inputs DEF TypeOK, StateTypes
  <1>1. ASSUME NEW a \in Accounts, OrderArrives(t, a) PROVE TypeOK'
    <2> DEFINE v == [account |-> a, value |-> None, settings |-> settings, group |-> group[a],
                     currency |-> currency[a], block |-> FALSE]
    <2>1. Step(t, "check", v) /\ StateTypes'
      BY <1>0, <1>1 DEF OrderArrives, Enter, StateTypes
    <2>2. Carries(t, "check", v)
      BY EnterArgs, Inputs DEF Carries
    <2> QED BY <1>0, <2>1, <2>2, StepTypes
  <1>2. ASSUME CheckOrder(t) PROVE TypeOK'
    <2> DEFINE v == Stored(pnl[arg[t].account])
               l == IF Blocks(arg[t].currency, v, SnapshotBarrier(t)) THEN "refused" ELSE "admitted"
               w == [arg[t] EXCEPT !.value = v]
    <2>1. arg[t] \in WriterArgs
      BY <1>0, <1>2 DEF CheckOrder, Carries
    <2>2. v \in PnlValues
      BY <1>0, <2>1 DEF Stored, PnlValues, StateTypes, WriterArgs
    <2>3. w \in WriterArgs
      BY <2>1, <2>2 DEF WriterArgs
    <2>4. Step(t, l, w) /\ StateTypes'
      BY <1>0, <1>2 DEF CheckOrder, StateTypes
    <2>5. Carries(t, l, w)
      BY <2>3 DEF Carries
    <2> QED BY <1>0, <2>4, <2>5, StepTypes
  <1>3. ASSUME OrderLeaves(t) PROVE TypeOK'
    <2>1. Step(t, "idle", None) /\ StateTypes'
      BY <1>0, <1>3 DEF OrderLeaves, StateTypes
    <2> QED BY <1>0, <2>1, StepTypes DEF Carries
  <1> QED BY <1>1, <1>2, <1>3

LEMMA AssertionTypes ==
  ASSUME TypeOK, NEW m \in Admins,
         \/ \E a \in Accounts, v \in Assertions : SetAccountPnl(m, a, v)
         \/ WriteAccountPnl(m) \/ JudgeAccountPnl(m)
  PROVE  TypeOK'
PROOF
  <1>0. m \in Threads /\ StateTypes /\ Carries(m, pc[m], arg[m])
    BY Inputs DEF TypeOK, StateTypes
  <1>1. ASSUME NEW a \in Accounts, NEW v \in Assertions, SetAccountPnl(m, a, v) PROVE TypeOK'
    <2> DEFINE w == [account |-> a, value |-> v, settings |-> settings, group |-> group[a],
                     currency |-> currency[a], block |-> FALSE]
    <2>1. Step(m, "set", w) /\ StateTypes'
      BY <1>0, <1>1 DEF SetAccountPnl, Enter, StateTypes
    <2>2. Carries(m, "set", w)
      BY EnterArgs, Inputs DEF Carries
    <2> QED BY <1>0, <2>1, <2>2, StepTypes
  <1>2. ASSUME WriteAccountPnl(m) PROVE TypeOK'
    <2>1. arg[m] \in WriterArgs
      BY <1>0, <1>2 DEF WriteAccountPnl, Carries
    <2>2. Step(m, "judgeSet", arg[m]) /\ StateTypes'
      BY <1>0, <1>2, <2>1 DEF WriteAccountPnl, StateTypes, WriterArgs
    <2> QED BY <1>0, <2>1, <2>2, StepTypes DEF Carries
  <1>3. ASSUME JudgeAccountPnl(m) PROVE TypeOK'
    <2>1. Step(m, "idle", None) /\ StateTypes'
      BY <1>0, <1>3 DEF JudgeAccountPnl, StateTypes
    <2> QED BY <1>0, <2>1, StepTypes DEF Carries
  <1> QED BY <1>1, <1>2, <1>3

LEMMA TransitionTypes ==
  ASSUME TypeOK, NEW m \in Admins,
         \/ \E x \in Scopes, b \in Barriers \cup {None} : Prepare(m, x, b)
         \/ Publish(m) \/ Sweep(m)
         \/ \E a \in Accounts, g \in Groups \cup {None} : ChangeMembership(m, a, g)
         \/ JudgeMember(m) \/ RecordSwept(m) \/ LeaveTransition(m)
  PROVE  TypeOK'
PROOF
  <1>0. m \in Threads /\ StateTypes /\ Carries(m, pc[m], arg[m])
    BY Inputs DEF TypeOK, StateTypes
  <1>1. ASSUME NEW x \in Scopes, NEW b \in Barriers \cup {None}, Prepare(m, x, b) PROVE TypeOK'
    <2> DEFINE v == [scope |-> x, previous |-> settings,
                     current |-> [settings EXCEPT ![x] = b], todo |-> {}]
    <2>1. Step(m, "publish", v) /\ StateTypes'
      BY <1>0, <1>1 DEF Prepare, StateTypes
    <2>2. x \in AllScopes /\ [settings EXCEPT ![x] = b] \in BarrierSets
      BY <1>0, Inputs DEF StateTypes, BarrierSets
    <2>3. Carries(m, "publish", v)
      BY <1>0, <2>2 DEF Carries, RetuneArgs, StateTypes
    <2> QED BY <1>0, <2>1, <2>3, StepTypes
  <1>2. ASSUME Publish(m) PROVE TypeOK'
    <2>1. arg[m] \in RetuneArgs
      BY <1>0, <1>2 DEF Publish, Carries
    <2>2. Step(m, "sweep", arg[m]) /\ StateTypes'
      BY <1>0, <1>2, <2>1 DEF Publish, StateTypes, RetuneArgs
    <2> QED BY <1>0, <2>1, <2>2, StepTypes DEF Carries
  <1>3. ASSUME Sweep(m) PROVE TypeOK'
    <2> DEFINE todo == {a \in changed_barriers(arg[m].previous, arg[m].current) :
                          Blocks(currency[a], Stored(pnl[a]),
                                 barrier_for(arg[m].current, a, group[a], currency[a]))}
               v == [arg[m] EXCEPT !.todo = todo]
    <2>1. arg[m] \in RetuneArgs
      BY <1>0, <1>3 DEF Sweep, Carries
    <2>2. Step(m, "block", v) /\ StateTypes'
      BY <1>0, <1>3 DEF Sweep, StateTypes
    <2>3. todo \subseteq Accounts
      BY DEF changed_barriers, Candidates, Known
    <2>4. v \in RetuneArgs
      <3> HIDE DEF todo
      <3> QED BY <2>1, <2>3 DEF RetuneArgs
    <2> QED BY <1>0, <2>2, <2>4, StepTypes DEF Carries
  <1>4. ASSUME NEW a \in Accounts, NEW g \in Groups \cup {None}, ChangeMembership(m, a, g)
        PROVE  TypeOK'
    <2>1. Step(m, "member", [account |-> a, from |-> group[a]]) /\ StateTypes'
      BY <1>0, <1>4 DEF ChangeMembership, StateTypes
    <2>2. Carries(m, "member", [account |-> a, from |-> group[a]])
      BY <1>0 DEF Carries, MemberArgs, StateTypes
    <2> QED BY <1>0, <2>1, <2>2, StepTypes
  <1>5. ASSUME JudgeMember(m) PROVE TypeOK'
    <2>1. arg[m] \in MemberArgs
      BY <1>0, <1>5 DEF JudgeMember, Carries
    <2>2. PICK todo \in SUBSET Accounts : Step(m, "block", [todo |-> todo])
      BY <1>5, <2>1 DEF JudgeMember, MemberArgs
    <2>3. StateTypes'
      BY <1>0, <1>5 DEF JudgeMember, StateTypes
    <2>4. Carries(m, "block", [todo |-> todo])
      BY <2>2 DEF Carries, SweptArgs
    <2> QED BY <1>0, <2>2, <2>3, <2>4, StepTypes
  <1>6. ASSUME RecordSwept(m) PROVE TypeOK'
    <2>1. PICK a \in arg[m].todo : arg' = [arg EXCEPT ![m].todo = @ \ {a}]
      BY <1>6 DEF RecordSwept
    <2>2. pc' = pc /\ pc[m] = "block" /\ StateTypes'
      BY <1>0, <1>6 DEF RecordSwept, StateTypes
    <2>3. arg[m] \in RetuneArgs \cup SweptArgs
      BY <1>0, <2>2 DEF Carries
    <2>4. DOMAIN arg' = Threads /\ arg'[m] = [arg[m] EXCEPT !.todo = @ \ {a}]
          /\ \A u \in Threads \ {m} : arg'[u] = arg[u]
      BY <1>0, <2>1 DEF TypeOK
    <2>5. arg'[m] \in RetuneArgs \cup SweptArgs
      BY <2>3, <2>4 DEF RetuneArgs, SweptArgs
    <2>6. \A u \in Threads : Carries(u, pc'[u], arg'[u])
      <3>1. Carries(m, pc'[m], arg'[m])
        BY <2>2, <2>5 DEF Carries
      <3> QED BY <2>2, <2>4, <3>1 DEF TypeOK
    <2> QED BY <2>2, <2>4, <2>6 DEF TypeOK, StateTypes
  <1>7. ASSUME LeaveTransition(m) PROVE TypeOK'
    <2>1. Step(m, "idle", None) /\ StateTypes'
      BY <1>0, <1>7 DEF LeaveTransition, StateTypes
    <2> QED BY <1>0, <2>1, StepTypes DEF Carries
  <1> QED BY <1>1, <1>2, <1>3, <1>4, <1>5, <1>6, <1>7

LEMMA OperatorTypes ==
  ASSUME TypeOK, NEW a \in Accounts,
         Unblock(a) \/ \E c \in Currencies \cup {None} : SetCurrency(a, c)
  PROVE  TypeOK'
PROOF
  <1>1. ASSUME Unblock(a) PROVE TypeOK'
    BY <1>1 DEF Unblock, TypeOK
  <1>2. ASSUME NEW c \in Currencies \cup {None}, SetCurrency(a, c) PROVE TypeOK'
    BY <1>2 DEF SetCurrency, TypeOK
  <1> QED BY <1>1, <1>2


-----------------------------------------------------------------------------
(* The lease and the settings' mutex (with_state_writer,                   *)
(* with_state_transition and prepare_serialized_transition).               *)

(* A writer enters beside other writers. *)
LEMMA WriterEnters ==
  ASSUME TypeOK, LeaseHolders, NEW t \in Threads, NEW a, NEW l \in WriterSteps, NEW v,
         Enter(t, a, l, v)
  PROVE  LeaseHolders'
PROOF
  <1>1. Step(t, l, [account |-> a, value |-> v, settings |-> settings,
                    group |-> group[a], currency |-> currency[a], block |-> FALSE])
    BY DEF Enter
  <1>2. /\ pc'[t] = l /\ pc[t] = "idle" /\ \A u \in Threads \ {t} : pc'[u] = pc[u]
    BY <1>1, StepEffect DEF Enter
  <1> QED BY <1>2 DEF Enter, LeaseHolders, WriterSteps, TransitionSteps

(* It goes on, or leaves. *)
LEMMA WriterMoves ==
  ASSUME TypeOK, LeaseHolders, NEW t \in Threads, NEW l, NEW v, Step(t, l, v),
         \/ pc[t] \in WriterSteps /\ l \in WriterSteps /\ shared' = shared
         \/ /\ pc[t] \in WriterSteps /\ l \in {"record", "idle"} /\ shared' = shared \ {t}
         \/ pc[t] = "record" /\ l = "idle" /\ shared' = shared,
         UNCHANGED <<exclusive, transition>>
  PROVE  LeaseHolders'
PROOF
  <1>1. pc'[t] = l /\ \A u \in Threads \ {t} : pc'[u] = pc[u]
    BY StepEffect
  <1> QED BY <1>1 DEF LeaseHolders, WriterSteps, TransitionSteps

LEMMA WriteHolders ==
  ASSUME TypeOK, LeaseHolders, Writes
  PROVE  LeaseHolders'
PROOF
  <1> USE DEF lease
  <1>1. ASSUME NEW r \in Reporters, NEW a \in Accounts, NEW d \in Deltas, ReportArrives(r, a, d)
        PROVE  LeaseHolders'
    BY <1>1, Inputs, WriterEnters DEF ReportArrives, WriterSteps
  <1>2. ASSUME NEW r \in Reporters, ApplyReport(r) PROVE LeaseHolders'
    BY <1>2, Inputs, WriterMoves DEF ApplyReport, WriterSteps
  <1>3. ASSUME NEW r \in Reporters, RecordReport(r) PROVE LeaseHolders'
    BY <1>3, Inputs, WriterMoves DEF RecordReport, WriterSteps
  <1>4. ASSUME NEW t \in Traders, NEW a \in Accounts, OrderArrives(t, a) PROVE LeaseHolders'
    BY <1>4, Inputs, WriterEnters DEF OrderArrives, WriterSteps
  <1>5. ASSUME NEW t \in Traders, CheckOrder(t) PROVE LeaseHolders'
    BY <1>5, Inputs, WriterMoves DEF CheckOrder, WriterSteps
  <1>6. ASSUME NEW t \in Traders, OrderLeaves(t) PROVE LeaseHolders'
    BY <1>6, Inputs, WriterMoves DEF OrderLeaves, WriterSteps
  <1> QED BY <1>1, <1>2, <1>3, <1>4, <1>5, <1>6 DEF Writes

LEMMA AdminHolders ==
  ASSUME TypeOK, LeaseHolders, NEW m \in Admins, Administers(m)
  PROVE  LeaseHolders'
PROOF
  <1> USE DEF lease
  <1>0. m \in Threads /\ m # None
    BY Inputs DEF Threads
  <1> DEFINE Others == \A u \in Threads \ {m} : pc'[u] = pc[u]
  <1>1. ASSUME NEW x \in Scopes, NEW b \in Barriers \cup {None}, Prepare(m, x, b)
        PROVE  LeaseHolders'
    <2>1. pc[m] = "idle" /\ pc'[m] = "publish" /\ Others
      BY <1>0, <1>1, StepEffect DEF Prepare
    <2>2. \A u \in Threads : pc[u] \notin {"publish", "sweep"}
      BY <1>1 DEF Prepare, LeaseHolders, Threads
    <2> QED BY <1>1, <2>1, <2>2 DEF Prepare, LeaseHolders, WriterSteps, TransitionSteps
  <1>2. ASSUME Publish(m) PROVE LeaseHolders'
    <2>1. pc[m] = "publish" /\ pc'[m] = "sweep" /\ Others
      BY <1>0, <1>2, StepEffect DEF Publish
    <2> QED BY <1>0, <1>2, <2>1 DEF Publish, LeaseHolders, WriterSteps, TransitionSteps, Threads
  <1>3. ASSUME Sweep(m) PROVE LeaseHolders'
    <2>1. pc[m] = "sweep" /\ pc'[m] = "block" /\ Others
      BY <1>0, <1>3, StepEffect DEF Sweep
    <2> QED BY <1>3, <2>1 DEF Sweep, LeaseHolders, WriterSteps, TransitionSteps
  <1>4. ASSUME NEW a \in Accounts, NEW g \in Groups \cup {None}, ChangeMembership(m, a, g)
        PROVE  LeaseHolders'
    <2>1. pc[m] = "idle" /\ pc'[m] = "member" /\ Others
      BY <1>0, <1>4, StepEffect DEF ChangeMembership
    <2> QED BY <1>0, <1>4, <2>1 DEF ChangeMembership, LeaseHolders, WriterSteps, TransitionSteps,
                                    Threads
  <1>5. ASSUME JudgeMember(m) PROVE LeaseHolders'
    <2>1. pc[m] = "member" /\ pc'[m] = "block" /\ Others
      BY <1>0, <1>5, StepEffect DEF JudgeMember
    <2> QED BY <1>5, <2>1 DEF JudgeMember, LeaseHolders, WriterSteps, TransitionSteps
  <1>6. ASSUME RecordSwept(m) PROVE LeaseHolders'
    BY <1>6 DEF RecordSwept, LeaseHolders
  <1>7. ASSUME LeaveTransition(m) PROVE LeaseHolders'
    <2>1. pc[m] = "block" /\ pc'[m] = "idle" /\ Others
      BY <1>0, <1>7, StepEffect DEF LeaveTransition
    <2>2. exclusive = m
      BY <1>0, <2>1 DEF LeaseHolders, TransitionSteps
    <2>3. \A u \in Threads : pc'[u] \notin TransitionSteps
      BY <2>1, <2>2 DEF LeaseHolders, TransitionSteps
    <2>4. \A u \in Threads : pc'[u] \in {"publish", "sweep"} => transition' = u
      BY <1>7, <2>1 DEF LeaveTransition, LeaseHolders
    <2> QED BY <1>7, <2>1, <2>3, <2>4 DEF LeaveTransition, LeaseHolders, WriterSteps, Threads
  <1>8. ASSUME NEW a \in Accounts, NEW v \in Assertions, SetAccountPnl(m, a, v)
        PROVE  LeaseHolders'
    BY <1>0, <1>8, WriterEnters DEF SetAccountPnl, WriterSteps
  <1>9. ASSUME WriteAccountPnl(m) PROVE LeaseHolders'
    BY <1>0, <1>9, WriterMoves DEF WriteAccountPnl, WriterSteps
  <1>10. ASSUME JudgeAccountPnl(m) PROVE LeaseHolders'
    BY <1>0, <1>10, WriterMoves DEF JudgeAccountPnl, WriterSteps
  <1> QED BY <1>1, <1>2, <1>3, <1>4, <1>5, <1>6, <1>7, <1>8, <1>9, <1>10 DEF Administers

-----------------------------------------------------------------------------
(* What a call read stands, and retunes add up. *)

Reading == SnapshotsStand /\ RetunesKept

(* A writer's step under the lease, with the settings and groups as they   *)
(* are.                                                                    *)
LEMMA WriterReads ==
  ASSUME TypeOK, Reading, NEW t \in Threads, NEW l, NEW v, Step(t, l, v),
         l \in WriterSteps => v.settings = settings /\ v.group = group[v.account],
         l # "sweep",
         l = "publish" => Prepared(v, settings), l = "admitted" => Admits(v),
         UNCHANGED <<settings, group, intended>>
  PROVE  Reading'
PROOF
  <1>1. pc'[t] = l /\ arg'[t] = v /\ \A u \in Threads \ {t} : pc'[u] = pc[u] /\ arg'[u] = arg[u]
    BY StepEffect
  <1>2. \A u \in Threads : pc'[u] \in WriterSteps =>
            arg'[u].settings = settings' /\ arg'[u].group = group'[arg'[u].account]
    BY <1>1 DEF Reading, SnapshotsStand
  <1>3. \A u \in Threads : pc'[u] = "publish" => Prepared(arg'[u], settings')
    BY <1>1 DEF Reading, SnapshotsStand
  <1>4. \A u \in Threads : pc'[u] = "sweep" => arg'[u].current = settings'
    BY <1>1 DEF Reading, SnapshotsStand
  <1>5. \A u \in Threads : pc'[u] = "admitted" => Admits(arg'[u])
    BY <1>1 DEF Reading, SnapshotsStand
  <1> QED BY <1>2, <1>3, <1>4, <1>5 DEF Reading, SnapshotsStand, RetunesKept

LEMMA WriteReads ==
  ASSUME TypeOK, LeaseHolders, Reading, Writes
  PROVE  Reading'
PROOF
  <1>1. ASSUME NEW r \in Reporters, NEW a \in Accounts, NEW d \in Deltas, ReportArrives(r, a, d)
        PROVE  Reading'
    BY <1>1, Inputs, WriterReads DEF ReportArrives, Enter
  <1>2. ASSUME NEW r \in Reporters, ApplyReport(r) PROVE Reading'
    BY <1>2, Inputs, WriterReads DEF ApplyReport, WriterSteps
  <1>3. ASSUME NEW r \in Reporters, RecordReport(r) PROVE Reading'
    BY <1>3, Inputs, WriterReads DEF RecordReport, WriterSteps
  <1>4. ASSUME NEW t \in Traders, NEW a \in Accounts, OrderArrives(t, a) PROVE Reading'
    BY <1>4, Inputs, WriterReads DEF OrderArrives, Enter
  <1>5. ASSUME NEW t \in Traders, CheckOrder(t) PROVE Reading'
    <2> DEFINE v == Stored(pnl[arg[t].account])
               l == IF Blocks(arg[t].currency, v, SnapshotBarrier(t)) THEN "refused" ELSE "admitted"
               w == [arg[t] EXCEPT !.value = v]
    <2>1. t \in Threads /\ pc[t] = "check" /\ Step(t, l, w) /\ UNCHANGED <<settings, group, intended>>
      BY <1>5, Inputs DEF CheckOrder
    <2>2. arg[t] \in WriterArgs
      BY <2>1 DEF TypeOK, Carries
    <2>3. /\ w.settings = arg[t].settings /\ w.group = arg[t].group
          /\ w.account = arg[t].account /\ w.currency = arg[t].currency /\ w.value = v
      BY <2>2 DEF WriterArgs
    <2>4. arg[t].settings = settings /\ arg[t].group = group[arg[t].account]
      BY <2>1 DEF Reading, SnapshotsStand, WriterSteps
    <2>5. l = "admitted" => Admits(w)
      BY <2>3 DEF SnapshotBarrier, Admits
    <2>6. l # "publish" /\ l # "sweep"
      OBVIOUS
    <2> HIDE DEF l, w
    <2> QED BY <2>1, <2>3, <2>4, <2>5, <2>6, WriterReads
  <1>6. ASSUME NEW t \in Traders, OrderLeaves(t) PROVE Reading'
    BY <1>6, Inputs, WriterReads DEF OrderLeaves, WriterSteps
  <1> QED BY <1>1, <1>2, <1>3, <1>4, <1>5, <1>6 DEF Writes

LEMMA AdminReads ==
  ASSUME TypeOK, LeaseHolders, Reading, NEW m \in Admins, Administers(m)
  PROVE  Reading'
PROOF
  <1>0. m \in Threads /\ m # None /\ Carries(m, pc[m], arg[m])
    BY Inputs DEF Threads, TypeOK
  <1> DEFINE Others == \A u \in Threads \ {m} : pc'[u] = pc[u] /\ arg'[u] = arg[u]
  <1>1. ASSUME NEW x \in Scopes, NEW b \in Barriers \cup {None}, Prepare(m, x, b)
        PROVE  Reading'
    <2> DEFINE v == [scope |-> x, previous |-> settings,
                     current |-> [settings EXCEPT ![x] = b], todo |-> {}]
    <2>1. Step(m, "publish", v) /\ UNCHANGED <<settings, group, intended>>
      BY <1>1 DEF Prepare
    <2>2. Prepared(v, settings)
      BY DEF Prepared
    <2> HIDE DEF v
    <2> QED BY <1>0, <2>1, <2>2, WriterReads DEF WriterSteps
  <1>2. ASSUME Publish(m) PROVE Reading'
    <2>1. pc[m] = "publish" /\ pc'[m] = "sweep" /\ arg'[m] = arg[m] /\ Others
      BY <1>0, <1>2, StepEffect DEF Publish
    <2>2. \A u \in Threads : pc[u] \notin WriterSteps
      BY <1>2 DEF Publish, LeaseHolders
    <2>3. \A u \in Threads \ {m} : pc[u] \notin {"publish", "sweep"}
      BY <1>0, <2>1 DEF LeaseHolders
    <2>4. arg[m] \in RetuneArgs
      BY <1>0, <2>1 DEF Carries
    <2>5. PICK b \in Barriers \cup {None} : arg[m].current = [settings EXCEPT ![arg[m].scope] = b]
      BY <1>0, <2>1 DEF Reading, SnapshotsStand, Prepared
    <2>6. settings' = arg[m].current /\ intended' = [intended EXCEPT ![arg[m].scope] = b]
      BY <1>2, <2>4, <2>5 DEF Publish, RetuneArgs, TypeOK, BarrierSets
    <2>7. RetunesKept'
      BY <2>5, <2>6 DEF Reading, RetunesKept
    <2> QED BY <2>1, <2>2, <2>3, <2>6, <2>7 DEF Reading, SnapshotsStand, WriterSteps
  <1>3. ASSUME Sweep(m) PROVE Reading'
    BY <1>0, <1>3, WriterReads DEF Sweep, WriterSteps
  <1>4. ASSUME NEW a \in Accounts, NEW g \in Groups \cup {None}, ChangeMembership(m, a, g)
        PROVE  Reading'
    <2>1. pc[m] = "idle" /\ pc'[m] = "member" /\ Others
      BY <1>0, <1>4, StepEffect DEF ChangeMembership
    <2>2. \A u \in Threads : pc[u] \notin WriterSteps
      BY <1>4 DEF ChangeMembership, LeaseHolders
    <2> QED BY <1>4, <2>1, <2>2 DEF ChangeMembership, Reading, SnapshotsStand, RetunesKept,
                                    WriterSteps
  <1>5. ASSUME JudgeMember(m) PROVE Reading'
    BY <1>0, <1>5, WriterReads DEF JudgeMember, WriterSteps
  <1>6. ASSUME RecordSwept(m) PROVE Reading'
    <2>1. pc[m] = "block" /\ pc' = pc /\ \A u \in Threads \ {m} : arg'[u] = arg[u]
      BY <1>0, <1>6 DEF RecordSwept, TypeOK
    <2>2. UNCHANGED <<settings, group, intended>>
      BY <1>6 DEF RecordSwept
    <2>3. \A u \in Threads : pc[u] \in WriterSteps \cup {"publish", "sweep", "admitted"} =>
              arg'[u] = arg[u]
      BY <2>1 DEF WriterSteps
    <2> QED BY <2>1, <2>2, <2>3 DEF Reading, SnapshotsStand, RetunesKept
  <1>7. ASSUME LeaveTransition(m) PROVE Reading'
    BY <1>0, <1>7, WriterReads DEF LeaveTransition, WriterSteps
  <1>8. ASSUME NEW a \in Accounts, NEW v \in Assertions, SetAccountPnl(m, a, v)
        PROVE  Reading'
    BY <1>0, <1>8, WriterReads DEF SetAccountPnl, Enter
  <1>9. ASSUME WriteAccountPnl(m) PROVE Reading'
    <2>1. arg[m].settings = settings /\ arg[m].group = group[arg[m].account]
      BY <1>0, <1>9 DEF WriteAccountPnl, Reading, SnapshotsStand, WriterSteps
    <2> QED BY <1>0, <1>9, <2>1, WriterReads DEF WriteAccountPnl
  <1>10. ASSUME JudgeAccountPnl(m) PROVE Reading'
    BY <1>0, <1>10, WriterReads DEF JudgeAccountPnl, WriterSteps
  <1> QED BY <1>1, <1>2, <1>3, <1>4, <1>5, <1>6, <1>7, <1>8, <1>9, <1>10 DEF Administers


-----------------------------------------------------------------------------
(* Breaches are blocked *)

Handled(a) == a \in blocked \cup excused \cup ToBlock \/ WillBlock(a)

LEMMA StandingIs ==
  ASSUME NEW a \in Accounts
  PROVE  /\ Doing("sweep") => Standing(a) =
                barrier_for(arg[exclusive].previous, a, group[a], currency[a])
         /\ Doing("member") /\ a = arg[exclusive].account => Standing(a) =
                barrier_for(settings, a, arg[exclusive].from, currency[a])
         /\ ~Doing("sweep") /\ ~(Doing("member") /\ a = arg[exclusive].account) =>
                Standing(a) = Effective(a)
         /\ Doing("sweep") => ~Doing("member")
  BY DEF Standing, Doing

LEMMA StandingFree ==
  ASSUME exclusive = None
  PROVE  ToBlock = {} /\ \A a \in Accounts : Standing(a) = Effective(a)
  BY StandingIs DEF ToBlock, Doing

(* A step of a thread that is not the transition inside. *)
LEMMA TransitionKept ==
  ASSUME TypeOK, LeaseHolders, NEW t \in Threads, NEW l, NEW v, Step(t, l, v),
         pc[t] \notin TransitionSteps, UNCHANGED <<exclusive, settings, group, currency>>
  PROVE  ToBlock' = ToBlock /\ \A a \in Accounts : Standing(a)' = Standing(a)
PROOF
  <1>1. CASE exclusive = None
    BY <1>1, StandingFree DEF Effective, ToBlock, Doing, Standing
  <1>2. CASE exclusive # None
    <2>1. exclusive \in Threads /\ exclusive # t
      BY <1>2 DEF LeaseHolders
    <2>2. pc'[exclusive] = pc[exclusive] /\ arg'[exclusive] = arg[exclusive]
      BY <2>1, StepEffect
    <2> QED BY <1>2, <2>2 DEF Standing, Effective, ToBlock, Doing
  <1> QED BY <1>1, <1>2

LEMMA BlocksKept ==
  ASSUME TypeOK, NEW t \in Threads, NEW l, NEW v, Step(t, l, v),
         pc[t] \notin {"record", "judgeSet"}, UNCHANGED settings, NEW a, WillBlock(a)
  PROVE  WillBlock(a)'
PROOF
  <1>1. \A u \in Threads \ {t} : pc'[u] = pc[u] /\ arg'[u] = arg[u]
    BY StepEffect
  <1>2. ASSUME NEW r \in Reporters, pc[r] = "record" /\ arg[r].account = a /\ arg[r].block
        PROVE  WillBlock(a)'
    <2>1. pc'[r] = pc[r] /\ arg'[r] = arg[r]
      BY <1>1, <1>2, Inputs
    <2> QED BY <1>2, <2>1 DEF WillBlock
  <1>3. ASSUME NEW m \in Admins, pc[m] = "judgeSet", arg[m].account = a,
               Blocks(arg[m].currency, arg[m].value,
                      barrier_for(settings, a, arg[m].group, arg[m].currency))
        PROVE  WillBlock(a)'
    <2>1. pc'[m] = pc[m] /\ arg'[m] = arg[m]
      BY <1>1, <1>3, Inputs
    <2> QED BY <1>3, <2>1 DEF WillBlock
  <1> QED BY <1>2, <1>3 DEF WillBlock

(* A step that judges nothing and changes nothing that is judged. *)
LEMMA QuietStep ==
  ASSUME TypeOK, LeaseHolders, BreachesHandled, NEW t \in Threads, NEW l, NEW v, Step(t, l, v),
         pc[t] \notin TransitionSteps \cup {"record", "judgeSet"},
         UNCHANGED <<exclusive, settings, group, currency, pnl, blocked, excused>>
  PROVE  BreachesHandled'
PROOF
  <1>1. ToBlock' = ToBlock /\ \A a \in Accounts : Standing(a)' = Standing(a)
    BY TransitionKept
  <1>2. \A a \in Accounts : Breached(a)' <=> Breached(a)
    BY <1>1 DEF Breached
  <1>3. \A a \in Accounts : WillBlock(a) => WillBlock(a)'
    BY BlocksKept
  <1> QED BY <1>1, <1>2, <1>3 DEF BreachesHandled

LEMMA WriteHandles ==
  ASSUME TypeOK, LeaseHolders, Reading, BreachesHandled, Writes
  PROVE  BreachesHandled'
PROOF
  <1> USE DEF lease
  <1>1. ASSUME NEW r \in Reporters, NEW a \in Accounts, NEW d \in Deltas, ReportArrives(r, a, d)
        PROVE  BreachesHandled'
    BY <1>1, Inputs, QuietStep DEF ReportArrives, Enter, TransitionSteps
  <1>2. ASSUME NEW r \in Reporters, ApplyReport(r) PROVE BreachesHandled'
    <2> DEFINE a == arg[r].account
               v == IF pnl[a] = Halted \/ arg[r].value = Halted THEN Halted
                    ELSE Stored(pnl[a]) + arg[r].value
               w == [arg[r] EXCEPT !.block = Blocks(arg[r].currency, v, SnapshotBarrier(r))]
    <2>1. /\ r \in Threads /\ pc[r] = "apply" /\ Step(r, "record", w)
          /\ pnl' = [pnl EXCEPT ![a] = v]
          /\ UNCHANGED <<settings, group, currency, blocked, exclusive>>
          /\ excused' = IF arg[r].currency = currency[a] THEN excused \ {a} ELSE excused \cup {a}
      BY <1>2, Inputs DEF ApplyReport, Judged
    <2>2. arg[r] \in WriterArgs
      BY <2>1 DEF TypeOK, Carries
    <2>3. exclusive = None
      BY <2>1 DEF LeaseHolders, WriterSteps
    <2>4. /\ pc'[r] = "record" /\ arg'[r].account = a
          /\ arg'[r].block = Blocks(arg[r].currency, v, SnapshotBarrier(r))
      <3>1. arg'[r] = w /\ pc'[r] = "record"
        BY <2>1, StepEffect
      <3> QED BY <2>2, <3>1 DEF WriterArgs
    <2> HIDE DEF v, w
    <2>5. SnapshotBarrier(r) = barrier_for(settings, a, group[a], arg[r].currency)
      BY <2>1 DEF SnapshotBarrier, Reading, SnapshotsStand, WriterSteps
    <2> SUFFICES ASSUME NEW c \in Accounts, Breached(c)' PROVE Handled(c)'
      BY DEF BreachesHandled, Handled
    <2>6. Standing(c)' = Standing(c) /\ Standing(c) = Effective(c)
      BY <2>1, <2>3, StandingFree, TransitionKept DEF TransitionSteps
    <2>7. CASE c # a
      <3>1. pnl'[c] = pnl[c]
        BY <2>1, <2>7 DEF TypeOK
      <3>2. Breached(c)
        BY <2>1, <2>6, <3>1 DEF Breached
      <3>3. Handled(c) /\ ToBlock = {}
        BY <2>3, <3>2, StandingFree DEF BreachesHandled, Handled
      <3>4. WillBlock(c) => WillBlock(c)'
        BY <2>1, BlocksKept
      <3> QED BY <2>1, <2>7, <3>3, <3>4 DEF Handled
    <2>8. CASE c = a
      <3>1. CASE arg[r].currency # currency[a]
        BY <2>1, <2>8, <3>1 DEF Handled
      <3>2. CASE arg[r].currency = currency[a]
        <4>1. pnl'[a] = v
          BY <2>1, <2>8 DEF TypeOK
        <4>2. Blocks(currency[a], v, Effective(a))
          BY <2>1, <2>6, <2>8, <4>1 DEF Breached
        <4>3. arg'[r].block
          BY <2>4, <2>5, <3>2, <4>2 DEF Effective
        <4> QED BY <2>4, <2>8, <4>3 DEF Handled, WillBlock
      <3> QED BY <3>1, <3>2
    <2> QED BY <2>7, <2>8
  <1>3. ASSUME NEW r \in Reporters, RecordReport(r) PROVE BreachesHandled'
    <2>1. /\ r \in Threads /\ pc[r] = "record" /\ Step(r, "idle", None)
          /\ blocked' = IF arg[r].block THEN blocked \cup {arg[r].account} ELSE blocked
          /\ UNCHANGED <<settings, pnl, group, currency, exclusive, excused>>
      BY <1>3, Inputs DEF RecordReport
    <2>2. ToBlock' = ToBlock /\ \A a \in Accounts : Standing(a)' = Standing(a)
      BY <2>1, TransitionKept DEF TransitionSteps
    <2>3. \A u \in Threads \ {r} : pc'[u] = pc[u] /\ arg'[u] = arg[u]
      BY <2>1, StepEffect
    <2> SUFFICES ASSUME NEW c \in Accounts, Breached(c)' PROVE Handled(c)'
      BY DEF BreachesHandled, Handled
    <2>4. Handled(c)
      BY <2>1, <2>2 DEF Breached, BreachesHandled, Handled
    <2>5. ASSUME WillBlock(c) PROVE Handled(c)'
      <3>1. ASSUME NEW q \in Reporters, pc[q] = "record" /\ arg[q].account = c /\ arg[q].block
            PROVE  Handled(c)'
        <4>1. CASE q = r
          BY <2>1, <3>1, <4>1 DEF Handled
        <4>2. CASE q # r
          <5>1. pc'[q] = pc[q] /\ arg'[q] = arg[q]
            BY <2>3, <4>2, Inputs
          <5> QED BY <3>1, <5>1 DEF Handled, WillBlock
        <4> QED BY <4>1, <4>2
      <3>2. ASSUME NEW m \in Admins, pc[m] = "judgeSet", arg[m].account = c,
                   Blocks(arg[m].currency, arg[m].value,
                          barrier_for(settings, c, arg[m].group, arg[m].currency))
            PROVE  Handled(c)'
        <4>1. pc'[m] = pc[m] /\ arg'[m] = arg[m]
          BY <2>1, <2>3, <3>2, Inputs
        <4> QED BY <2>1, <3>2, <4>1 DEF Handled, WillBlock
      <3> QED BY <2>5, <3>1, <3>2 DEF WillBlock
    <2> QED BY <2>1, <2>2, <2>4, <2>5 DEF Handled
  <1>4. ASSUME NEW t \in Traders, NEW a \in Accounts, OrderArrives(t, a) PROVE BreachesHandled'
    BY <1>4, Inputs, QuietStep DEF OrderArrives, Enter, TransitionSteps
  <1>5. ASSUME NEW t \in Traders, CheckOrder(t) PROVE BreachesHandled'
    BY <1>5, Inputs, QuietStep DEF CheckOrder, TransitionSteps
  <1>6. ASSUME NEW t \in Traders, OrderLeaves(t) PROVE BreachesHandled'
    BY <1>6, Inputs, QuietStep DEF OrderLeaves, TransitionSteps
  <1> QED BY <1>1, <1>2, <1>3, <1>4, <1>5, <1>6 DEF Writes


LEMMA AssertionHandles ==
  ASSUME TypeOK, LeaseHolders, Reading, BreachesHandled, NEW m \in Admins,
         \/ \E a \in Accounts, v \in Assertions : SetAccountPnl(m, a, v)
         \/ WriteAccountPnl(m) \/ JudgeAccountPnl(m)
  PROVE  BreachesHandled'
PROOF
  <1> USE DEF lease
  <1>0. m \in Threads
    BY Inputs
  <1>1. ASSUME NEW a \in Accounts, NEW v \in Assertions, SetAccountPnl(m, a, v)
        PROVE  BreachesHandled'
    BY <1>0, <1>1, QuietStep DEF SetAccountPnl, Enter, TransitionSteps
  <1>2. ASSUME WriteAccountPnl(m) PROVE BreachesHandled'
    <2> DEFINE a == arg[m].account
    <2>1. /\ pc[m] = "set" /\ Step(m, "judgeSet", arg[m])
          /\ pnl' = [pnl EXCEPT ![a] = arg[m].value]
          /\ UNCHANGED <<settings, group, currency, blocked, exclusive>>
          /\ excused' = IF arg[m].currency = currency[a] THEN excused \ {a} ELSE excused \cup {a}
      BY <1>2 DEF WriteAccountPnl, Judged
    <2>2. exclusive = None /\ arg[m].group = group[a]
      BY <1>0, <2>1 DEF LeaseHolders, WriterSteps, Reading, SnapshotsStand
    <2>3. pc'[m] = "judgeSet" /\ arg'[m] = arg[m]
      BY <1>0, <2>1, StepEffect
    <2> SUFFICES ASSUME NEW c \in Accounts, Breached(c)' PROVE Handled(c)'
      BY DEF BreachesHandled, Handled
    <2>4. Standing(c)' = Standing(c) /\ Standing(c) = Effective(c)
      BY <1>0, <2>1, <2>2, StandingFree, TransitionKept DEF TransitionSteps
    <2>5. CASE c # a
      <3>1. pnl'[c] = pnl[c]
        BY <2>1, <2>5 DEF TypeOK
      <3>2. Breached(c)
        BY <2>1, <2>4, <3>1 DEF Breached
      <3>3. Handled(c) /\ ToBlock = {}
        BY <2>2, <3>2, StandingFree DEF BreachesHandled, Handled
      <3>4. WillBlock(c) => WillBlock(c)'
        BY <1>0, <2>1, BlocksKept
      <3> QED BY <2>1, <2>5, <3>3, <3>4 DEF Handled
    <2>6. CASE c = a
      <3>1. CASE arg[m].currency # currency[a]
        BY <2>1, <2>6, <3>1 DEF Handled
      <3>2. CASE arg[m].currency = currency[a]
        <4>1. pnl'[a] = arg[m].value
          BY <2>1, <2>6 DEF TypeOK
        <4>2. Blocks(currency[a], arg[m].value, Effective(a))
          BY <2>1, <2>4, <2>6, <4>1 DEF Breached
        <4>3. Blocks(arg[m].currency, arg[m].value,
                     barrier_for(settings, a, arg[m].group, arg[m].currency))
          BY <2>2, <3>2, <4>2 DEF Effective
        <4> QED BY <2>1, <2>3, <2>6, <4>3 DEF Handled, WillBlock
      <3> QED BY <3>1, <3>2
    <2> QED BY <2>5, <2>6
  <1>3. ASSUME JudgeAccountPnl(m) PROVE BreachesHandled'
    <2> DEFINE a == arg[m].account
               b == barrier_for(settings, a, arg[m].group, arg[m].currency)
    <2>1. /\ pc[m] = "judgeSet" /\ Step(m, "idle", None)
          /\ blocked' = IF Blocks(arg[m].currency, arg[m].value, b) THEN blocked \cup {a} ELSE blocked
          /\ UNCHANGED <<settings, pnl, group, currency, exclusive, excused>>
      BY <1>3 DEF JudgeAccountPnl
    <2>2. ToBlock' = ToBlock /\ \A c \in Accounts : Standing(c)' = Standing(c)
      BY <1>0, <2>1, TransitionKept DEF TransitionSteps
    <2>3. \A u \in Threads \ {m} : pc'[u] = pc[u] /\ arg'[u] = arg[u]
      BY <1>0, <2>1, StepEffect
    <2> SUFFICES ASSUME NEW c \in Accounts, Breached(c)' PROVE Handled(c)'
      BY DEF BreachesHandled, Handled
    <2>4. Handled(c)
      BY <2>1, <2>2 DEF Breached, BreachesHandled, Handled
    <2>5. ASSUME WillBlock(c) PROVE Handled(c)'
      <3>1. ASSUME NEW q \in Reporters, pc[q] = "record" /\ arg[q].account = c /\ arg[q].block
            PROVE  Handled(c)'
        <4>1. pc'[q] = pc[q] /\ arg'[q] = arg[q]
          BY <2>1, <2>3, <3>1, Inputs
        <4> QED BY <3>1, <4>1 DEF Handled, WillBlock
      <3>2. ASSUME NEW n \in Admins, pc[n] = "judgeSet", arg[n].account = c,
                   Blocks(arg[n].currency, arg[n].value,
                          barrier_for(settings, c, arg[n].group, arg[n].currency))
            PROVE  Handled(c)'
        <4>1. CASE n = m
          BY <2>1, <3>2, <4>1 DEF Handled
        <4>2. CASE n # m
          <5>1. pc'[n] = pc[n] /\ arg'[n] = arg[n]
            BY <2>3, <4>2, Inputs
          <5> QED BY <2>1, <3>2, <5>1 DEF Handled, WillBlock
        <4> QED BY <4>1, <4>2
      <3> QED BY <2>5, <3>1, <3>2 DEF WillBlock
    <2> QED BY <2>1, <2>2, <2>4, <2>5 DEF Handled
  <1> QED BY <1>1, <1>2, <1>3

(* An account that a retune does not judge keeps its barrier, loses it, or *)
(* has never had a PnL (changed_barriers).                                 *)
LEMMA NotJudged ==
  ASSUME TypeOK, NEW previous \in BarrierSets, NEW current \in BarrierSets, NEW a \in Accounts,
         a \notin changed_barriers(previous, current), pnl[a] # None
  PROVE  LET b == barrier_for(current, a, group[a], currency[a])
         IN  b = None \/ b = barrier_for(previous, a, group[a], currency[a])
PROOF
  <1>1. CASE a \in Candidates(previous, current)
    BY <1>1 DEF changed_barriers
  <1>2. CASE a \notin Candidates(previous, current)
    <2>1. previous[a] = current[a]
      BY <1>2, Inputs DEF Candidates
    <2>2. previous["global"] = current["global"]
      BY <1>2, Inputs DEF Candidates, Known
    <2>3. group[a] # None => previous[group[a]] = current[group[a]]
      <3>1. group[a] # None => group[a] \in AllScopes
        BY Inputs DEF TypeOK
      <3> QED BY <1>2, <2>2, <3>1 DEF Candidates
    <2>4. barrier_for(current, a, group[a], currency[a]) =
             barrier_for(previous, a, group[a], currency[a])
      BY <2>1, <2>2, <2>3 DEF barrier_for
    <2> QED BY <2>4
  <1> QED BY <1>1, <1>2

LEMMA NoBarrierNoBlock ==
  ASSUME NEW c, NEW v, NEW b, Blocks(c, v, b)
  PROVE  b # None
  BY DEF Blocks


(* Blocks on their way when a transition comes in are reports' blocks.     *)
LEMMA ReportBlocksKept ==
  ASSUME TypeOK, LeaseHolders, NEW m \in Threads, shared = {}, pc[m] # "record",
         \A u \in Threads \ {m} : pc'[u] = pc[u] /\ arg'[u] = arg[u],
         NEW a, WillBlock(a)
  PROVE  WillBlock(a)'
PROOF
  <1>1. \A n \in Admins : pc[n] # "judgeSet"
    BY Inputs DEF LeaseHolders, WriterSteps
  <1>2. PICK r \in Reporters : pc[r] = "record" /\ arg[r].account = a /\ arg[r].block
    BY <1>1 DEF WillBlock
  <1>3. pc'[r] = pc[r] /\ arg'[r] = arg[r]
    BY <1>2, Inputs
  <1> QED BY <1>2, <1>3 DEF WillBlock

LEMMA RetuneHandles ==
  ASSUME TypeOK, LeaseHolders, Reading, BreachesHandled, NEW m \in Admins,
         \/ \E x \in Scopes, b \in Barriers \cup {None} : Prepare(m, x, b)
         \/ Publish(m) \/ Sweep(m)
  PROVE  BreachesHandled'
PROOF
  <1> USE DEF lease
  <1>0. m \in Threads /\ m # None
    BY Inputs
  <1>1. ASSUME NEW x \in Scopes, NEW b \in Barriers \cup {None}, Prepare(m, x, b)
        PROVE  BreachesHandled'
    BY <1>0, <1>1, QuietStep DEF Prepare, TransitionSteps
  <1>2. ASSUME Publish(m) PROVE BreachesHandled'
    <2>1. /\ pc[m] = "publish" /\ exclusive = None /\ shared = {} /\ exclusive' = m
          /\ Step(m, "sweep", arg[m])
          /\ UNCHANGED <<pnl, group, currency, blocked, excused>>
      BY <1>2 DEF Publish
    <2>2. /\ pc'[m] = "sweep" /\ arg'[m] = arg[m]
          /\ \A u \in Threads \ {m} : pc'[u] = pc[u] /\ arg'[u] = arg[u]
      BY <1>0, <2>1, StepEffect
    <2>3. arg[m].previous = settings
      BY <1>0, <2>1 DEF Reading, SnapshotsStand, Prepared
    <2> SUFFICES ASSUME NEW c \in Accounts, Breached(c)' PROVE Handled(c)'
      BY DEF BreachesHandled, Handled
    <2>4. Standing(c)' = Effective(c)
      BY <1>0, <2>1, <2>2, <2>3 DEF Standing, Doing, Effective
    <2>5. Breached(c)
      BY <2>1, <2>4, StandingFree DEF Breached
    <2>6. Handled(c) /\ ToBlock = {}
      BY <2>1, <2>5, StandingFree DEF BreachesHandled, Handled
    <2>7. WillBlock(c) => WillBlock(c)'
      BY <1>0, <2>1, <2>2, ReportBlocksKept
    <2> QED BY <2>1, <2>6, <2>7 DEF Handled
  <1>3. ASSUME Sweep(m) PROVE BreachesHandled'
    <2> DEFINE judged == changed_barriers(arg[m].previous, arg[m].current)
               todo == {a \in judged :
                          Blocks(currency[a], Stored(pnl[a]),
                                 barrier_for(arg[m].current, a, group[a], currency[a]))}
               w == [arg[m] EXCEPT !.todo = todo]
    <2>1. /\ pc[m] = "sweep" /\ Step(m, "block", w) /\ excused' = excused \ judged
          /\ UNCHANGED <<settings, pnl, group, currency, blocked, shared, exclusive>>
      BY <1>3 DEF Sweep
    <2>2. /\ exclusive = m /\ shared = {} /\ arg[m].current = settings
          /\ arg[m] \in RetuneArgs
      BY <1>0, <2>1 DEF LeaseHolders, TransitionSteps, Reading, SnapshotsStand, TypeOK, Carries
    <2>3. /\ pc'[m] = "block" /\ arg'[m] = w
          /\ \A u \in Threads \ {m} : pc'[u] = pc[u] /\ arg'[u] = arg[u]
      BY <1>0, <2>1, StepEffect
    <2>4. arg'[m].todo = todo
      <3> HIDE DEF todo
      <3> QED BY <2>2, <2>3 DEF RetuneArgs
    <2>5. ToBlock' = todo
      BY <1>0, <2>1, <2>2, <2>3, <2>4 DEF ToBlock, Doing
    <2> SUFFICES ASSUME NEW c \in Accounts, Breached(c)' PROVE Handled(c)'
      BY DEF BreachesHandled, Handled
    <2>6. Standing(c)' = Effective(c)
      BY <1>0, <2>1, <2>2, <2>3 DEF Standing, Doing, Effective
    <2>7. pnl[c] # None /\ Blocks(currency[c], pnl[c], Effective(c))
      BY <2>1, <2>6 DEF Breached
    <2>8. CASE c \in judged
      <3>1. c \in todo
        BY <2>2, <2>7, <2>8 DEF Stored, Effective
      <3> QED BY <2>5, <3>1 DEF Handled
    <2>9. CASE c \notin judged
      <3>1. Effective(c) # None
        BY <2>7, NoBarrierNoBlock
      <3>2. arg[m].previous \in BarrierSets /\ arg[m].current \in BarrierSets
        BY <2>2 DEF RetuneArgs
      <3>3. Effective(c) = barrier_for(arg[m].previous, c, group[c], currency[c])
        BY <2>2, <2>7, <2>9, <3>1, <3>2, NotJudged DEF Effective
      <3>4. Doing("sweep")
        BY <1>0, <2>1, <2>2 DEF Doing
      <3>5. Breached(c) /\ ToBlock = {}
        BY <2>2, <2>7, <3>3, <3>4, StandingIs DEF Breached, ToBlock, Doing
      <3>6. Handled(c)
        BY <3>5 DEF BreachesHandled, Handled
      <3>7. WillBlock(c) => WillBlock(c)'
        BY <1>0, <2>1, <2>2, <2>3, ReportBlocksKept
      <3> QED BY <2>1, <2>9, <3>5, <3>6, <3>7 DEF Handled
    <2> QED BY <2>8, <2>9
  <1> QED BY <1>1, <1>2, <1>3

LEMMA MembershipHandles ==
  ASSUME TypeOK, LeaseHolders, Reading, BreachesHandled, NEW m \in Admins,
         \/ \E a \in Accounts, g \in Groups \cup {None} : ChangeMembership(m, a, g)
         \/ JudgeMember(m)
  PROVE  BreachesHandled'
PROOF
  <1> USE DEF lease
  <1>0. m \in Threads /\ m # None
    BY Inputs
  <1>1. ASSUME NEW a \in Accounts, NEW g \in Groups \cup {None}, ChangeMembership(m, a, g)
        PROVE  BreachesHandled'
    <2>1. /\ pc[m] = "idle" /\ exclusive = None /\ shared = {} /\ exclusive' = m
          /\ Step(m, "member", [account |-> a, from |-> group[a]])
          /\ group' = [group EXCEPT ![a] = g]
          /\ UNCHANGED <<settings, pnl, currency, blocked, excused>>
      BY <1>1 DEF ChangeMembership
    <2>2. /\ pc'[m] = "member" /\ arg'[m] = [account |-> a, from |-> group[a]]
          /\ \A u \in Threads \ {m} : pc'[u] = pc[u] /\ arg'[u] = arg[u]
      BY <1>0, <2>1, StepEffect
    <2> SUFFICES ASSUME NEW c \in Accounts, Breached(c)' PROVE Handled(c)'
      BY DEF BreachesHandled, Handled
    <2>3. Standing(c)' = Effective(c)
      <3>1. CASE c = a
        BY <1>0, <2>1, <2>2, <3>1 DEF Standing, Doing, Effective
      <3>2. CASE c # a
        <4>1. group'[c] = group[c]
          BY <2>1, <3>2 DEF TypeOK
        <4> QED BY <1>0, <2>1, <2>2, <3>2, <4>1 DEF Standing, Doing, Effective
      <3> QED BY <3>1, <3>2
    <2>4. Breached(c)
      BY <2>1, <2>3, StandingFree DEF Breached
    <2>5. Handled(c) /\ ToBlock = {}
      BY <2>1, <2>4, StandingFree DEF BreachesHandled, Handled
    <2>6. WillBlock(c) => WillBlock(c)'
      BY <1>0, <2>1, <2>2, ReportBlocksKept
    <2> QED BY <2>1, <2>5, <2>6 DEF Handled
  <1>2. ASSUME JudgeMember(m) PROVE BreachesHandled'
    <2> DEFINE a == arg[m].account
               judged == MembershipJudged(a, arg[m].from, group[a])
               b == barrier_for(settings, a, group[a], currency[a])
               todo == IF judged /\ Blocks(currency[a], Stored(pnl[a]), b) THEN {a} ELSE {}
    <2>1. /\ pc[m] = "member" /\ Step(m, "block", [todo |-> todo])
          /\ excused' = IF judged THEN excused \ {a} ELSE excused
          /\ UNCHANGED <<settings, pnl, group, currency, blocked, shared, exclusive>>
      BY <1>2 DEF JudgeMember
    <2>2. exclusive = m /\ shared = {}
      BY <1>0, <2>1 DEF LeaseHolders, TransitionSteps
    <2>3. /\ pc'[m] = "block" /\ arg'[m] = [todo |-> todo]
          /\ \A u \in Threads \ {m} : pc'[u] = pc[u] /\ arg'[u] = arg[u]
      BY <1>0, <2>1, StepEffect
    <2>4. ToBlock' = todo
      <3> HIDE DEF todo
      <3> QED BY <1>0, <2>1, <2>2, <2>3 DEF ToBlock, Doing
    <2> SUFFICES ASSUME NEW c \in Accounts, Breached(c)' PROVE Handled(c)'
      BY DEF BreachesHandled, Handled
    <2>5. Standing(c)' = Effective(c)
      BY <1>0, <2>1, <2>2, <2>3 DEF Standing, Doing, Effective
    <2>6. pnl[c] # None /\ Blocks(currency[c], pnl[c], Effective(c))
      BY <2>1, <2>5 DEF Breached
    <2>7. Doing("member") /\ ~Doing("sweep") /\ ToBlock = {}
      BY <1>0, <2>1, <2>2 DEF Doing, ToBlock
    <2>8. WillBlock(c) => WillBlock(c)'
      BY <1>0, <2>1, <2>2, <2>3, ReportBlocksKept
    <2>9. CASE c # a
      <3>1. Breached(c)
        BY <2>2, <2>6, <2>7, <2>9, StandingIs DEF Breached
      <3> QED BY <2>1, <2>7, <2>8, <2>9, <3>1 DEF BreachesHandled, Handled
    <2>10. CASE c = a /\ judged
      <3>1. c \in todo
        BY <2>6, <2>10 DEF Stored, Effective
      <3> QED BY <2>4, <3>1 DEF Handled
    <2>11. CASE c = a /\ ~judged
      <3>1. Effective(c) # None
        BY <2>6, NoBarrierNoBlock
      <3>2. barrier_for(settings, a, arg[m].from, currency[a]) = Effective(c)
        BY <2>11, <3>1 DEF MembershipJudged, Effective
      <3>3. Breached(c)
        BY <2>2, <2>6, <2>7, <2>11, <3>2, StandingIs DEF Breached
      <3> QED BY <2>1, <2>7, <2>8, <2>11, <3>3 DEF BreachesHandled, Handled
    <2> QED BY <2>9, <2>10, <2>11
  <1> QED BY <1>1, <1>2

LEMMA RecordingHandles ==
  ASSUME TypeOK, LeaseHolders, BreachesHandled, NEW m \in Admins,
         RecordSwept(m) \/ LeaveTransition(m)
  PROVE  BreachesHandled'
PROOF
  <1> USE DEF lease
  <1>0. m \in Threads /\ m # None
    BY Inputs
  <1>1. pc[m] = "block" /\ exclusive = m /\ shared = {}
    BY <1>0 DEF RecordSwept, LeaveTransition, LeaseHolders, TransitionSteps
  <1>2. ToBlock = arg[m].todo /\ \A c \in Accounts : Standing(c) = Effective(c)
    BY <1>0, <1>1, StandingIs DEF ToBlock, Doing
  <1>3. ASSUME RecordSwept(m) PROVE BreachesHandled'
    <2>1. PICK a \in arg[m].todo : /\ blocked' = blocked \cup {a}
                                   /\ arg' = [arg EXCEPT ![m].todo = @ \ {a}]
      BY <1>3 DEF RecordSwept
    <2>2. pc' = pc /\ UNCHANGED <<settings, pnl, group, currency, exclusive, excused>>
      BY <1>3 DEF RecordSwept
    <2>3. arg[m] \in RetuneArgs \cup SweptArgs
      BY <1>0, <1>1 DEF TypeOK, Carries
    <2>4. /\ arg'[m].todo = arg[m].todo \ {a}
          /\ \A u \in Threads \ {m} : pc'[u] = pc[u] /\ arg'[u] = arg[u]
      BY <1>0, <2>1, <2>2, <2>3 DEF TypeOK, RetuneArgs, SweptArgs
    <2>5. ToBlock' = ToBlock \ {a}
      BY <1>0, <1>1, <1>2, <2>2, <2>4 DEF ToBlock, Doing
    <2> SUFFICES ASSUME NEW c \in Accounts, Breached(c)' PROVE Handled(c)'
      BY DEF BreachesHandled, Handled
    <2>6. Standing(c)' = Effective(c)
      BY <1>0, <1>1, <2>2 DEF Standing, Doing, Effective
    <2>7. Breached(c)
      BY <1>2, <2>2, <2>6 DEF Breached
    <2>8. WillBlock(c) => WillBlock(c)'
      BY <1>0, <1>1, <2>4, ReportBlocksKept
    <2> QED BY <2>1, <2>2, <2>5, <2>7, <2>8 DEF BreachesHandled, Handled
  <1>4. ASSUME LeaveTransition(m) PROVE BreachesHandled'
    <2>1. /\ arg[m].todo = {} /\ exclusive' = None /\ Step(m, "idle", None)
          /\ UNCHANGED <<settings, pnl, group, currency, blocked, excused>>
      BY <1>4 DEF LeaveTransition
    <2>2. \A u \in Threads \ {m} : pc'[u] = pc[u] /\ arg'[u] = arg[u]
      BY <1>0, <2>1, StepEffect
    <2> SUFFICES ASSUME NEW c \in Accounts, Breached(c)' PROVE Handled(c)'
      BY DEF BreachesHandled, Handled
    <2>3. Standing(c)' = Effective(c)
      BY <2>1 DEF Standing, Doing, Effective
    <2>4. Breached(c)
      BY <1>2, <2>1, <2>3 DEF Breached
    <2>5. WillBlock(c) => WillBlock(c)'
      BY <1>0, <1>1, <2>2, ReportBlocksKept
    <2> QED BY <1>2, <2>1, <2>4, <2>5 DEF BreachesHandled, Handled
  <1> QED BY <1>3, <1>4

(* The operator's unblock and a currency change excuse their account. *)
LEMMA OperatorHandles ==
  ASSUME TypeOK, LeaseHolders, Reading, BreachesHandled, NEW a \in Accounts,
         Unblock(a) \/ \E c \in Currencies \cup {None} : SetCurrency(a, c)
  PROVE  /\ BreachesHandled' /\ LeaseHolders' /\ Reading'
PROOF
  <1>1. /\ UNCHANGED <<settings, pnl, group, lease, pc, arg, intended>>
        /\ excused' = excused \cup {a} /\ blocked \subseteq blocked' \cup {a}
        /\ \A c \in Accounts \ {a} : currency'[c] = currency[c]
    BY DEF Unblock, SetCurrency, TypeOK
  <1>2. LeaseHolders' /\ Reading'
    BY <1>1 DEF lease, LeaseHolders, Reading, SnapshotsStand, RetunesKept
  <1>3. ASSUME NEW c \in Accounts, Breached(c)' PROVE Handled(c)'
    <2>1. CASE c = a
      BY <1>1, <2>1 DEF Handled
    <2>2. CASE c # a
      <3>1. Standing(c)' = Standing(c) /\ currency'[c] = currency[c] /\ ToBlock' = ToBlock
        BY <1>1, <2>2 DEF lease, Standing, Doing, Effective, ToBlock
      <3>2. Breached(c)
        BY <1>1, <1>3, <3>1 DEF Breached
      <3>3. WillBlock(c)' <=> WillBlock(c)
        BY <1>1 DEF WillBlock
      <3> QED BY <1>1, <2>2, <3>1, <3>2, <3>3 DEF BreachesHandled, Handled
    <2> QED BY <2>1, <2>2
  <1> QED BY <1>2, <1>3 DEF BreachesHandled, Handled

-----------------------------------------------------------------------------
LEMMA InitInv == Init => IInv
PROOF
  <1> SUFFICES ASSUME Init PROVE IInv
    OBVIOUS
  <1>1. TypeOK
    BY DEF Init, TypeOK, BarrierSets, PnlValues, Carries
  <1>2. LeaseHolders
    BY DEF Init, LeaseHolders, WriterSteps, TransitionSteps
  <1>3. SnapshotsStand /\ RetunesKept
    BY DEF Init, SnapshotsStand, RetunesKept, WriterSteps
  <1>4. BreachesHandled
    BY DEF Init, BreachesHandled, Breached
  <1> QED BY <1>1, <1>2, <1>3, <1>4 DEF IInv

LEMMA NextInv == IInv /\ [Next]_vars => IInv'
PROOF
  <1> SUFFICES ASSUME IInv, [Next]_vars PROVE IInv'
    OBVIOUS
  <1>0. TypeOK /\ LeaseHolders /\ Reading /\ BreachesHandled
    BY DEF IInv, Reading
  <1>1. CASE Writes
    <2>1. TypeOK'
      BY <1>0, <1>1, ReportTypes, OrderTypes DEF Writes
    <2> QED BY <1>0, <1>1, <2>1, WriteHolders, WriteReads, WriteHandles DEF IInv, Reading
  <1>2. ASSUME NEW m \in Admins, Administers(m) PROVE IInv'
    <2>1. TypeOK'
      BY <1>0, <1>2, AssertionTypes, TransitionTypes DEF Administers
    <2>2. BreachesHandled'
      BY <1>0, <1>2, AssertionHandles, RetuneHandles, MembershipHandles, RecordingHandles
         DEF Administers
    <2> QED BY <1>0, <1>2, <2>1, <2>2, AdminHolders, AdminReads DEF IInv, Reading
  <1>3. ASSUME NEW a \in Accounts,
               Unblock(a) \/ \E c \in Currencies \cup {None} : SetCurrency(a, c)
        PROVE  IInv'
    BY <1>0, <1>3, OperatorTypes, OperatorHandles DEF IInv, Reading
  <1>4. CASE UNCHANGED vars
    BY <1>4 DEF vars, IInv, TypeOK, LeaseHolders, SnapshotsStand, RetunesKept, BreachesHandled,
                Breached, Standing, Doing, Effective, ToBlock, WillBlock
  <1> QED BY <1>1, <1>2, <1>3, <1>4 DEF Next

LEMMA Invariance == Spec => []IInv
  BY InitInv, NextInv, PTL DEF Spec

(* Concurrent retunes of different scopes do not undo each other: the      *)
(* published settings are what the updates add up to (configure.rs:124).   *)
THEOREM RetunesAddUp == Spec => []RetunesKept
PROOF
  <1>1. IInv => RetunesKept
    BY DEF IInv
  <1> QED BY <1>1, Invariance, PTL

(* An order is admitted by the barrier in force while it is checked        *)
(* (pre_trade.rs:51, 394).                                                 *)
THEOREM OrdersChecked == Spec => []OrdersInsideBarrier
PROOF
  <1>1. IInv => OrdersInsideBarrier
    <2> SUFFICES ASSUME IInv, NEW t \in Traders, pc[t] = "admitted"
                 PROVE  ~Blocks(arg[t].currency, arg[t].value,
                           barrier_for(settings, arg[t].account, group[arg[t].account],
                                       arg[t].currency))
      BY DEF OrdersInsideBarrier
    <2>1. Admits(arg[t]) /\ arg[t].settings = settings /\ arg[t].group = group[arg[t].account]
      BY Inputs DEF IInv, SnapshotsStand, WriterSteps
    <2> QED BY <2>1 DEF Admits
  <1> QED BY <1>1, Invariance, PTL

(* Outside a transition an account whose PnL its effective barrier does    *)
(* not admit is blocked, or its block is being recorded, or it is excused  *)
(* by an unblock or a currency change, however reports, assertions,        *)
(* retunes and membership changes interleave (configure.rs:654,            *)
(* mod.rs:214, accounts.rs:713).                                           *)
THEOREM BreachesBlocked == Spec => []BreachBlocked
PROOF
  <1>1. IInv => BreachBlocked
    <2> SUFFICES ASSUME IInv, exclusive = None, NEW a \in Accounts,
                        pnl[a] # None, Blocks(currency[a], pnl[a], Effective(a))
                 PROVE  a \in blocked \cup excused \/ BlockDue(a)
      BY DEF BreachBlocked
    <2>1. ToBlock = {} /\ Breached(a)
      BY StandingFree DEF Breached
    <2>2. a \in blocked \cup excused \/ WillBlock(a)
      BY <2>1 DEF IInv, BreachesHandled
    <2>3. WillBlock(a) => BlockDue(a)
      BY DEF WillBlock, BlockDue
    <2> QED BY <2>2, <2>3
  <1> QED BY <1>1, Invariance, PTL

------------------------------------------------------------------------------
(* The kill switch *)

LEMMA SwitchInitInv == SwitchInit => SwitchInv
PROOF
  <1> SUFFICES ASSUME SwitchInit PROVE SwitchInv
    OBVIOUS
  <1>1. (CHOOSE a \in SettlementAssets : TRUE) \in SettlementAssets
    OBVIOUS
  <1>2. SwitchTypeOK
    <2>1. barriers \in Settings
      BY DEF SwitchInit
    <2>2. realized \in [SettlementAssets -> Int \cup {Nothing}]
      BY DEF SwitchInit
    <2>3. total \in [SettlementAssets -> Int]
      BY DEF SwitchInit
    <2>4. order \in [Clients -> [at : OrderSteps, asset : SettlementAssets, snapshot : Settings]]
      BY <1>1, <2>1 DEF SwitchInit, OrderSteps
    <2>5. passable \in [Clients -> BOOLEAN]
      BY DEF SwitchInit
    <2>6. tuning \in [by : Tuners \cup {Nothing}, copy : Settings]
      BY <2>1 DEF SwitchInit
    <2> QED BY <2>1, <2>2, <2>3, <2>4, <2>5, <2>6 DEF SwitchTypeOK
  <1>3. NothingLost
    BY DEF SwitchInit, NothingLost, RealizedOf
  <1> QED BY <1>2, <1>3 DEF SwitchInit, SwitchInv, SnapshotWasInForce, PassableNoticed,
                            NoOrderPastBreach, Checked

(* What a step writes has its type: sums stay numbers, copies settings.    *)
LEMMA SwitchTypes ==
  ASSUME SwitchTypeOK, NothingLost, SwitchNext
  PROVE  SwitchTypeOK'
PROOF
  <1>1. passable' \in [Clients -> BOOLEAN]
    BY DEF SwitchNext, Watch
  <1>2. ASSUME NEW r \in Feeds, NEW a \in SettlementAssets, NEW result \in Results,
               Accumulate(r, a, result)
        PROVE  SwitchTypeOK'
    <2>1. RealizedOf(a) \in Int /\ result \in Int /\ total[a] + result \in Int
      BY DEF SwitchTypeOK, NothingLost
    <2> QED BY <1>1, <1>2, <2>1 DEF Accumulate, Added, SwitchTypeOK
  <1>3. ASSUME NEW r \in Feeds,
               \/ \E a \in SettlementAssets : FailReport(r, a)
               \/ JudgeReport(r) \/ RecordBreach(r)
        PROVE  SwitchTypeOK'
    BY <1>1, <1>3 DEF FailReport, JudgeReport, RecordBreach, SwitchTypeOK
  <1>4. ASSUME NEW c \in Clients,
               \/ \E a \in SettlementAssets : BeginOrder(c, a)
               \/ LoadBarriers(c) \/ ReadRealized(c) \/ EndOrder(c)
        PROVE  SwitchTypeOK'
    BY <1>1, <1>4 DEF BeginOrder, LoadBarriers, ReadRealized, EndOrder, SwitchTypeOK, OrderSteps
  <1>5. ASSUME NEW m \in Tuners,
               \/ \E tier \in {"broker", "account"}, map \in BarrierMaps : Retune(m, tier, map)
               \/ PublishRetune(m)
        PROVE  SwitchTypeOK'
    <2>1. ASSUME NEW tier \in {"broker", "account"}, NEW map \in BarrierMaps, Retune(m, tier, map)
          PROVE  SwitchTypeOK'
      <3>1. [barriers EXCEPT ![tier] = map] \in Settings
        BY DEF SwitchTypeOK, Settings
      <3>2. tuning' \in [by : Tuners \cup {Nothing}, copy : Settings]
        BY <2>1, <3>1 DEF Retune
      <3> QED BY <1>1, <2>1, <3>2 DEF Retune, SwitchTypeOK
    <2>2. ASSUME PublishRetune(m) PROVE SwitchTypeOK'
      BY <1>1, <2>2 DEF PublishRetune, SwitchTypeOK
    <2> QED BY <1>5, <2>1, <2>2
  <1>6. ASSUME NEW a \in SettlementAssets, NEW value \in ForcedPnls, ForcePnl(a, value)
        PROVE  SwitchTypeOK'
    BY <1>1, <1>6 DEF ForcePnl, SwitchTypeOK
  <1>7. ASSUME BeginRetirement \/ EndRetirement \/ LiftBlock
        PROVE  SwitchTypeOK'
    BY <1>1, <1>7 DEF BeginRetirement, EndRetirement, LiftBlock, SwitchTypeOK
  <1> QED BY <1>2, <1>3, <1>4, <1>5, <1>6, <1>7 DEF SwitchNext, SwitchSteps

(* Entries and real results move together; a retirement only forgets zeros.*)
LEMMA SwitchKeepsResults ==
  ASSUME SwitchTypeOK, NothingLost, SwitchNext
  PROVE  NothingLost'
PROOF
  <1>1. ASSUME NEW r \in Feeds, NEW a \in SettlementAssets, NEW result \in Results,
               Accumulate(r, a, result)
        PROVE  NothingLost'
    BY <1>1 DEF Accumulate, Added, SwitchTypeOK, NothingLost, RealizedOf
  <1>2. ASSUME NEW a \in SettlementAssets, NEW value \in ForcedPnls, ForcePnl(a, value)
        PROVE  NothingLost'
    BY <1>2 DEF ForcePnl, SwitchTypeOK, NothingLost, RealizedOf
  <1>3. ASSUME EndRetirement
        PROVE  NothingLost'
    BY <1>3 DEF EndRetirement, SwitchTypeOK, NothingLost, RealizedOf
  <1>4. ASSUME UNCHANGED <<realized, total>>
        PROVE  NothingLost'
    BY <1>4 DEF NothingLost, RealizedOf
  <1> QED BY <1>1, <1>2, <1>3, <1>4
          DEF SwitchNext, SwitchSteps, FailReport, JudgeReport, RecordBreach, BeginOrder,
              LoadBarriers, ReadRealized, EndOrder, Retune, PublishRetune, BeginRetirement,
              LiftBlock

(* What a step may do to an order (check_pre_trade_start). *)
OrderMoves(c) ==
    \/ order'[c] = order[c]
    \/ order'[c].at \in {"idle", "begun", "refused"}
    \/ /\ order[c].at = "begun" /\ order'[c].at = "loaded"
       /\ order'[c].snapshot = barriers
    \/ /\ order[c].at = "begun" /\ order'[c].at = "admitted"
       /\ ~Covered(barriers, order[c].asset)
    \/ /\ order[c].at = "loaded" /\ order'[c].at = "admitted"
       /\ ~is_outside_bounds(order[c].snapshot, order[c].asset, RealizedOf(order[c].asset))

LEMMA Moves ==
  ASSUME SwitchTypeOK, SwitchNext, NEW c \in Clients
  PROVE  OrderMoves(c)
PROOF
  <1>1. ASSUME UNCHANGED order PROVE OrderMoves(c)
    BY <1>1 DEF OrderMoves
  <1>2. ASSUME NEW d \in Clients,
               \/ \E a \in SettlementAssets : BeginOrder(d, a)
               \/ EndOrder(d)
        PROVE  OrderMoves(c)
    BY <1>2 DEF BeginOrder, EndOrder, OrderMoves, SwitchTypeOK
  <1>3. ASSUME NEW d \in Clients, LoadBarriers(d) PROVE OrderMoves(c)
    BY <1>3 DEF LoadBarriers, OrderMoves, SwitchTypeOK
  <1>4. ASSUME NEW d \in Clients, ReadRealized(d) PROVE OrderMoves(c)
    BY <1>4 DEF ReadRealized, OrderMoves, SwitchTypeOK
  <1> QED BY <1>1, <1>2, <1>3, <1>4
          DEF SwitchNext, SwitchSteps, Accumulate, FailReport, JudgeReport, RecordBreach,
              Retune, PublishRetune, ForcePnl, BeginRetirement, EndRetirement, LiftBlock

(* What the history records of a check that goes on. *)
LEMMA Watched ==
  ASSUME Watch, NEW c \in Clients
  PROVE  /\ Checked(c)' => barriers' \in inForce'[c]
         /\ Checked(c)' /\ Checked(c) => inForce[c] \subseteq inForce'[c]
         /\ (\E s \in inForce[c] : Inside(s, order[c].asset))' => passable'[c]
         /\ (Checked(c) \/ order[c].at = "admitted") /\ order'[c].at # "idle" /\ passable[c]
                => passable'[c]
PROOF
  <1>1. Checked(c)' => barriers' \in inForce'[c]
    BY DEF Watch
  <1>2. Checked(c)' /\ Checked(c) => inForce[c] \subseteq inForce'[c]
    BY DEF Watch
  <1>3. passable'[c] =
          (\/ (Checked(c) \/ order[c].at = "admitted") /\ order'[c].at # "idle" /\ passable[c]
           \/ \E s \in inForce'[c] :
                ~is_outside_bounds(s, order'[c].asset, total'[order'[c].asset]))
    BY DEF Watch
  <1>4. (\E s \in inForce[c] : Inside(s, order[c].asset))' => passable'[c]
    BY <1>3 DEF Inside, is_outside_bounds, breached_sides
  <1> QED BY <1>1, <1>2, <1>3, <1>4

LEMMA SwitchNextInv == SwitchInv /\ SwitchNext => SwitchInv'
PROOF
  <1> SUFFICES ASSUME SwitchInv, SwitchNext PROVE SwitchInv'
    OBVIOUS
  <1>1. SwitchTypeOK' /\ NothingLost'
    BY SwitchTypes, SwitchKeepsResults DEF SwitchInv
  <1>2. Watch /\ \A c \in Clients : OrderMoves(c)
    BY Moves DEF SwitchInv, SwitchNext
  <1>3. SnapshotWasInForce'
    <2> SUFFICES ASSUME NEW c \in Clients, order'[c].at = "loaded"
                 PROVE  order'[c].snapshot \in inForce'[c]
      BY <1>2, Watched DEF SnapshotWasInForce
    <2>1. Checked(c)'
      BY DEF Checked
    <2>2. CASE order'[c] = order[c]
      <3>1. Checked(c) /\ order[c].snapshot \in inForce[c]
        BY <2>2 DEF Checked, SwitchInv, SnapshotWasInForce
      <3> QED BY <1>2, <2>1, <2>2, <3>1, Watched
    <2>3. CASE order[c].at = "begun" /\ order'[c].snapshot = barriers
      <3>1. Checked(c) /\ barriers \in inForce[c]
        BY <2>3 DEF Checked, SwitchInv, SnapshotWasInForce
      <3> QED BY <1>2, <2>1, <2>3, <3>1, Watched
    <2> QED BY <1>2, <2>2, <2>3 DEF OrderMoves
  <1>4. PassableNoticed'
    BY <1>2, Watched DEF PassableNoticed
  <1>5. NoOrderPastBreach'
    <2> SUFFICES ASSUME NEW c \in Clients, order'[c].at = "admitted"
                 PROVE  passable'[c]
      BY DEF NoOrderPastBreach
    <2>1. CASE order'[c] = order[c]
      BY <2>1, <1>2, Watched DEF SwitchInv, NoOrderPastBreach
    <2>2. CASE order[c].at = "begun" /\ ~Covered(barriers, order[c].asset)
      <3>1. Inside(barriers, order[c].asset)
        BY <2>2 DEF Inside, is_outside_bounds, Covered
      <3>2. passable[c]
        BY <2>2, <3>1 DEF SwitchInv, SnapshotWasInForce, PassableNoticed, Checked
      <3> QED BY <2>2, <3>2, <1>2, Watched DEF Checked
    <2>3. CASE /\ order[c].at = "loaded"
               /\ ~is_outside_bounds(order[c].snapshot, order[c].asset,
                                     RealizedOf(order[c].asset))
      <3>1. Inside(order[c].snapshot, order[c].asset)
        BY <2>3 DEF SwitchInv, SwitchTypeOK, NothingLost, Inside
      <3>2. passable[c]
        BY <2>3, <3>1 DEF SwitchInv, SnapshotWasInForce, PassableNoticed, Checked
      <3> QED BY <2>3, <3>2, <1>2, Watched DEF Checked
    <2> QED BY <1>2, <2>1, <2>2, <2>3 DEF OrderMoves
  <1> QED BY <1>1, <1>3, <1>4, <1>5 DEF SwitchInv

(* However reports, retunes, forced values, retirements and checks         *)
(* interleave, an order is admitted only if at some moment of its check    *)
(* the PnL really made was inside settings in force during the check       *)
(* (check_pre_trade_start, pnl_bounds_killswitch.rs:478-574).              *)
THEOREM OrdersStopAtBreach == SwitchSpec => []NoOrderPastBreach
PROOF
  <1>1. SwitchInv /\ UNCHANGED switchVars => SwitchInv'
    BY DEF switchVars, SwitchInv, SwitchTypeOK, NothingLost, RealizedOf, SnapshotWasInForce,
           PassableNoticed, Inside, Checked, NoOrderPastBreach
  <1>2. SwitchInv => NoOrderPastBreach
    BY DEF SwitchInv
  <1> QED BY SwitchInitInv, SwitchNextInv, <1>1, <1>2, PTL DEF SwitchSpec

==============================================================================
