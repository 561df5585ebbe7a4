---------------------------- MODULE BarrierRetune ----------------------------
(***************************************************************************)
(* Retuning the realized PnL barriers of the spot-funds policy in a        *)
(* FullSync engine: settings are prepared under a mutex, published and     *)
(* swept inside one exclusive state transition, while reports, orders,     *)
(* absolute assertions, membership changes, currency changes and the       *)
(* operator's unblocking go on (core/configure.rs, core/accounts.rs,       *)
(* pretrade/policies/spot_funds/{mod,market_data,pre_trade}.rs).           *)
(*                                                                         *)
(* The transition's lease is taken as a readers-writer lock; what it is    *)
(* made of is StateTransition's subject, and what an assertion leaves      *)
(* behind when its batch is rolled back is AccountPnl's.                   *)
(***************************************************************************)
EXTENDS Integers, FiniteSets

CONSTANTS
    Accounts, Groups, Currencies,
    Reporters, Traders, Admins,   \* threads, by what they call
    Barriers,                     \* barriers that are set: [low, currency]
    Scopes,                       \* "global", a group or an account: retuned
    Deltas,                       \* realized PnL of a report, Halted for none
    Assertions,                   \* PnL that is force-set
    MaxReports, MaxRetunes,       \* bounds: reports, administrative calls
    Halted, None

Threads == Reporters \cup Traders \cup Admins

ASSUME BarrierRetuneAssumption ==
    /\ Barriers \subseteq [low : Int, currency : Currencies]
    /\ Scopes \subseteq {"global"} \cup Groups \cup Accounts
    /\ Deltas \subseteq Int \cup {Halted} /\ Assertions \subseteq Int \cup {Halted}
    /\ None \notin Barriers \cup Groups \cup Currencies \cup Threads
    /\ Halted \notin Int
    /\ MaxReports \in Nat /\ MaxRetunes \in Nat

VARIABLES
    settings,    \* the published barrier of each scope
    pnl,         \* account PnL; None is an entry never written
    group, currency,
    blocked,
    shared, exclusive,   \* holders of the state transition's lease
    transition,          \* holder of the settings' transition mutex
    pc, arg,
    reports, retunes,
    \* History: what the published updates add up to; accounts that were
    \* unblocked, or whose currency changed, since they were last judged.
    intended, excused

vars == <<settings, pnl, group, currency, blocked, shared, exclusive, transition,
          pc, arg, reports, retunes, intended, excused>>

lease == <<shared, exclusive, transition>>
count == <<reports, retunes>>

AllScopes == {"global"} \cup Groups \cup Accounts

-----------------------------------------------------------------------------
(* Pure parts *)

Matches(b, c) == b # None /\ (c = None \/ b.currency = c)

(* barrier_for: the account's own barrier whatever its currency, else the  *)
(* group's or the global one when the currency matches or is unknown.      *)
barrier_for(s, a, g, c) ==
    CASE s[a] # None -> s[a]
      [] s[a] = None /\ g # None /\ Matches(s[g], c) -> s[g]
      [] s[a] = None /\ ~(g # None /\ Matches(s[g], c)) /\ Matches(s["global"], c)
           -> s["global"]
      [] OTHER -> None

Stored(v) == IF v = None THEN 0 ELSE v

(* account_pnl_block_for_state: a currency mismatch, a halt or a breach.   *)
Blocks(c, v, b) ==
    b # None /\ (~Matches(b, c) \/ v = Halted \/ v < b.low)

(* The accounts a change of the global barrier reaches.                    *)
Known(previous, current) ==
    {a \in Accounts : \/ pnl[a] # None \/ group[a] # None \/ currency[a] # None
                      \/ previous[a] # None \/ current[a] # None}

(* changed_barriers: candidates whose effective barrier changed and stays. *)
Candidates(previous, current) ==
    LET changed == {x \in AllScopes : previous[x] # current[x]} IN
    (changed \cap Accounts) \cup
    (IF "global" \in changed THEN Known(previous, current)
     ELSE {a \in Accounts : group[a] \in changed})

changed_barriers(previous, current) ==
    {a \in Candidates(previous, current) :
        LET b == barrier_for(current, a, group[a], currency[a])
        IN  b # None /\ b # barrier_for(previous, a, group[a], currency[a])}

Mismatch(b, c) == b # None /\ ~Matches(b, c)

(* account_pnl_membership_change_block: a barrier that controls the        *)
(* account as before is not judged again.                                  *)
MembershipJudged(a, from, to) ==
    LET c == currency[a]
        b == barrier_for(settings, a, from, c)
        d == barrier_for(settings, a, to, c)
    IN  d # None /\ ~(b = d /\ Mismatch(b, c) = Mismatch(d, c))

Step(t, l, v) == pc' = [pc EXCEPT ![t] = l] /\ arg' = [arg EXCEPT ![t] = v]

-----------------------------------------------------------------------------
(* State writers, under the shared lease *)

(* with_state_writer, then one snapshot of settings, group and currency.   *)
Enter(t, a, l, v) ==
    /\ pc[t] = "idle" /\ exclusive = None
    /\ shared' = shared \cup {t}
    /\ Step(t, l, [account |-> a, value |-> v, settings |-> settings,
                   group |-> group[a], currency |-> currency[a], block |-> FALSE])
    /\ UNCHANGED <<settings, pnl, group, currency, blocked, exclusive, transition,
                   intended, excused>>

(* The barrier of the writer's snapshot.                                   *)
SnapshotBarrier(t) ==
    barrier_for(arg[t].settings, arg[t].account, arg[t].group, arg[t].currency)

(* History: an account judged in its present currency is excused no more;  *)
(* one judged by a currency read before it changed is.                     *)
Judged(t) ==
    LET a == arg[t].account IN
    excused' = IF arg[t].currency = currency[a] THEN excused \ {a}
               ELSE excused \cup {a}

ReportArrives(r, a, d) ==
    /\ reports < MaxReports /\ reports' = reports + 1
    /\ Enter(r, a, "apply", d)
    /\ UNCHANGED retunes

(* A halted line takes no delta; the new state is judged by the snapshot.  *)
ApplyReport(r) ==
    LET a == arg[r].account
        v == IF pnl[a] = Halted \/ arg[r].value = Halted THEN Halted
             ELSE Stored(pnl[a]) + arg[r].value
    IN
    /\ pc[r] = "apply"
    /\ pnl' = [pnl EXCEPT ![a] = v]
    /\ Step(r, "record", [arg[r] EXCEPT
            !.block = Blocks(arg[r].currency, v, SnapshotBarrier(r))])
    /\ shared' = shared \ {r}
    /\ Judged(r)
    /\ UNCHANGED <<settings, group, currency, blocked, exclusive, transition,
                   count, intended>>

(* The engine records the policies' blocks after the lease.                *)
RecordReport(r) ==
    /\ pc[r] = "record"
    /\ blocked' = IF arg[r].block THEN blocked \cup {arg[r].account} ELSE blocked
    /\ Step(r, "idle", None)
    /\ UNCHANGED <<settings, pnl, group, currency, lease, count, intended, excused>>

OrderArrives(t, a) ==
    /\ reports < MaxReports /\ reports' = reports + 1
    /\ a \notin blocked
    /\ Enter(t, a, "check", None)
    /\ UNCHANGED retunes

(* reject_halted_account_pnl.                                              *)
CheckOrder(t) ==
    LET v == Stored(pnl[arg[t].account]) IN
    /\ pc[t] = "check"
    /\ Step(t, IF Blocks(arg[t].currency, v, SnapshotBarrier(t))
               THEN "refused" ELSE "admitted", [arg[t] EXCEPT !.value = v])
    /\ UNCHANGED <<settings, pnl, group, currency, blocked, lease, count,
                   intended, excused>>

OrderLeaves(t) ==
    /\ pc[t] \in {"refused", "admitted"}
    /\ shared' = shared \ {t}
    /\ Step(t, "idle", None)
    /\ UNCHANGED <<settings, pnl, group, currency, blocked, exclusive, transition,
                   count, intended, excused>>

(* set_spot_funds_account_pnl: the write, then the judgement by the live   *)
(* settings and the block, all under the lease.                            *)
SetAccountPnl(m, a, v) ==
    /\ retunes < MaxRetunes /\ retunes' = retunes + 1
    /\ Enter(m, a, "set", v)
    /\ UNCHANGED reports

WriteAccountPnl(m) ==
    /\ pc[m] = "set"
    /\ pnl' = [pnl EXCEPT ![arg[m].account] = arg[m].value]
    /\ Step(m, "judgeSet", arg[m])
    /\ Judged(m)
    /\ UNCHANGED <<settings, group, currency, blocked, lease, count, intended>>

JudgeAccountPnl(m) ==
    LET a == arg[m].account
        b == barrier_for(settings, a, arg[m].group, arg[m].currency)
    IN
    /\ pc[m] = "judgeSet"
    /\ blocked' = IF Blocks(arg[m].currency, arg[m].value, b)
                  THEN blocked \cup {a} ELSE blocked
    /\ shared' = shared \ {m}
    /\ Step(m, "idle", None)
    /\ UNCHANGED <<settings, pnl, group, currency, exclusive, transition, count,
                   intended, excused>>

-----------------------------------------------------------------------------
(* Exclusive operations *)

(* Mutant: the copy is made without the mutex.                             *)
PrepareUnserialized(m, x, b) ==
    /\ pc[m] = "idle" /\ retunes < MaxRetunes /\ retunes' = retunes + 1
    /\ Step(m, "publish", [scope |-> x, previous |-> settings,
                           current |-> [settings EXCEPT ![x] = b], todo |-> {}])
    /\ UNCHANGED <<settings, pnl, group, currency, blocked, lease, reports,
                   intended, excused>>

(* prepare_serialized_transition: lock the mutex, copy, run the caller's f *)
(* on the copy.  An f that fails unlocks and leaves nothing behind.        *)
Prepare(m, x, b) ==
    /\ pc[m] = "idle" /\ retunes < MaxRetunes /\ retunes' = retunes + 1
    /\ transition = None
    /\ transition' = m
    /\ Step(m, "publish", [scope |-> x, previous |-> settings,
                           current |-> [settings EXCEPT ![x] = b], todo |-> {}])
    /\ UNCHANGED <<settings, pnl, group, currency, blocked, shared, exclusive,
                   reports, intended, excused>>

(* Mutant: the settings are published outside the state transition.        *)
PublishBeside(m) ==
    /\ pc[m] = "publish" /\ exclusive = None
    /\ exclusive' = m
    /\ settings' = arg[m].current
    /\ intended' = [intended EXCEPT ![arg[m].scope] = arg[m].current[arg[m].scope]]
    /\ Step(m, "sweep", arg[m])
    /\ UNCHANGED <<pnl, group, currency, blocked, shared, transition, count, excused>>

(* with_state_transition, then publish.                                    *)
Publish(m) ==
    /\ pc[m] = "publish" /\ exclusive = None /\ shared = {}
    /\ exclusive' = m
    /\ settings' = arg[m].current
    /\ intended' = [intended EXCEPT ![arg[m].scope] = arg[m].current[arg[m].scope]]
    /\ Step(m, "sweep", arg[m])
    /\ UNCHANGED <<pnl, group, currency, blocked, shared, transition, count, excused>>

(* Mutant: a changed global barrier reaches the accounts in a group only.  *)
SweepMembers(m) ==
    LET judged == {a \in changed_barriers(arg[m].previous, arg[m].current) :
                      group[a] # None}
    IN
    /\ pc[m] = "sweep"
    /\ Step(m, "block", [arg[m] EXCEPT !.todo = {a \in judged :
            Blocks(currency[a], Stored(pnl[a]),
                   barrier_for(arg[m].current, a, group[a], currency[a]))}])
    /\ excused' = excused \ judged
    /\ UNCHANGED <<settings, pnl, group, currency, blocked, lease, count, intended>>

(* account_pnl_barrier_change_blocks.                                      *)
Sweep(m) ==
    LET judged == changed_barriers(arg[m].previous, arg[m].current) IN
    /\ pc[m] = "sweep"
    /\ Step(m, "block", [arg[m] EXCEPT !.todo = {a \in judged :
            Blocks(currency[a], Stored(pnl[a]),
                   barrier_for(arg[m].current, a, group[a], currency[a]))}])
    /\ excused' = excused \ judged
    /\ UNCHANGED <<settings, pnl, group, currency, blocked, lease, count, intended>>

(* register_group and unregister_group: the membership changes and its     *)
(* effect on the account's barrier is judged in the same transition.       *)
ChangeMembership(m, a, g) ==
    /\ pc[m] = "idle" /\ retunes < MaxRetunes /\ retunes' = retunes + 1
    /\ exclusive = None /\ shared = {}
    /\ (group[a] = None) # (g = None)
    /\ exclusive' = m
    /\ group' = [group EXCEPT ![a] = g]
    /\ Step(m, "member", [account |-> a, from |-> group[a]])
    /\ UNCHANGED <<settings, pnl, currency, blocked, shared, transition, reports,
                   intended, excused>>

(* block_effective_barrier_changes.                                        *)
JudgeMember(m) ==
    LET a == arg[m].account
        judged == MembershipJudged(a, arg[m].from, group[a])
        b == barrier_for(settings, a, group[a], currency[a])
    IN
    /\ pc[m] = "member"
    /\ Step(m, "block", [todo |-> IF judged /\ Blocks(currency[a], Stored(pnl[a]), b)
                                  THEN {a} ELSE {}])
    /\ excused' = IF judged THEN excused \ {a} ELSE excused
    /\ UNCHANGED <<settings, pnl, group, currency, blocked, lease, count, intended>>

RecordSwept(m) ==
    /\ pc[m] = "block"
    /\ \E a \in arg[m].todo :
          /\ blocked' = blocked \cup {a}
          /\ arg' = [arg EXCEPT ![m].todo = @ \ {a}]
    /\ UNCHANGED <<settings, pnl, group, currency, lease, pc, count, intended, excused>>

LeaveTransition(m) ==
    /\ pc[m] = "block" /\ arg[m].todo = {}
    /\ exclusive' = None
    /\ transition' = IF transition = m THEN None ELSE transition
    /\ Step(m, "idle", None)
    /\ UNCHANGED <<settings, pnl, group, currency, blocked, shared, count,
                   intended, excused>>

-----------------------------------------------------------------------------
(* Operations that take no lease *)

Unblock(a) ==
    /\ a \in blocked
    /\ retunes < MaxRetunes /\ retunes' = retunes + 1
    /\ blocked' = blocked \ {a}
    /\ excused' = excused \cup {a}
    /\ UNCHANGED <<settings, pnl, group, currency, lease, pc, arg, reports, intended>>

(* set_currency and clear_currency: the barrier is not judged again.       *)
SetCurrency(a, c) ==
    /\ retunes < MaxRetunes /\ retunes' = retunes + 1
    /\ c # currency[a]
    /\ currency' = [currency EXCEPT ![a] = c]
    /\ excused' = excused \cup {a}
    /\ UNCHANGED <<settings, pnl, group, blocked, lease, pc, arg, reports, intended>>

-----------------------------------------------------------------------------

Init ==
    /\ settings = [x \in AllScopes |-> None]
    /\ pnl = [a \in Accounts |-> None]
    /\ group = [a \in Accounts |-> None]
    /\ currency = [a \in Accounts |-> None]
    /\ blocked = {} /\ shared = {}
    /\ exclusive = None /\ transition = None
    /\ pc = [t \in Threads |-> "idle"]
    /\ arg = [t \in Threads |-> None]
    /\ reports = 0 /\ retunes = 0
    /\ intended = settings
    /\ excused = {}

Writes ==
    \/ \E r \in Reporters :
          \/ \E a \in Accounts, d \in Deltas : ReportArrives(r, a, d)
          \/ ApplyReport(r) \/ RecordReport(r)
    \/ \E t \in Traders :
          \/ \E a \in Accounts : OrderArrives(t, a)
          \/ CheckOrder(t) \/ OrderLeaves(t)

Administers(m) ==
    \/ \E x \in Scopes, b \in Barriers \cup {None} : Prepare(m, x, b)
    \/ Publish(m) \/ Sweep(m)
    \/ \E a \in Accounts, g \in Groups \cup {None} : ChangeMembership(m, a, g)
    \/ JudgeMember(m) \/ RecordSwept(m) \/ LeaveTransition(m)
    \/ \E a \in Accounts, v \in Assertions : SetAccountPnl(m, a, v)
    \/ WriteAccountPnl(m) \/ JudgeAccountPnl(m)

Next ==
    \/ Writes
    \/ \E m \in Admins : Administers(m)
    \/ \E a \in Accounts :
          Unblock(a) \/ \E c \in Currencies \cup {None} : SetCurrency(a, c)

Spec == Init /\ [][Next]_vars

-----------------------------------------------------------------------------
(* Properties *)

(* A block of the account is decided and about to be recorded.             *)
BlockDue(a) ==
    \/ \E r \in Reporters : pc[r] = "record" /\ arg[r].account = a /\ arg[r].block
    \/ \E m \in Admins : pc[m] = "judgeSet" /\ arg[m].account = a

Effective(a) == barrier_for(settings, a, group[a], currency[a])

(* Whatever reports, assertions, retunes and membership changes interleave,*)
(* outside a transition an account whose stored PnL its effective barrier  *)
(* does not admit is blocked, or its block is being recorded; only the     *)
(* operator's unblock and a currency change leave one out until it is      *)
(* judged again (configure.rs:654, mod.rs:214, accounts.rs:713).           *)
BreachBlocked ==
    exclusive = None =>
        \A a \in Accounts :
            pnl[a] # None /\ Blocks(currency[a], pnl[a], Effective(a))
                => a \in blocked \cup excused \/ BlockDue(a)

(* An order is admitted by the barriers published while it is checked, not *)
(* by ones a retune has replaced meanwhile (pre_trade.rs:51, 394).         *)
OrdersInsideBarrier ==
    \A t \in Traders : pc[t] = "admitted" =>
        LET a == arg[t].account
            b == barrier_for(settings, a, group[a], arg[t].currency)
        IN  ~Blocks(arg[t].currency, arg[t].value, b)

(* Concurrent retunes of different scopes do not undo each other           *)
(* (configure.rs:124).                                                     *)
RetunesKept == settings = intended

-----------------------------------------------------------------------------
(* The inductive invariant behind the three properties. *)

PnlValues == Int \cup {Halted, None}
BarrierSets == [AllScopes -> Barriers \cup {None}]

WriterSteps == {"apply", "check", "refused", "admitted", "set", "judgeSet"}
TransitionSteps == {"sweep", "member", "block"}

WriterArgs == [account : Accounts, value : PnlValues, settings : BarrierSets,
               group : Groups \cup {None}, currency : Currencies \cup {None},
               block : BOOLEAN]
RetuneArgs == [scope : AllScopes, previous : BarrierSets, current : BarrierSets,
               todo : SUBSET Accounts]
MemberArgs == [account : Accounts, from : Groups \cup {None}]
SweptArgs == [todo : SUBSET Accounts]

(* What a thread carries at its step. *)
Carries(t, l, v) ==
    \/ l = "idle"
    \/ l \in {"apply", "record"} /\ t \in Reporters /\ v \in WriterArgs /\ v.value \in Deltas
    \/ l \in {"check", "refused", "admitted"} /\ t \in Traders /\ v \in WriterArgs
    \/ l \in {"set", "judgeSet"} /\ t \in Admins /\ v \in WriterArgs
    \/ l \in {"publish", "sweep"} /\ t \in Admins /\ v \in RetuneArgs
    \/ l = "member" /\ t \in Admins /\ v \in MemberArgs
    \/ l = "block" /\ t \in Admins /\ v \in RetuneArgs \cup SweptArgs

(* Type correctness. *)
TypeOK ==
    /\ settings \in BarrierSets /\ pnl \in [Accounts -> PnlValues]
    /\ group \in [Accounts -> Groups \cup {None}]
    /\ currency \in [Accounts -> Currencies \cup {None}]
    /\ DOMAIN pc = Threads /\ DOMAIN arg = Threads
    /\ \A t \in Threads : Carries(t, pc[t], arg[t])

(* Who holds the lease and the settings' mutex. *)
LeaseHolders ==
    /\ \A t \in Threads : /\ pc[t] \in WriterSteps <=> t \in shared
                          /\ pc[t] \in TransitionSteps <=> exclusive = t
    /\ shared \subseteq Threads /\ exclusive \in Threads \cup {None}
    /\ exclusive # None => shared = {}
    /\ \A t \in Threads : pc[t] \in {"publish", "sweep"} => transition = t

Prepared(v, s) ==
    /\ v.previous = s
    /\ \E b \in Barriers \cup {None} : v.current = [s EXCEPT ![v.scope] = b]

Admits(v) ==
    ~Blocks(v.currency, v.value, barrier_for(v.settings, v.account, v.group, v.currency))

(* What a call read still stands while it holds its lease or its mutex. *)
SnapshotsStand ==
    /\ \A t \in Threads : pc[t] \in WriterSteps =>
          arg[t].settings = settings /\ arg[t].group = group[arg[t].account]
    /\ \A t \in Threads : pc[t] = "publish" => Prepared(arg[t], settings)
    /\ \A t \in Threads : pc[t] = "sweep" => arg[t].current = settings
    /\ \A t \in Threads : pc[t] = "admitted" => Admits(arg[t])

(* The barrier an account has last been judged by: while a transition is   *)
(* about to judge a change, the one before the change.                     *)
Doing(l) == exclusive # None /\ pc[exclusive] = l
Standing(a) ==
    CASE Doing("sweep") ->
           barrier_for(arg[exclusive].previous, a, group[a], currency[a])
      [] Doing("member") /\ a = arg[exclusive].account ->
           barrier_for(settings, a, arg[exclusive].from, currency[a])
      [] OTHER -> Effective(a)
Breached(a) == pnl[a] # None /\ Blocks(currency[a], pnl[a], Standing(a))

(* A block of the account is certain to be recorded. *)
ToBlock == IF Doing("block") THEN arg[exclusive].todo ELSE {}
WillBlock(a) ==
    \/ \E r \in Reporters : pc[r] = "record" /\ arg[r].account = a /\ arg[r].block
    \/ \E m \in Admins :
          /\ pc[m] = "judgeSet" /\ arg[m].account = a
          /\ Blocks(arg[m].currency, arg[m].value,
                    barrier_for(settings, a, arg[m].group, arg[m].currency))

BreachesHandled ==
    \A a \in Accounts :
        Breached(a) => a \in blocked \cup excused \cup ToBlock \/ WillBlock(a)

IInv == TypeOK /\ LeaseHolders /\ SnapshotsStand /\ RetunesKept /\ BreachesHandled

=============================================================================
