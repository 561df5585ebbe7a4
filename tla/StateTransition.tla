-------------------------- MODULE StateTransition --------------------------
(***************************************************************************)
(* The engine-wide state-transition lease of a FullSync engine             *)
(* (crates/openpit/src/core/accounts.rs, StateTransitionCoordinator) and   *)
(* the operations that hold it together with the account PnL lease of the  *)
(* spot-funds policy.                                                      *)
(*                                                                         *)
(* State writers (execution reports, the elements of an adjustment batch,  *)
(* holds) share the lease; a transition (group membership, group currency, *)
(* barrier retune, account retirement) takes it exclusively and, once      *)
(* queued, keeps ordinary writers out.  A batch keeps its account's PnL    *)
(* lease between its elements, when it does not hold the shared lease; an  *)
(* execution report may wait for that PnL lease while it does.  Rollback,  *)
(* and every later element of a batch that owns the PnL lease, therefore   *)
(* bypass queued transitions.                                              *)
(*                                                                         *)
(* A thread that spins until a condition holds is a step enabled by that   *)
(* condition.                                                              *)
(***************************************************************************)
EXTENDS PnlLease, Sequences, FiniteSets, SequencesExt

CONSTANTS
    Accounts,
    Reports,        \* threads that apply execution reports
    Batches,        \* threads that apply adjustment batches; also owner ids
    Transitions,    \* threads that run exclusive transitions
    MaxElements,    \* elements of one batch
    MaxTransitions, \* transitions ever requested
    NoAccount

Writers == Reports \cup Batches
Threads == Writers \cup Transitions

ASSUME ThreadsAssumption ==
    /\ IsFiniteSet(Threads)
    /\ Reports \cap Batches = {}
    /\ Writers \cap Transitions = {}
    /\ NoOwner \notin Threads
    /\ NoAccount \notin Accounts

ASSUME BoundsAssumption == MaxElements \in Nat /\ MaxTransitions \in Nat

VARIABLES
    readers, waiting_writers, writer,  \* StateTransitionAccess
    pnl_leases,      \* [Accounts -> lease]
    active,          \* [Accounts -> Nat]: active_holdings_mutations
    pc, account,     \* each thread's next step and its account
    mutations,       \* each batch's registered mutations: "pnl" or "balance"
    mode,            \* whether a batch commits or rolls back
    element,         \* the kind of the element a writer works on
    epoch,           \* how often shared configuration changed
    seen,            \* the epoch each writer saw when its section began
    retired,         \* [Accounts -> Nat]: retirements that went through
    requested        \* transitions requested so far

vars == <<readers, waiting_writers, writer, pnl_leases, active, pc, account,
          mutations, mode, element, epoch, seen, retired, requested>>

access == <<readers, waiting_writers, writer>>
world  == <<epoch, retired, requested>>

Kinds == {"none", "pnl", "balance"}

(* Steps at which a writer is inside its shared section. *)
SharedSteps == {"lease", "section", "leave", "element", "finalizing"}

Steps == SharedSteps \cup {"idle", "shared", "bypass", "next",
                           "finalize", "bypass_final", "drop", "waiting",
                           "exclusive", "release"}

InShared == {t \in Writers : pc[t] \in SharedSteps}

Init ==
    /\ readers = 0 /\ waiting_writers = 0 /\ writer = FALSE
    /\ pnl_leases = [a \in Accounts |-> Free]
    /\ active = [a \in Accounts |-> 0]
    /\ pc = [t \in Threads |-> "idle"]
    /\ account = [t \in Writers |-> NoAccount]
    /\ mutations = [b \in Batches |-> <<>>]
    /\ mode = [b \in Batches |-> "none"]
    /\ element = [t \in Writers |-> "none"]
    /\ epoch = 0
    /\ seen = [t \in Writers |-> 0]
    /\ retired = [a \in Accounts |-> 0]
    /\ requested = 0

Goto(t, from, next) == pc[t] = from /\ pc' = [pc EXCEPT ![t] = next]

-----------------------------------------------------------------------------
(* acquire_shared(bypass_waiting_writer) and the guards' Drop. *)
\* Mutant: a queued transition does not keep writers out.
IgnoringQueue(bypass) == ~writer
MayShare(bypass) == ~writer /\ (bypass \/ waiting_writers = 0)

EnterShared(t, bypass) ==
    /\ MayShare(bypass)
    /\ readers' = readers + 1
    /\ seen' = [seen EXCEPT ![t] = epoch]
    /\ UNCHANGED <<waiting_writers, writer>>

LeaveShared ==
    /\ readers' = IF readers = 0 THEN 0 ELSE readers - 1
    /\ UNCHANGED <<waiting_writers, writer>>

-----------------------------------------------------------------------------
(***************************************************************************)
(* Execution reports: with_state_writer around the whole policy call; an   *)
(* absolute transition of the account PnL (a halt, an overflow) takes the  *)
(* PnL lease inside, under an owner id of its own.                         *)
(***************************************************************************)
StartReport(r, a, kind) ==
    /\ Goto(r, "idle", "shared")
    /\ account' = [account EXCEPT ![r] = a]
    /\ element' = [element EXCEPT ![r] = kind]
    /\ UNCHANGED <<access, pnl_leases, active, mutations, mode, seen, world>>

ReportEnters(r) ==
    /\ Goto(r, "shared", IF element[r] = "pnl" THEN "lease" ELSE "leave")
    /\ EnterShared(r, FALSE)
    /\ UNCHANGED <<pnl_leases, active, account, mutations, mode, element, world>>

ReportTakesLease(r) ==
    /\ Goto(r, "lease", "section")
    /\ MayAcquire(pnl_leases[account[r]], r)
    /\ pnl_leases' = [pnl_leases EXCEPT ![account[r]] = Acquired(@, r)]
    /\ UNCHANGED <<access, active, account, mutations, mode, element, seen, world>>

ReportDropsLease(r) ==
    /\ Goto(r, "section", "leave")
    /\ pnl_leases' = [pnl_leases EXCEPT ![account[r]] = Released(@, r)]
    /\ UNCHANGED <<access, active, account, mutations, mode, element, seen, world>>

ReportReturns(r) ==
    /\ Goto(r, "leave", "idle")
    /\ LeaveShared
    /\ account' = [account EXCEPT ![r] = NoAccount]
    /\ element' = [element EXCEPT ![r] = "none"]
    /\ seen' = [seen EXCEPT ![r] = 0]
    /\ UNCHANGED <<pnl_leases, active, mutations, mode, world>>

-----------------------------------------------------------------------------
(***************************************************************************)
(* Adjustment batches of one account.  A reservation is the special case   *)
(* of a single balance element that is committed or rolled back later.     *)
(***************************************************************************)
StartBatch(b, a) ==
    /\ Goto(b, "idle", "next")
    /\ account' = [account EXCEPT ![b] = a]
    /\ UNCHANGED <<access, pnl_leases, active, mutations, mode, element, seen, world>>

(* with_adjustment_state_writer: the lease owner bypasses the queue. *)
Bypasses(b) == OwnedBy(pnl_leases[account[b]], b)

NextElement(b, kind) ==
    /\ pc[b] = "next"
    /\ Len(mutations[b]) < MaxElements
    /\ Goto(b, "next", IF Bypasses(b) THEN "bypass" ELSE "shared")
    /\ element' = [element EXCEPT ![b] = kind]
    /\ UNCHANGED <<access, pnl_leases, active, account, mutations, mode, seen, world>>

ElementEnters(b) ==
    /\ \/ Goto(b, "shared", "element") /\ EnterShared(b, FALSE)
       \/ Goto(b, "bypass", "element") /\ EnterShared(b, TRUE)
    /\ UNCHANGED <<pnl_leases, active, account, mutations, mode, element, world>>

Registered(b) == mutations' = [mutations EXCEPT ![b] = Append(@, element[b])]

(* apply_account_pnl_adjustment: one more lease guard, kept by the mutation. *)
PnlElement(b) ==
    /\ element[b] = "pnl"
    /\ Goto(b, "element", "leave")
    /\ MayAcquire(pnl_leases[account[b]], b)
    /\ pnl_leases' = [pnl_leases EXCEPT ![account[b]] = Acquired(@, b)]
    /\ Registered(b)
    /\ UNCHANGED <<access, active, account, mode, element, seen, world>>

(* A balance change or hold: an active-holdings guard kept by the mutation. *)
BalanceElement(b) ==
    /\ element[b] = "balance"
    /\ Goto(b, "element", "leave")
    /\ active' = [active EXCEPT ![account[b]] = @ + 1]
    /\ Registered(b)
    /\ UNCHANGED <<access, pnl_leases, account, mode, element, seen, world>>

ElementReturns(b) ==
    /\ Goto(b, "leave", "next")
    /\ LeaveShared
    /\ element' = [element EXCEPT ![b] = "none"]
    /\ seen' = [seen EXCEPT ![b] = 0]
    /\ UNCHANGED <<pnl_leases, active, account, mutations, mode, world>>

(* Every element accepted, or one of them rejected by some policy. *)
Finalize(b, how) ==
    /\ Goto(b, "next", "finalize")
    /\ how = "commit" => mutations[b] # <<>>
    /\ mode' = [mode EXCEPT ![b] = how]
    /\ UNCHANGED <<access, pnl_leases, active, account, mutations, element,
                   seen, world>>

(* commit_all goes front to back, rollback_all back to front. *)
Current(b) == IF mode[b] = "commit" THEN Head(mutations[b])
                                    ELSE Last(mutations[b])
Remaining(b) == IF mode[b] = "commit" THEN Tail(mutations[b])
                                      ELSE Front(mutations[b])

(* Finalizers write state under the bypassing shared lease; the commit of  *)
(* a balance change does nothing.                                          *)
RunFinalizer(b) ==
    /\ pc[b] = "finalize"
    /\ mutations[b] # <<>>
    /\ Goto(b, "finalize", IF mode[b] = "commit" /\ Current(b) = "balance"
                           THEN "drop" ELSE "bypass_final")
    /\ UNCHANGED <<access, pnl_leases, active, account, mutations, mode, element,
                   seen, world>>

FinalizerEnters(b) ==
    /\ Goto(b, "bypass_final", "finalizing")
    /\ EnterShared(b, TRUE)
    /\ UNCHANGED <<pnl_leases, active, account, mutations, mode, element, world>>

FinalizerReturns(b) ==
    /\ Goto(b, "finalizing", "drop")
    /\ LeaveShared
    /\ seen' = [seen EXCEPT ![b] = 0]
    /\ UNCHANGED <<pnl_leases, active, account, mutations, mode, element, world>>

(* The mutation is dropped after its callback returned, with its guard. *)
DropMutation(b) ==
    /\ pc[b] = "drop"
    /\ Goto(b, "drop", "finalize")
    /\ IF Current(b) = "pnl"
       THEN /\ pnl_leases' = [pnl_leases EXCEPT ![account[b]] = Released(@, b)]
            /\ UNCHANGED active
       ELSE /\ active' = [active EXCEPT ![account[b]] = IF @ = 0 THEN 0 ELSE @ - 1]
            /\ UNCHANGED pnl_leases
    /\ mutations' = [mutations EXCEPT ![b] = Remaining(b)]
    /\ UNCHANGED <<access, account, mode, element, seen, world>>

BatchReturns(b) ==
    /\ mutations[b] = <<>>
    /\ Goto(b, "finalize", "idle")
    /\ account' = [account EXCEPT ![b] = NoAccount]
    /\ mode' = [mode EXCEPT ![b] = "none"]
    /\ UNCHANGED <<access, pnl_leases, active, mutations, element, seen, world>>

-----------------------------------------------------------------------------
(***************************************************************************)
(* Exclusive transitions.                                                  *)
(***************************************************************************)
RequestTransition(x) ==
    /\ requested < MaxTransitions
    /\ Goto(x, "idle", "waiting")
    /\ requested' = requested + 1
    /\ waiting_writers' = waiting_writers + 1
    /\ UNCHANGED <<readers, writer, pnl_leases, active, account, mutations, mode,
                   element, epoch, seen, retired>>

\* Mutant: a transition only waits for other transitions.
MayExcludeDespiteReaders == ~writer

MayExclude == ~writer /\ readers = 0

EnterExclusive(x) ==
    /\ MayExclude
    /\ Goto(x, "waiting", "exclusive")
    /\ waiting_writers' = IF waiting_writers = 0 THEN 0 ELSE waiting_writers - 1
    /\ writer' = TRUE
    /\ UNCHANGED <<readers, pnl_leases, active, account, mutations, mode, element,
                   seen, world>>

(* Group membership, group currency or a barrier retune. *)
ChangeConfiguration(x) ==
    /\ Goto(x, "exclusive", "release")
    /\ epoch' = epoch + 1
    /\ UNCHANGED <<access, pnl_leases, active, account, mutations, mode, element,
                   seen, retired, requested>>

\* Mutant: nothing is tested.
NeverInProgress(a) == FALSE

(* retire_account_state refuses while an operation on the account is open;  *)
(* the entry's assertion token, its third test, implies the lease.         *)
OperationInProgress(a) == active[a] # 0 \/ ~OwnedBy(pnl_leases[a], NoOwner)

(* Engine::retire_account: the lease slot goes with the account's state. *)
RetireAccount(x, a) ==
    /\ Goto(x, "exclusive", "release")
    /\ ~OperationInProgress(a)
    /\ pnl_leases' = [pnl_leases EXCEPT ![a] = Free]
    /\ retired' = [retired EXCEPT ![a] = @ + 1]
    /\ UNCHANGED <<access, active, account, mutations, mode, element, epoch, seen,
                   requested>>

(* Some policy refuses: an operation is open, or a reason that is not part *)
(* of this module's state (non-zero holdings, a barrier on the account).   *)
RefuseRetirement(x) ==
    /\ Goto(x, "exclusive", "release")
    /\ UNCHANGED <<access, pnl_leases, active, account, mutations, mode, element,
                   seen, world>>

LeaveExclusive(x) ==
    /\ Goto(x, "release", "idle")
    /\ writer' = FALSE
    /\ UNCHANGED <<readers, waiting_writers, pnl_leases, active, account,
                   mutations, mode, element, seen, world>>

-----------------------------------------------------------------------------
ReportStep(r) ==
    ReportEnters(r) \/ ReportTakesLease(r) \/ ReportDropsLease(r) \/ ReportReturns(r)

BatchStep(b) ==
    \/ \E kind \in {"pnl", "balance"} : NextElement(b, kind)
    \/ ElementEnters(b) \/ PnlElement(b) \/ BalanceElement(b) \/ ElementReturns(b)
    \/ \E how \in {"commit", "rollback"} : Finalize(b, how)
    \/ RunFinalizer(b) \/ FinalizerEnters(b) \/ FinalizerReturns(b)
    \/ DropMutation(b) \/ BatchReturns(b)

TransitionStep(x) ==
    \/ EnterExclusive(x) \/ ChangeConfiguration(x) \/ LeaveExclusive(x)
    \/ RefuseRetirement(x) \/ \E a \in Accounts : RetireAccount(x, a)

Arrivals ==
    \/ \E r \in Reports, a \in Accounts, kind \in {"none", "pnl"} :
          StartReport(r, a, kind)
    \/ \E b \in Batches, a \in Accounts : StartBatch(b, a)
    \/ \E x \in Transitions : RequestTransition(x)

Next ==
    \/ Arrivals
    \/ \E r \in Reports : ReportStep(r)
    \/ \E b \in Batches : BatchStep(b)
    \/ \E x \in Transitions : TransitionStep(x)

Spec == Init /\ [][Next]_vars

(***************************************************************************)
(* Every started call keeps running: its thread is scheduled, and a        *)
(* spinning thread retries until its condition has held long enough.  No   *)
(* call has to arrive.                                                     *)
(***************************************************************************)
Fairness ==
    /\ \A r \in Reports : WF_vars(ReportStep(r))
    /\ \A b \in Batches : WF_vars(BatchStep(b))
    /\ \A x \in Transitions : WF_vars(TransitionStep(x))

FairSpec == Spec /\ Fairness

-----------------------------------------------------------------------------
(* Type correctness of the counters, leases and threads. *)
TypeOK ==
    /\ readers \in Nat /\ waiting_writers \in Nat /\ writer \in BOOLEAN
    /\ pnl_leases \in [Accounts -> [owner : Writers \cup {NoOwner}, depth : Nat]]
    /\ active \in [Accounts -> Nat]
    /\ pc \in [Threads -> Steps]
    /\ account \in [Writers -> Accounts \cup {NoAccount}]
    /\ mutations \in [Batches -> Seq({"pnl", "balance"})]
    /\ mode \in [Batches -> {"none", "commit", "rollback"}]
    /\ element \in [Writers -> Kinds]
    /\ epoch \in Nat /\ requested \in Nat
    /\ seen \in [Writers -> Nat]
    /\ retired \in [Accounts -> Nat]

(***************************************************************************)
(* "No member's state write sees two currencies within one lease": while a *)
(* writer is in its shared section the configuration it read stands, with  *)
(* or without the bypass.                                                  *)
(***************************************************************************)
StableSnapshot == \A t \in InShared : seen[t] = epoch

(***************************************************************************)
(* The lease discipline: the account's PnL lease is held by exactly the    *)
(* batch whose open PnL mutations keep its guards, once per guard, whatever*)
(* transitions ran in between; nothing takes it away or leaves it behind.  *)
(***************************************************************************)
GuardsAt(seq) == {i \in 1 .. Len(seq) : seq[i] = "pnl"}
Guards(b) == Cardinality(GuardsAt(mutations[b]))

LeaseMatchesGuards ==
    /\ \A b \in Batches : Guards(b) > 0 =>
          OwnedBy(pnl_leases[account[b]], b) /\ pnl_leases[account[b]].depth = Guards(b)
    /\ \A a \in Accounts, b \in Batches :
          OwnedBy(pnl_leases[a], b) => account[b] = a /\ Guards(b) > 0
    /\ \A a \in Accounts, r \in Reports :
          OwnedBy(pnl_leases[a], r) => account[r] = a /\ pc[r] = "section"

(***************************************************************************)
(* A queued transition gets in although writers keep arriving ("a queued   *)
(* transition is preferred over later writers") and although batches that  *)
(* own a PnL lease bypass it.                                              *)
(***************************************************************************)
TransitionGetsIn == (waiting_writers > 0) ~> writer

-----------------------------------------------------------------------------
(* The inductive invariant behind StableSnapshot and LeaseMatchesGuards.   *)

(* Where each kind of thread can be, and what it has by then. *)
ReportSteps == {"idle", "shared", "lease", "section", "leave"}
BatchSteps == {"idle", "next", "shared", "bypass", "element", "leave", "finalize",
               "bypass_final", "finalizing", "drop"}
TransitionSteps == {"idle", "waiting", "exclusive", "release"}

Whereabouts ==
    /\ \A r \in Reports : pc[r] \in ReportSteps
    /\ \A b \in Batches :
          /\ pc[b] \in BatchSteps
          /\ pc[b] = "idle" => mutations[b] = <<>>
          /\ pc[b] \in {"bypass_final", "finalizing", "drop"} => mutations[b] # <<>>
    /\ \A x \in Transitions : pc[x] \in TransitionSteps
    /\ \A t \in Writers : pc[t] # "idle" => account[t] \in Accounts

(* The lease is a readers-writer lock, whoever bypasses the queue. *)
Excluding == {x \in Transitions : pc[x] \in {"exclusive", "release"}}
Exclusion ==
    /\ readers = Cardinality(InShared)
    /\ writer => InShared = {}
    /\ writer <=> Excluding # {}
    /\ \A x, y \in Excluding : x = y

(* The PnL lease of a report's section is its own and taken once; a lease  *)
(* without an owner is unused.                                             *)
SectionLeases ==
    /\ \A r \in Reports : pc[r] = "section" =>
          OwnedBy(pnl_leases[account[r]], r) /\ pnl_leases[account[r]].depth = 1
    /\ \A a \in Accounts : OwnedBy(pnl_leases[a], NoOwner) => pnl_leases[a].depth = 0

IInv ==
    /\ TypeOK /\ Whereabouts
    /\ Exclusion /\ StableSnapshot
    /\ SectionLeases /\ LeaseMatchesGuards

=============================================================================
