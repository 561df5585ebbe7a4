------------------------------- MODULE Engine -------------------------------
(***************************************************************************)
(* The engine's pipelines (crates/openpit/src/core/engine.rs): pre-trade   *)
(* requests and their reservations, drop copies, account-adjustment        *)
(* batches, execution reports and account retirement, run concurrently by  *)
(* the callers of a FullSync engine over one ordered list of policies.     *)
(*                                                                         *)
(* Every policy hook, every finalizer of a mutation and every write of the *)
(* blocked set is a step of its own: the engine holds no lock across them. *)
(* A hook is the caller's code, so what it answers is a choice.  A policy  *)
(* in Custom registers its mutations through the public constructors; the  *)
(* others are built in.  The blocked set appears here as the one write     *)
(* each operation makes; its own steps are the module BlockedAccounts.     *)
(***************************************************************************)
EXTENDS Naturals, Sequences, SequencesExt, FiniteSetsExt

CONSTANTS
    Calls,          \* calls of the engine, each on a thread of its own
    Accounts,       \* account identifiers
    Setups,         \* the engines to explore
    Unreadable,     \* an order or report whose account cannot be read
    Operator        \* who blocks an account from outside a pipeline

ASSUME EngineAssumption ==
    /\ Setups \subseteq [kinds : SUBSET {"pre_trade", "drop_copy", "adjustment",
                                         "report", "retire"},
                         policies : Nat \ {0}, custom : SUBSET Nat,
                         maxElements : Nat]
    /\ \A s \in Setups : s.custom \subseteq 1 .. s.policies
    /\ Unreadable \notin Accounts /\ Operator \notin Calls

VARIABLES
    setup,      \* the engine this is, chosen once
    call,       \* each call's progress
    effects,    \* policy state written by mutations: <<call, mutation>>
    block,      \* the cause stored for each account
    blockAll,   \* whether every account is blocked
    \* History: the mutations each call registered and those whose finalizer
    \* failed, and the kill switches that must still be in force, split by
    \* whether a provisional cause held the account's slot at the time.
    registered, broken, owed, shadowed

vars == <<setup, call, effects, block, blockAll, registered, broken, owed, shadowed>>
ghosts == <<registered, broken, owed, shadowed>>

Kinds       == setup.kinds        \* the pipelines that are used
PolicyCount == setup.policies     \* policies, asked in the order 1 .. PolicyCount
Custom      == setup.custom       \* the policies that are not built in
MaxElements == setup.maxElements  \* bound: elements of one adjustment batch

Policies == 1 .. PolicyCount

\* A registered mutation.  token names the account-PnL assertion it finalizes,
\* 0 if it is not one.
Mutations == [slot : Nat, policy : Policies, token : Nat]

\* A cause: who stored it, through what, and the provisional assertion it
\* was judged on (the provenance of an AccountBlock).
NoTag == <<>>
NoBlock == [by |-> Operator, how |-> "none", tag |-> NoTag]
Cause(by, how, tag) == [by |-> by, how |-> how, tag |-> tag]
Tags == {NoTag} \cup (Calls \X Nat)
Causes == [by : Calls \cup {Operator}, tag : Tags,
           how : {"none", "operator", "control", "reported", "finalizer"}]

Idle == [kind |-> "none", account |-> Unreadable, pc |-> "idle", next |-> 1,
         slot |-> 1, last |-> 1, mutations |-> <<>>, rejected |-> FALSE,
         fatal |-> FALSE, pending |-> <<>>, failure |-> "none",
         outcome |-> "none"]

Init ==
    /\ setup \in Setups
    /\ call = [c \in Calls |-> Idle]
    /\ effects = {}
    /\ block = [a \in Accounts |-> NoBlock]
    /\ blockAll = FALSE
    /\ registered = [c \in Calls |-> <<>>]
    /\ broken = [c \in Calls |-> {}]
    /\ owed = {} /\ shadowed = {}

(***************************************************************************)
(* The blocked set.                                                        *)
(***************************************************************************)

Blocks(a) == block[a] # NoBlock

\* BlockedAccounts::check: an unreadable account is refused as soon as any
\* block stands, because the engine cannot tell whom it is for.
Refused(account) ==
    \/ blockAll
    \/ IF account = Unreadable THEN \E a \in Accounts : Blocks(a)
                               ELSE Blocks(account)

\* block_account: the first cause of an account wins.
BlockAccount(a, cause) ==
    block' = IF Blocks(a) THEN block ELSE [block EXCEPT ![a] = cause]

\* Mutant: the kill switch never reaches further than the account.
BlockOnlyAccount(c, account, scope) ==
    IF account # Unreadable
    THEN /\ BlockAccount(account, Cause(c, "finalizer", NoTag))
         /\ UNCHANGED blockAll
    ELSE UNCHANGED <<block, blockAll>>

\* AccountBlockHandle::record_mutation_failure.
RecordMutationFailure(c, account, scope) ==
    IF scope = "account" /\ account # Unreadable
    THEN /\ BlockAccount(account, Cause(c, "finalizer", NoTag))
         /\ UNCHANGED blockAll
    ELSE blockAll' = TRUE /\ UNCHANGED block

\* History: the kill switch c raised.  It is shadowed when the slot was held
\* by a cause that a rollback may still retire.
Owe(c, account, scope) ==
    IF scope = "account" /\ account # Unreadable
    THEN IF block[account].tag = NoTag
         THEN owed' = owed \cup {<<c, account>>} /\ UNCHANGED shadowed
         ELSE shadowed' = shadowed \cup {<<c, account>>} /\ UNCHANGED owed
    ELSE owed' = owed \cup {<<c, Unreadable>>} /\ UNCHANGED shadowed

Forgive(account) ==
    /\ owed' = {o \in owed : o[2] # account}
    /\ shadowed' = {o \in shadowed : o[2] # account}

\* MutationFailure::widen: the widest scope wins.
Widen(failure, p) ==
    IF p \in Custom THEN "global"
    ELSE IF failure = "none" THEN "account" ELSE failure

(***************************************************************************)
(* Entering a pipeline.                                                    *)
(***************************************************************************)

Enter(c, kind, account, pc, slot, last, outcome) ==
    /\ call[c].pc = "idle" /\ kind \in Kinds
    /\ call' = [call EXCEPT ![c] = [Idle EXCEPT
            !.kind = kind, !.account = account, !.pc = pc, !.slot = slot,
            !.last = last, !.outcome = outcome]]
    /\ UNCHANGED <<effects, block, blockAll, ghosts>>

\* start_pre_trade: slot 0 is the start stage.
StartPreTrade(c, account) ==
    IF Refused(account)
    THEN Enter(c, "pre_trade", account, "done", 0, 0, "blocked")
    ELSE Enter(c, "pre_trade", account, "hooks", 0, 0, "none")

\* apply_drop_copy: standing blocks are ignored for admission.
ApplyDropCopy(c, account) ==
    IF account = Unreadable
    THEN Enter(c, "drop_copy", account, "done", 0, 0, "unreadable")
    ELSE Enter(c, "drop_copy", account, "hooks", 0, 0, "none")

ApplyAccountAdjustment(c, account, n) ==
    IF n = 0 THEN Enter(c, "adjustment", account, "done", 1, 1, "accepted")
             ELSE Enter(c, "adjustment", account, "hooks", 1, n, "none")

ApplyExecutionReport(c, account) ==
    Enter(c, "report", account, "hooks", 1, 1, "none")

\* retire_account runs under the exclusive state transition.
RetireAccount(c, account) ==
    /\ \A d \in Calls : call[d].kind = "retire" => call[d].pc = "done"
    /\ Enter(c, "retire", account, "hooks", 1, 1, "none")

(***************************************************************************)
(* The policy hooks.                                                       *)
(***************************************************************************)

OpenTokens(c) == {m.token : m \in Range(call[c].mutations)} \ {0}

\* The provenance of a verdict on the account's PnL: the newest assertion
\* still open on it.
Provenance(account) ==
    LET asserting == {c \in Calls : call[c].account = account
                                    /\ OpenTokens(c) # {}}
    IN  IF asserting = {} THEN NoTag
        ELSE LET c == CHOOSE d \in asserting : TRUE
             IN  <<c, Max(OpenTokens(c))>>

\* What a hook may leave behind: nothing, an ordinary mutation, or (built-in,
\* adjustments) a provisional account-PnL assertion, under the account's PnL
\* lease.  A built-in policy keys its state by the account; only a custom
\* policy records start-stage mutations, and only a drop copy takes them.
Registrations(c, p) ==
    LET r == call[c]
        plain == \/ r.kind \in {"adjustment", "retire"}
                 \/ r.kind = "pre_trade" /\ r.slot = 1
                    /\ (p \in Custom \/ r.account # Unreadable)
                 \/ r.kind = "drop_copy" /\ (p \in Custom \/ r.slot = 1)
        pnl == /\ r.kind = "adjustment" /\ p \notin Custom
               /\ \A d \in Calls \ {c} :
                      call[d].account = r.account => OpenTokens(d) = {}
        m(token) == <<[slot |-> r.slot, policy |-> p, token |-> token]>>
    IN  {<<>>} \cup (IF plain THEN {m(0)} ELSE {})
               \cup (IF pnl THEN {m(Len(registered[c]) + 1)} ELSE {})

\* pass; an order-scope reject (a refusal, for a retirement); an account-scope
\* reject or a reported block; a block through the context's AccountControl;
\* a reject that means the policy could not evaluate the order.
Verdicts(c) ==
    LET r == call[c]
    IN  {"pass"} \cup (IF r.kind = "report" THEN {} ELSE {"order"})
        \cup (IF r.kind = "retire" THEN {} ELSE {"account"})
        \cup (IF r.kind = "drop_copy" THEN {"fatal"} ELSE {})
        \cup (IF r.kind \in {"report", "retire"} \/ r.account = Unreadable
              THEN {} ELSE {"control"})

\* The blocks the pipeline will record.  A drop copy defers its policies' own
\* AccountControl blocks too; a request and a report keep the first block.
Pending(c, p, verdict) ==
    LET r == call[c]
        tag == IF r.kind = "report" /\ p \notin Custom
               THEN Provenance(r.account) ELSE NoTag
    IN  CASE r.kind = "drop_copy" /\ verdict \in {"account", "control"} ->
                Append(r.pending, tag)
          [] r.kind = "adjustment" /\ verdict = "account" ->
                Append(r.pending, tag)
          [] r.kind \in {"pre_trade", "report"} /\ verdict = "account" ->
                IF r.pending = <<>> THEN <<tag>> ELSE r.pending
          [] OTHER -> r.pending

\* Policies in order, for every element in order; a rejected adjustment ends
\* the batch, every other pipeline asks all its policies.
Advance(r) ==
    IF r.kind = "adjustment" /\ r.rejected THEN [r EXCEPT !.pc = "judge"]
    ELSE IF r.next < PolicyCount THEN [r EXCEPT !.next = @ + 1]
    ELSE IF r.slot < r.last THEN [r EXCEPT !.next = 1, !.slot = @ + 1]
    ELSE [r EXCEPT !.pc = "judge"]

\* A drop copy ignores ordinary rejects; a batch element that reports a block
\* is accepted.
Rejects(kind, verdict) ==
    \/ verdict = "order" /\ kind # "drop_copy"
    \/ verdict = "account" /\ kind = "pre_trade"

\* One hook.  A retirement hook only verifies; the others have written the
\* state their mutation will finalize.
Hook(c, ms, verdict) ==
    LET r == call[c] IN
    /\ r.pc = "hooks"
    /\ ms \in Registrations(c, r.next) /\ verdict \in Verdicts(c)
    /\ call' = [call EXCEPT ![c] = Advance([r EXCEPT
            !.mutations = @ \o ms,
            !.rejected = @ \/ Rejects(r.kind, verdict),
            !.fatal = @ \/ verdict = "fatal",
            !.pending = Pending(c, r.next, verdict)])]
    /\ effects' = IF r.kind = "retire" THEN effects
                  ELSE effects \cup {<<c, m>> : m \in Range(ms)}
    /\ registered' = [registered EXCEPT ![c] = @ \o ms]
    /\ IF verdict = "control" /\ r.kind # "drop_copy"
       THEN BlockAccount(r.account, Cause(c, "control", NoTag))
       ELSE UNCHANGED block
    /\ UNCHANGED <<blockAll, broken, owed, shadowed>>

(***************************************************************************)
(* Judging what the policies said.                                         *)
(***************************************************************************)

Judge(c, kind, r) ==
    /\ call[c].pc = "judge" /\ call[c].kind = kind
    /\ call' = [call EXCEPT ![c] = r]
    /\ UNCHANGED <<effects, block, blockAll, ghosts>>

\* A start-stage reject has no mutation to roll back.
JudgePreTrade(c) ==
    LET r == call[c]
        s == [r EXCEPT !.next = 1]
    IN  Judge(c, "pre_trade",
           IF r.slot = 0
           THEN IF r.rejected
                THEN [s EXCEPT !.pc = "record", !.outcome = "rejected"]
                ELSE [s EXCEPT !.pc = "requested"]
           ELSE IF r.rejected
                THEN [s EXCEPT !.pc = "rolling", !.outcome = "rejected"]
                ELSE [s EXCEPT !.pc = "reserved"])

\* Mutant: the start-stage mutations are not taken into the compensation.
JudgeDropCopyMainOnly(c) ==
    LET r == call[c] IN
    Judge(c, "drop_copy",
        IF r.fatal
        THEN [r EXCEPT !.pc = "rolling", !.outcome = "fatal",
                       !.pending = <<>>, !.next = 1,
                       !.mutations = SelectSeq(@, LAMBDA m : m.slot = 1)]
        ELSE IF r.slot = 0
        THEN [r EXCEPT !.pc = "hooks", !.next = 1, !.slot = 1, !.last = 1]
        ELSE [r EXCEPT !.pc = "record", !.next = 1])

\* A fatal drop copy abandons its deferred blocks before it compensates.
JudgeDropCopy(c) ==
    LET r == call[c] IN
    Judge(c, "drop_copy",
        IF r.fatal
        THEN [r EXCEPT !.pc = "rolling", !.outcome = "fatal",
                       !.pending = <<>>, !.next = 1]
        ELSE IF r.slot = 0
        THEN [r EXCEPT !.pc = "hooks", !.next = 1, !.slot = 1, !.last = 1]
        ELSE [r EXCEPT !.pc = "record", !.next = 1])

\* Mutant: a rejected batch still records the blocks reported so far.
JudgeAdjustmentKeepingBlocks(c) ==
    LET r == call[c] IN
    Judge(c, "adjustment",
        IF r.rejected THEN [r EXCEPT !.pc = "rolling", !.outcome = "rejected"]
        ELSE [r EXCEPT !.pc = "committing", !.outcome = "accepted"])

\* A rejected batch drops the blocks its earlier elements reported.
JudgeAdjustment(c) ==
    LET r == call[c] IN
    Judge(c, "adjustment",
        IF r.rejected
        THEN [r EXCEPT !.pc = "rolling", !.outcome = "rejected",
                       !.pending = <<>>]
        ELSE [r EXCEPT !.pc = "committing", !.outcome = "accepted"])

JudgeReport(c) ==
    Judge(c, "report", [call[c] EXCEPT !.pc = "record", !.outcome = "applied"])

JudgeRetire(c) ==
    LET r == call[c] IN
    Judge(c, "retire",
        IF r.rejected THEN [r EXCEPT !.pc = "rolling", !.outcome = "refused"]
        ELSE [r EXCEPT !.pc = "committing", !.outcome = "retired"])

(***************************************************************************)
(* The owner of a request or of a reservation.                             *)
(***************************************************************************)

\* execute_pre_trade_request checks the blocked set again.
Execute(c) ==
    LET r == call[c] IN
    /\ r.pc = "requested"
    /\ call' = [call EXCEPT ![c] =
            IF Refused(r.account)
            THEN [r EXCEPT !.pc = "done", !.outcome = "blocked"]
            ELSE [r EXCEPT !.pc = "hooks", !.slot = 1, !.last = 1]]
    /\ UNCHANGED <<effects, block, blockAll, ghosts>>

DropRequest(c) ==
    /\ call[c].pc = "requested"
    /\ call' = [call EXCEPT ![c].pc = "done", ![c].outcome = "abandoned"]
    /\ UNCHANGED <<effects, block, blockAll, ghosts>>

Commit(c) ==
    /\ call[c].pc = "reserved"
    /\ call' = [call EXCEPT ![c].pc = "committing", ![c].outcome = "committed"]
    /\ UNCHANGED <<effects, block, blockAll, ghosts>>

\* Explicit, or the reservation is dropped.
Rollback(c) ==
    /\ call[c].pc = "reserved"
    /\ call' = [call EXCEPT ![c].pc = "rolling", ![c].outcome = "rolled back"]
    /\ UNCHANGED <<effects, block, blockAll, ghosts>>

(***************************************************************************)
(* Finalizers.                                                             *)
(***************************************************************************)

\* rollback_all runs the newest mutation first.
NextRollback(mutations) == Len(mutations)

\* A rollback of a custom policy, or of any policy for a retirement, which
\* has nothing to undo: a failure is reported to the engine.
RollbackCustom(c, ok) ==
    LET r == call[c]
        i == NextRollback(r.mutations)
        m == r.mutations[i]
    IN  /\ r.pc = "rolling" /\ r.mutations # <<>>
        /\ m.policy \in Custom \/ (r.kind = "retire" /\ ok)
        /\ call' = [call EXCEPT ![c].mutations = RemoveAt(@, i),
                ![c].failure = IF ok THEN @ ELSE Widen(@, m.policy)]
        /\ effects' = IF ok THEN effects \ {<<c, m>>} ELSE effects
        /\ broken' = IF ok THEN broken ELSE [broken EXCEPT ![c] = @ \cup {m}]
        /\ UNCHANGED <<block, blockAll, registered, owed, shadowed>>

\* A built-in rollback reports nothing: a compensation that overflows leaves
\* the slot alone and blocks the account through its AccountControl, which a
\* finished drop copy no longer defers.
RollbackHold(c, ok) ==
    LET r == call[c]
        i == NextRollback(r.mutations)
        m == r.mutations[i]
    IN  /\ r.pc = "rolling" /\ r.mutations # <<>>
        /\ m.policy \notin Custom /\ r.kind # "retire" /\ m.token = 0
        /\ call' = [call EXCEPT ![c].mutations = RemoveAt(@, i)]
        /\ IF ok
           THEN /\ effects' = effects \ {<<c, m>>}
                /\ UNCHANGED <<block, broken, owed, shadowed>>
           ELSE /\ BlockAccount(r.account, Cause(c, "finalizer", NoTag))
                /\ broken' = [broken EXCEPT ![c] = @ \cup {m}]
                /\ Owe(c, r.account, "account")
                /\ UNCHANGED effects
        /\ UNCHANGED <<blockAll, registered>>

\* Mutant: the account's block is lifted whatever it was judged on.
RetiredAnyCause(account, tag) == NoBlock

\* invalidate_provenance: only a block judged on this very assertion goes.
Retired(account, tag) ==
    IF block[account].tag = tag THEN NoBlock ELSE block[account]

\* The rollback of an account-PnL assertion retires the block raised from it
\* and judges what it restored (in detail: module AccountPnl).
RollbackPnl(c, breached) ==
    LET r == call[c]
        i == NextRollback(r.mutations)
        m == r.mutations[i]
        kept == Retired(r.account, <<c, m.token>>)
        outer == OpenTokens(c) \ {m.token}
        tag == IF outer = {} THEN NoTag ELSE <<c, Max(outer)>>
    IN  /\ r.pc = "rolling" /\ r.mutations # <<>> /\ m.token # 0
        /\ call' = [call EXCEPT ![c].mutations = RemoveAt(@, i)]
        /\ effects' = effects \ {<<c, m>>}
        /\ block' = [block EXCEPT ![r.account] =
                IF breached /\ kept = NoBlock THEN Cause(c, "control", tag)
                ELSE kept]
        /\ UNCHANGED <<blockAll, ghosts>>

\* commit_all runs the oldest mutation first and never stops at a failure.
\* A built-in commit can fail only in a retirement, when what it verified no
\* longer holds; a retirement's commit is what changes the policy's state.
CommitNext(c, ok) ==
    LET r == call[c]
        m == Head(r.mutations)
    IN  /\ r.pc = "committing" /\ r.mutations # <<>>
        /\ ok \/ m.policy \in Custom \/ r.kind = "retire"
        /\ call' = [call EXCEPT ![c].mutations = Tail(@),
                ![c].failure = IF ok THEN @ ELSE Widen(@, m.policy)]
        /\ effects' = IF r.kind = "retire" /\ ok THEN effects \cup {<<c, m>>}
                      ELSE effects
        /\ broken' = IF ok THEN broken ELSE [broken EXCEPT ![c] = @ \cup {m}]
        /\ UNCHANGED <<block, blockAll, registered, owed, shadowed>>

\* After the last finalizer: the kill switch, then the pending blocks.  A
\* retirement whose commit failed stops here.
Finalized(r) ==
    IF r.kind # "retire" THEN [r EXCEPT !.pc = "record"]
    ELSE IF r.outcome = "refused" THEN [r EXCEPT !.pc = "done"]
    ELSE IF r.failure = "none" THEN [r EXCEPT !.pc = "clear"]
    ELSE [r EXCEPT !.pc = "done", !.outcome = "finalizer failed"]

Arm(c) ==
    LET r == call[c] IN
    /\ r.pc \in {"rolling", "committing"} /\ r.mutations = <<>>
    /\ call' = [call EXCEPT ![c] = Finalized(r)]
    /\ IF r.failure = "none" THEN UNCHANGED <<block, blockAll, owed, shadowed>>
       ELSE /\ RecordMutationFailure(c, r.account, r.failure)
            /\ Owe(c, r.account, r.failure)
    /\ UNCHANGED <<effects, registered, broken>>

\* record_pre_trade, record_execution_report, the deferred operations of a
\* drop copy and the reported blocks of a batch: one block a step.
Record(c) ==
    LET r == call[c] IN
    /\ r.pc = "record" /\ r.pending # <<>>
    /\ call' = [call EXCEPT ![c].pending = Tail(@)]
    /\ IF r.account # Unreadable
       THEN /\ BlockAccount(r.account, Cause(c, "reported", Head(r.pending)))
            /\ UNCHANGED blockAll
       ELSE /\ blockAll' = (blockAll \/ r.kind = "report")
            /\ UNCHANGED block
    /\ UNCHANGED <<effects, ghosts>>

\* A drop copy hands its mutations to the owner; every other call returns.
Return(c) ==
    LET r == call[c] IN
    /\ r.pc = "record" /\ r.pending = <<>>
    /\ call' = [call EXCEPT ![c].pc =
            IF r.kind = "drop_copy" /\ r.outcome = "none" THEN "reserved"
            ELSE "done"]
    /\ UNCHANGED <<effects, block, blockAll, ghosts>>

\* The end of a successful retirement: the account looks new.
ClearRetired(c) ==
    LET a == call[c].account IN
    /\ call[c].pc = "clear"
    /\ call' = [call EXCEPT ![c].pc = "done"]
    /\ block' = [block EXCEPT ![a] = NoBlock]
    /\ Forgive(a)
    /\ UNCHANGED <<effects, blockAll, registered, broken>>

(***************************************************************************)
(* The operator (Accounts::block, unblock, replace_block_reason and        *)
(* unblock_all).                                                           *)
(***************************************************************************)

OperatorBlock(a) ==
    /\ BlockAccount(a, Cause(Operator, "operator", NoTag))
    /\ UNCHANGED <<call, effects, blockAll, ghosts>>

OperatorReplaceReason(a) ==
    /\ Blocks(a)
    /\ block' = [block EXCEPT ![a] = Cause(Operator, "operator", NoTag)]
    /\ UNCHANGED <<call, effects, blockAll, ghosts>>

OperatorUnblock(a) ==
    /\ block' = [block EXCEPT ![a] = NoBlock]
    /\ Forgive(a)
    /\ UNCHANGED <<call, effects, blockAll, registered, broken>>

OperatorUnblockAll ==
    /\ blockAll' = FALSE
    /\ Forgive(Unreadable)
    /\ UNCHANGED <<call, effects, block, registered, broken>>

(***************************************************************************)
(* Specification.                                                          *)
(***************************************************************************)

EnterAny(c) ==
    \/ \E a \in Accounts \cup {Unreadable} :
        \/ StartPreTrade(c, a)
        \/ ApplyDropCopy(c, a)
        \/ ApplyExecutionReport(c, a)
    \/ \E a \in Accounts :
        \/ RetireAccount(c, a)
        \/ \E n \in 0 .. MaxElements : ApplyAccountAdjustment(c, a, n)

HookAny(c) ==
    /\ call[c].pc = "hooks"
    /\ \E ms \in Registrations(c, call[c].next), verdict \in Verdicts(c) :
           Hook(c, ms, verdict)

JudgeAny(c) ==
    \/ JudgePreTrade(c) \/ JudgeDropCopy(c) \/ JudgeAdjustment(c)
    \/ JudgeReport(c) \/ JudgeRetire(c)

Owner(c) == Execute(c) \/ DropRequest(c) \/ Commit(c) \/ Rollback(c)

Finalizer(c) ==
    \/ \E ok \in BOOLEAN : \/ RollbackCustom(c, ok)
                           \/ RollbackHold(c, ok)
                           \/ RollbackPnl(c, ok)
                           \/ CommitNext(c, ok)
    \/ Arm(c) \/ Record(c) \/ Return(c) \/ ClearRetired(c)

OperatorAny ==
    \/ \E a \in Accounts : \/ OperatorBlock(a)
                           \/ OperatorReplaceReason(a)
                           \/ OperatorUnblock(a)
    \/ OperatorUnblockAll

Next ==
    /\ \/ \E c \in Calls : \/ EnterAny(c) \/ HookAny(c) \/ JudgeAny(c)
                           \/ Owner(c) \/ Finalizer(c)
       \/ OperatorAny
    /\ UNCHANGED setup

Spec == Init /\ [][Next]_vars

(***************************************************************************)
(* Properties.                                                             *)
(***************************************************************************)

\* What a call has left in the policies' state.
Left(c) == {e[2] : e \in {f \in effects : f[1] = c}}

\* A call that has returned left either everything it registered or nothing
\* but what a failed rollback could not undo, whatever the policies answered
\* and whichever pipeline it ran: a rejected request, batch or retirement, a
\* fatal drop copy and a dropped reservation leave no trace in the policies.
\* A retirement whose commit failed has removed the rest.
AllOrNothing ==
    \A c \in Calls : call[c].pc = "done" =>
        Left(c) = CASE call[c].outcome \in {"committed", "accepted", "retired"} ->
                            Range(registered[c])
                    [] call[c].outcome = "finalizer failed" ->
                            Range(registered[c]) \ broken[c]
                    [] call[c].outcome = "refused" -> {}
                    [] OTHER -> broken[c]

\* A failed finalizer is never silent: until the operator lifts the block, or
\* the account is retired, the account it reached (every account, for a custom
\* policy) is blocked.  Excused are failures that found the account's slot
\* held by a provisional cause.
KillSwitchVisible ==
    \A o \in owed : IF o[2] = Unreadable THEN blockAll ELSE Blocks(o[2])

\* The same for every failed finalizer, the excused ones included.
KillSwitchStands ==
    \A o \in owed \cup shadowed :
        IF o[2] = Unreadable THEN blockAll ELSE Blocks(o[2])

\* An operation that failed as a whole leaves none of its policies' blocks: a
\* fatal drop copy neither deferred nor reported ones, a rejected batch none
\* that its accepted elements reported.
FailedLeavesNoBlock ==
    \A c \in Calls, a \in Accounts : block[a].by = c =>
        /\ call[c].outcome = "fatal" => block[a].how = "finalizer"
        /\ call[c].kind = "adjustment" /\ call[c].outcome = "rejected" =>
               block[a].how # "reported"

(***************************************************************************)
(* The inductive invariant behind them.                                    *)
(***************************************************************************)

Outcomes == {"none", "blocked", "unreadable", "rejected", "fatal", "accepted",
             "applied", "refused", "retired", "finalizer failed", "abandoned",
             "committed", "rolled back"}

CallRecords ==
    [kind : {"none", "pre_trade", "drop_copy", "adjustment", "report", "retire"},
     account : Accounts \cup {Unreadable},
     pc : {"idle", "hooks", "judge", "requested", "reserved", "rolling",
           "committing", "record", "clear", "done"},
     next : Policies, slot : Nat, last : Nat, mutations : Seq(Mutations),
     rejected : BOOLEAN, fatal : BOOLEAN, pending : Seq(Tags),
     failure : {"none", "account", "global"}, outcome : Outcomes]

\* Type correctness of the calls, the policies' state and the blocked set.
TypeOK ==
    /\ setup \in Setups
    /\ call \in [Calls -> CallRecords]
    /\ effects \subseteq Calls \X Mutations
    /\ block \in [Accounts -> Causes] /\ blockAll \in BOOLEAN
    /\ registered \in [Calls -> Seq(Mutations)]
    /\ broken \in [Calls -> SUBSET Mutations]
    /\ owed \subseteq Calls \X (Accounts \cup {Unreadable})
    /\ shadowed \subseteq Calls \X Accounts

\* How far a call is, and what it can then have come to: it has an outcome
\* once it rolls back, commits or records.
Asking(r) == r.pc \in {"idle", "hooks", "judge", "requested", "reserved"}

Staged(r) ==
    /\ Asking(r) => r.outcome = "none"
    /\ r.outcome = "none" => Asking(r) \/ (r.pc = "record" /\ r.kind = "drop_copy")
    /\ r.pc = "rolling" => r.outcome \in {"rejected", "fatal", "refused", "rolled back"}
    /\ r.pc = "committing" => r.outcome \in {"accepted", "committed", "retired"}
    /\ r.pc = "clear" => r.outcome = "retired"
    /\ r.pc = "record" => r.kind # "retire"
    /\ r.pc = "idle" => r.kind = "none" /\ r.pending = <<>>
    /\ r.pc = "requested" => r.kind = "pre_trade" /\ r.slot = 0
    /\ r.pc = "reserved" => r.kind \in {"pre_trade", "drop_copy"}
    /\ r.outcome \in {"refused", "retired", "finalizer failed"} => r.kind = "retire"
    /\ r.kind = "retire" => r.outcome \in {"none", "refused", "retired", "finalizer failed"}
    /\ r.outcome = "fatal" => r.kind = "drop_copy" /\ r.pending = <<>>
    /\ r.outcome = "rejected" /\ r.kind = "adjustment" => r.pending = <<>>
    /\ \/ r.kind \in {"adjustment", "retire"}
       \/ r.kind = "drop_copy" /\ r.outcome # "unreadable"
       => r.account \in Accounts

\* The mutations of a call differ: each comes from a hook of its own, and the
\* hooks are asked in order.  Only an adjustment asserts a PnL, and a built-in
\* policy knows the account.
Distinct(seq) == \A i, j \in 1 .. Len(seq) : i # j => seq[i] # seq[j]

Earlier(m, r) == m.slot < r.slot \/ (m.slot = r.slot /\ m.policy < r.next)

InOrder(r, reg) ==
    /\ Distinct(reg)
    /\ \/ r.kind \in {"none", "report"}
       \/ r.kind = "pre_trade" /\ r.slot = 0
       => reg = <<>>
    /\ \A i \in 1 .. Len(reg) :
           /\ reg[i].slot <= r.slot
           /\ r.pc = "hooks" => Earlier(reg[i], r)
           /\ reg[i].token # 0 => r.kind = "adjustment" /\ reg[i].policy \notin Custom
           /\ reg[i].token <= Len(reg)
           /\ reg[i].policy \notin Custom => r.account \in Accounts

\* What the call has yet to finalize, what it could not, and what it leaves.
Unfinished(r, reg, brk) ==
    /\ r.outcome = "none" => r.mutations = reg /\ brk = {} /\ r.failure = "none"
    /\ r.outcome # "none" /\ r.pc \notin {"rolling", "committing"} => r.mutations = <<>>
    /\ Distinct(r.mutations)
    /\ \A i \in 1 .. Len(r.mutations) :
           r.mutations[i] \in Range(reg) /\ r.mutations[i] \notin brk
    /\ r.kind = "retire" /\ r.failure = "none" => brk = {}
    /\ r.outcome = "retired" /\ r.pc \in {"clear", "done"} => r.failure = "none"

Leaves(r, reg, brk) ==
    IF r.outcome = "none" THEN IF r.kind = "retire" THEN {} ELSE Range(reg)
    ELSE IF r.outcome \in {"committed", "accepted"} THEN Range(reg)
    ELSE IF r.outcome \in {"retired", "finalizer failed"}
         THEN Range(reg) \ (Range(r.mutations) \cup brk)
    ELSE IF r.outcome = "refused" THEN {}
    ELSE Range(r.mutations) \cup brk

CallOK(r, reg, brk, left) ==
    /\ Staged(r) /\ InOrder(r, reg) /\ Unfinished(r, reg, brk)
    /\ left = Leaves(r, reg, brk)

\* An account that owes a kill switch is blocked by a cause no rollback takes.
Armed ==
    \A o \in owed : IF o[2] = Unreadable THEN blockAll
                    ELSE Blocks(o[2]) /\ block[o[2]].tag = NoTag

\* Where the causes of a call come from.
Sourced(cause, r) ==
    /\ r.pc # "idle"
    /\ r.kind = "drop_copy" /\ (r.pc \in {"hooks", "judge"} \/ r.outcome = "fatal")
           => cause.how = "finalizer"
    /\ r.kind = "adjustment" /\ cause.how = "reported"
           => r.pc \in {"record", "done"} /\ r.outcome # "rejected"

IInv ==
    /\ TypeOK
    /\ \A c \in Calls : CallOK(call[c], registered[c], broken[c], Left(c))
    /\ Armed
    /\ \A c \in Calls, a \in Accounts : block[a].by = c => Sourced(block[a], call[c])
=============================================================================
