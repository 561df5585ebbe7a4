----------------------------- MODULE AccountPnl -----------------------------
(***************************************************************************)
(* The account-scoped realized PnL of the spot-funds policy for one        *)
(* account of a FullSync engine: absolute assertions made by adjustment    *)
(* batches, deltas and halts applied by execution reports, and the block   *)
(* a breached PnL barrier raises                                           *)
(* (crates/openpit/src/pretrade/policies/spot_funds/{adjustment,rollback,  *)
(* execution,mod,rejects}.rs, core/engine.rs).                             *)
(*                                                                         *)
(* An assertion is written at once and is provisional until its batch      *)
(* commits.  Reports are not kept out meanwhile: their deltas land on the  *)
(* provisional value, and a rollback must take the assertion back without  *)
(* taking them back.  A block raised from a provisional value carries the  *)
(* assertion's token, so that the rollback can retire it.                  *)
(* Every action is one access of a storage slot, the guard of the blocked  *)
(* set included.                                                           *)
(***************************************************************************)
EXTENDS PnlLease, Integers, Sequences, SequencesExt

CONSTANTS
    Batches,        \* threads that apply adjustment batches
    Reports,        \* threads that apply execution reports
    Setups,         \* ranges of the Pnl type and sizes of batches to explore
    LowerBound,     \* the barrier: realized PnL below it is a breach
    Deltas,         \* realized PnL a report may add
    Assertions,     \* states a batch may assert
    MaxTokens,      \* assertions ever made
    MaxReports      \* reports ever applied

V(n) == [halted |-> "no", value |-> n]
H(reason) == [halted |-> reason, value |-> 0]

IsValue(s) == s.halted = "no"

States == [halted : {"no", "missing_fx", "overflow"}, value : Int]

ASSUME AccountPnlAssumption ==
    /\ Setups \subseteq [limit : Nat, maxElements : Nat]
    /\ LowerBound \in Int /\ Deltas \subseteq Int
    /\ \A s \in Assertions : /\ s \in States
                            /\ \A p \in Setups : s.value \in -p.limit .. p.limit
    /\ Batches \cap Reports = {}
    /\ NoOwner \notin Batches \cup Reports
    /\ MaxTokens \in Nat /\ MaxReports \in Nat

VARIABLES
    setup,       \* the instance this is, chosen once
    entry,       \* AccountPnlEntry: [state, token]; token 0 is None
    lease,       \* the account's PnL lease
    nextToken,   \* next_mutation_owner_id
    block,       \* the account's block: [set, token]
    bpc, open,   \* each batch's next step and its open assertions
    reported,    \* whether an element of the batch reported a block
    final,       \* the entry a rollback left, judged after it
    rpc, task,   \* each report's next step, and what it has to apply
    pending,     \* the block each report is about to record
    applied,     \* reports applied so far
    \* History: the state the account would have without open assertions,
    \* whether a report recorded a block of its own, rejected tokens.
    standing, promised, rejected

pnlVars == <<setup, entry, lease, nextToken, block, bpc, open, reported, final, rpc,
             task, pending, applied, standing, promised, rejected>>

Limit == setup.limit              \* the Pnl type holds -Limit .. Limit
MaxElements == setup.maxElements  \* bound: assertions of one batch

\* A Decimal operation is checked: outside the type it yields no result.
InRange(n) == n \in -Limit .. Limit

batch  == <<bpc, open, reported, final>>
report == <<rpc, task, pending, applied>>

NoBlock == [set |-> FALSE, token |-> 0]
Cause(token) == [set |-> TRUE, token |-> token]
NoTask == [halt |-> FALSE, delta |-> 0]

\* History: what the account should have is lost.
Lost == H("lost")

PnlInit ==
    /\ setup \in Setups
    /\ entry = [state |-> V(0), token |-> 0]
    /\ lease = Free
    /\ nextToken = 1
    /\ block = NoBlock
    /\ bpc = [b \in Batches |-> "idle"]
    /\ open = [b \in Batches |-> <<>>]
    /\ reported = [b \in Batches |-> FALSE]
    /\ final = [b \in Batches |-> [state |-> V(0), token |-> 0]]
    /\ rpc = [r \in Reports |-> "idle"]
    /\ task = [r \in Reports |-> NoTask]
    /\ pending = [r \in Reports |-> NoBlock]
    /\ applied = 0
    /\ standing = V(0)
    /\ promised = FALSE
    /\ rejected = {}

(* account_pnl_block_for_state: a halt or a value outside the barrier. *)
Breach(s) == ~IsValue(s) \/ s.value < LowerBound

Judged(s, token) == IF Breach(s) THEN Cause(token) ELSE NoBlock

(* BlockedAccounts::block_account: the first cause wins. *)
BlockAccount(cause) == block' = IF cause.set /\ ~block.set THEN cause ELSE block

Plus(s, d) == IF IsValue(s) THEN V(s.value + d) ELSE s

-----------------------------------------------------------------------------
(***************************************************************************)
(* Execution reports.  update_account_pnl: a halted line takes no delta;   *)
(* a delta that overflows waits for the lease and is recomputed.           *)
(***************************************************************************)
ApplyDelta(r, d) ==
    /\ rpc[r] = "idle" /\ applied < MaxReports
    /\ applied' = applied + 1
    /\ LET sum == Plus(entry.state, d)
       IN  IF InRange(sum.value)
           THEN /\ entry' = [entry EXCEPT !.state = sum]
                /\ standing' = Plus(standing, d)
                /\ pending' = [pending EXCEPT ![r] = Judged(sum, entry.token)]
                /\ rpc' = [rpc EXCEPT ![r] = "record"]
                /\ UNCHANGED task
           ELSE /\ rpc' = [rpc EXCEPT ![r] = "lease"]
                /\ task' = [task EXCEPT ![r] = [halt |-> FALSE, delta |-> d]]
                /\ UNCHANGED <<entry, standing, pending>>
    /\ UNCHANGED <<lease, nextToken, block, batch, promised, rejected>>

(* A report whose PnL cannot be computed halts the line, unless it sees it *)
(* halted already, when it only reports the stored halt.                   *)
ApplyHalt(r) ==
    /\ rpc[r] = "idle" /\ applied < MaxReports
    /\ applied' = applied + 1
    /\ IF IsValue(entry.state)
       THEN /\ rpc' = [rpc EXCEPT ![r] = "lease"]
            /\ task' = [task EXCEPT ![r] = [halt |-> TRUE, delta |-> 0]]
            /\ UNCHANGED pending
       ELSE /\ rpc' = [rpc EXCEPT ![r] = "record"]
            /\ pending' = [pending EXCEPT ![r] = Cause(entry.token)]
            /\ UNCHANGED task
    /\ UNCHANGED <<entry, lease, nextToken, block, batch, standing, promised,
                   rejected>>

TakeLease(r) ==
    /\ rpc[r] = "lease"
    /\ MayAcquire(lease, r)
    /\ lease' = Acquired(lease, r)
    /\ rpc' = [rpc EXCEPT ![r] = "locked"]
    /\ UNCHANGED <<entry, nextToken, block, batch, task, pending, applied,
                   standing, promised, rejected>>

(* halt_account_pnl, or the second attempt of update_account_pnl: absolute *)
(* transitions on the standing base; the lease is dropped on the way out.  *)
ApplyLocked(r) ==
    /\ rpc[r] = "locked"
    /\ LET sum == Plus(entry.state, task[r].delta)
           overflows == ~InRange(sum.value)
           new == IF ~IsValue(entry.state) THEN entry.state
                  ELSE IF task[r].halt THEN H("missing_fx")
                  ELSE IF overflows THEN H("overflow")
                  ELSE sum
           absolute == IsValue(entry.state) /\ ~IsValue(new)
       IN  /\ entry' = [state |-> new,
                        token |-> IF absolute THEN 0 ELSE entry.token]
           /\ standing' = new
           /\ pending' = [pending EXCEPT ![r] = Judged(new, 0)]
    /\ lease' = Released(lease, r)
    /\ rpc' = [rpc EXCEPT ![r] = "record"]
    /\ task' = [task EXCEPT ![r] = NoTask]
    /\ UNCHANGED <<nextToken, block, batch, applied, promised, rejected>>

(* Engine::apply_execution_report records the first block once every       *)
(* policy has returned.                                                    *)
RecordExecutionReport(r) ==
    /\ rpc[r] = "record"
    /\ BlockAccount(pending[r])
    /\ promised' = (promised \/ pending[r] = Cause(0))
    /\ pending' = [pending EXCEPT ![r] = NoBlock]
    /\ rpc' = [rpc EXCEPT ![r] = "idle"]
    /\ UNCHANGED <<entry, lease, nextToken, batch, task, applied, standing,
                   rejected>>

-----------------------------------------------------------------------------
(***************************************************************************)
(* Adjustment batches.                                                     *)
(***************************************************************************)
(* apply_account_pnl_adjustment *)
AssertPnl(b, s) ==
    /\ bpc[b] \in {"idle", "open"}
    /\ Len(open[b]) < MaxElements /\ nextToken <= MaxTokens
    /\ MayAcquire(lease, b)
    /\ lease' = Acquired(lease, b)
    /\ nextToken' = nextToken + 1
    /\ entry' = [state |-> s, token |-> nextToken]
    /\ open' = [open EXCEPT ![b] = Append(@, [token |-> nextToken,
                                              previous |-> entry,
                                              asserted |-> s])]
    /\ reported' = [reported EXCEPT ![b] = @ \/ Breach(s)]
    /\ bpc' = [bpc EXCEPT ![b] = "open"]
    /\ UNCHANGED <<block, final, report, standing, promised, rejected>>

(* Every element accepted, or a later one rejected by some policy. *)
Finalize(b, how) ==
    /\ bpc[b] = "open"
    /\ bpc' = [bpc EXCEPT ![b] = how]
    /\ UNCHANGED <<entry, lease, nextToken, block, open, reported, final, report,
                   standing, promised, rejected>>

(* The commit of one assertion, front to back: it stops being provisional. *)
CommitAssertion(b) ==
    /\ bpc[b] = "commit" /\ open[b] # <<>>
    /\ LET m == Head(open[b])
       IN  IF entry.token = m.token
           THEN /\ entry' = [entry EXCEPT !.token = 0]
                /\ standing' = entry.state
           ELSE UNCHANGED <<entry, standing>>
    /\ open' = [open EXCEPT ![b] = Tail(@)]
    /\ lease' = Released(lease, b)
    /\ UNCHANGED <<nextToken, block, bpc, reported, final, report, promised,
                   rejected>>

(* The engine records the blocks an accepted batch reported, untagged. *)
RecordReported(b) ==
    /\ bpc[b] = "commit" /\ open[b] = <<>>
    /\ BlockAccount(IF reported[b] THEN Cause(0) ELSE NoBlock)
    /\ reported' = [reported EXCEPT ![b] = FALSE]
    /\ bpc' = [bpc EXCEPT ![b] = "idle"]
    /\ UNCHANGED <<entry, lease, nextToken, open, final, report, standing,
                   promised, rejected>>

\* Mutant: the rollback puts the old value back.
RestoreSnapshot(previous, asserted, current) == previous

(* What a rollback writes over the current state of its own assertion. *)
Restore(previous, asserted, current) ==
    IF IsValue(previous) /\ IsValue(asserted) /\ IsValue(current)
    THEN LET delta == current.value - asserted.value
         IN  IF InRange(delta) /\ InRange(delta + previous.value)
             THEN V(delta + previous.value) ELSE H("overflow")
    ELSE previous

(* The rollback of one assertion, back to front, in three steps that no    *)
(* lock joins: restore the entry, retire the assertion's block, judge the  *)
(* restored entry.  Where the sum leaves the type, the line is halted; if  *)
(* an earlier assertion of the batch is still open, its rollback will put  *)
(* the prior value over the halt, without the deltas that came since.      *)
RollbackEntry(b) ==
    /\ bpc[b] = "rollback" /\ open[b] # <<>>
    /\ LET m == Last(open[b])
           restored == IF entry.token # m.token THEN entry
                       ELSE [state |-> Restore(m.previous.state, m.asserted,
                                               entry.state),
                             token |-> m.previous.token]
           halts == entry.token = m.token /\ IsValue(entry.state) /\ IsValue(m.previous.state)
                        /\ ~IsValue(restored.state)
       IN  /\ entry' = restored /\ final' = [final EXCEPT ![b] = restored]
           /\ standing' = IF halts /\ restored.token # 0 THEN Lost ELSE standing
    /\ bpc' = [bpc EXCEPT ![b] = "invalidate"]
    /\ UNCHANGED <<lease, nextToken, block, open, reported, report, promised,
                   rejected>>

InvalidateProvenance(b) ==
    /\ bpc[b] = "invalidate"
    /\ block' = IF block = Cause(Last(open[b]).token) THEN NoBlock ELSE block
    /\ rejected' = rejected \cup {Last(open[b]).token}
    /\ bpc' = [bpc EXCEPT ![b] = "judge"]
    /\ UNCHANGED <<entry, lease, nextToken, open, reported, final, report,
                   standing, promised>>

JudgeRestored(b) ==
    /\ bpc[b] = "judge"
    /\ BlockAccount(Judged(final[b].state, final[b].token))
    /\ final' = [final EXCEPT ![b] = [state |-> V(0), token |-> 0]]
    /\ open' = [open EXCEPT ![b] = Front(@)]
    /\ lease' = Released(lease, b)
    /\ bpc' = [bpc EXCEPT ![b] = "rollback"]
    /\ UNCHANGED <<entry, nextToken, reported, report, standing, promised,
                   rejected>>

(* A rejected batch discards the blocks its elements reported. *)
Rejected(b) ==
    /\ bpc[b] = "rollback" /\ open[b] = <<>>
    /\ reported' = [reported EXCEPT ![b] = FALSE]
    /\ bpc' = [bpc EXCEPT ![b] = "idle"]
    /\ UNCHANGED <<entry, lease, nextToken, block, open, final, report, standing,
                   promised, rejected>>

-----------------------------------------------------------------------------
ReportNext(r) ==
    \/ \E d \in Deltas : ApplyDelta(r, d)
    \/ ApplyHalt(r) \/ TakeLease(r) \/ ApplyLocked(r) \/ RecordExecutionReport(r)

BatchNext(b) ==
    \/ \E s \in Assertions : AssertPnl(b, s)
    \/ \E how \in {"commit", "rollback"} : Finalize(b, how)
    \/ CommitAssertion(b) \/ RecordReported(b)
    \/ RollbackEntry(b) \/ InvalidateProvenance(b) \/ JudgeRestored(b) \/ Rejected(b)

(* All calls have returned and the bounds allow no other. *)
Quiescent ==
    /\ \A b \in Batches : bpc[b] = "idle"
    /\ \A r \in Reports : rpc[r] = "idle"

Exhausted ==
    /\ Quiescent /\ applied = MaxReports /\ nextToken > MaxTokens
    /\ UNCHANGED pnlVars

PnlNext ==
    /\ \/ \E r \in Reports : ReportNext(r)
       \/ \E b \in Batches : BatchNext(b)
       \/ Exhausted
    /\ UNCHANGED setup

PnlSpec == PnlInit /\ [][PnlNext]_pnlVars

-----------------------------------------------------------------------------
PnlStates == [halted : {"no", "missing_fx", "overflow"}, value : -Limit .. Limit]
Entries == [state : PnlStates, token : Nat]

(***************************************************************************)
(* Type correctness of the entry, the lease, the threads and the history:  *)
(* every state stored, asserted or restored fits the Pnl type.             *)
(***************************************************************************)
PnlTypeOK ==
    /\ entry \in Entries
    /\ lease \in [owner : Batches \cup Reports \cup {NoOwner}, depth : Nat]
    /\ nextToken \in Nat \ {0}
    /\ block \in [set : BOOLEAN, token : Nat]
    /\ bpc \in [Batches -> {"idle", "open", "commit", "rollback", "invalidate",
                            "judge"}]
    /\ open \in [Batches -> Seq([token : Nat, previous : Entries,
                                 asserted : PnlStates])]
    /\ reported \in [Batches -> BOOLEAN]
    /\ final \in [Batches -> Entries]
    /\ rpc \in [Reports -> {"idle", "lease", "locked", "record"}]
    /\ task \in [Reports -> [halt : BOOLEAN, delta : Int]]
    /\ pending \in [Reports -> [set : BOOLEAN, token : Nat]]
    /\ applied \in Nat
    /\ standing \in States \cup {Lost}
    /\ promised \in BOOLEAN
    /\ rejected \in SUBSET Nat

(***************************************************************************)
(* Once no assertion is open, the account PnL is what the reports and the  *)
(* committed assertions made it: a rejected batch has taken back exactly   *)
(* its own assertions, in whatever order deltas, halts, nested assertions  *)
(* and rollbacks interleaved.  An arithmetic overflow on the way back may  *)
(* halt the line instead, or, under an earlier assertion of the batch,     *)
(* lose the deltas.                                                        *)
(***************************************************************************)
RollbackExact ==
    lease.owner \notin Batches =>
        entry.state = standing \/ entry.state = H("overflow") \/ standing = Lost

(***************************************************************************)
(* "A rejected halt assertion cannot accept numeric deltas.  Restoring the *)
(* prior entry is exact" (rollback.rs).  It is not when a report came in   *)
(* meanwhile: the halted line swallowed its delta, and the prior value     *)
(* comes back without it.  Only checked with halts among Assertions.       *)
(***************************************************************************)
HaltRollbackExact ==
    Quiescent => entry.state = standing \/ entry.state = H("overflow")

(***************************************************************************)
(* "Provisional blocks removed because their originating assertion was     *)
(* rejected" (mutation.rs): when nothing is in flight, no block carries    *)
(* the token of a rejected assertion.  It may, when a report judged the    *)
(* provisional state and records its block after the rollback.             *)
(***************************************************************************)
RejectedLeavesNoBlock ==
    Quiescent => ~(block.set /\ block.token \in rejected)

(***************************************************************************)
(* A report that raises a block blocks the account "for all future         *)
(* pre-trade requests" (account_control.rs, record_execution_report).  It  *)
(* does not when a provisional cause holds the account's only slot at that *)
(* moment and is retired right after.                                      *)
(***************************************************************************)
ReportedBlockStands == promised => block.set

-----------------------------------------------------------------------------
(* The inductive invariant of RollbackExact where what is asserted is a    *)
(* value, not a halt.                                                      *)
Numeric == \A s \in Assertions : IsValue(s)

(* How many assertions of a batch the entry still carries.                 *)
Held(b) == IF bpc[b] \in {"invalidate", "judge"} THEN Len(open[b]) - 1 ELSE Len(open[b])

OpenAssertions == [token : Nat, previous : [state : States, token : Nat], asserted : States]

(* The lease is the batch's while it has assertions open, and a report's   *)
(* while it makes an absolute transition.                                  *)
LeaseHeld ==
    /\ lease \in [owner : Batches \cup Reports \cup {NoOwner}, depth : Nat]
    /\ lease.owner = NoOwner => lease.depth = 0
    /\ \A b \in Batches : /\ lease.owner = b <=> open[b] # <<>>
                          /\ open[b] # <<>> => lease.depth = Len(open[b])
                          /\ bpc[b] = "idle" => open[b] = <<>>
                          /\ bpc[b] \in {"invalidate", "judge"} => open[b] # <<>>
    /\ \A r \in Reports : /\ lease.owner = r <=> rpc[r] = "locked"
                          /\ lease.owner = r => lease.depth = 1

(* Tokens grow with the assertions; each remembers the one it covers, and  *)
(* the entry carries the newest that is not taken back.                    *)
TokensInOrder ==
    \A b \in Batches : \A k \in 1 .. Len(open[b]) :
        /\ open[b][k].token \in 1 .. nextToken - 1
        /\ \A j \in 1 .. k - 1 : open[b][j].token < open[b][k].token
        /\ bpc[b] # "commit" => open[b][k].previous.token =
                                    IF k = 1 THEN 0 ELSE open[b][k - 1].token
        /\ IsValue(open[b][k].asserted)

TopToken ==
    /\ lease.owner \notin Batches => entry.token = 0
    /\ \A b \in Batches : open[b] # <<>> =>
           entry.token = IF Held(b) = 0 THEN 0 ELSE open[b][Held(b)].token

(* What the rollback of an assertion makes of a value, were there no range.*)
TakenBack(m, s) ==
    IF IsValue(m.previous.state)
    THEN V(s.value - m.asserted.value + m.previous.state.value)
    ELSE m.previous.state

(* The states the entry will go through if the batch is taken back from    *)
(* here: they lead from the entry to what the reports made.                *)
WayBack(b, way) ==
    /\ way[Held(b)] = entry.state
    /\ way[0] = standing \/ way[0] = H("overflow")
    /\ \A k \in 1 .. Held(b) : IsValue(way[k]) /\ way[k - 1] = TakenBack(open[b][k], way[k])

Recoverable ==
    \A b \in Batches : open[b] # <<>> /\ bpc[b] # "commit" =>
        standing = Lost \/ \E way \in [0 .. Held(b) -> States] : WayBack(b, way)

PnlStateOK ==
    /\ entry \in [state : States, token : Nat] /\ nextToken \in Nat \ {0}
    /\ bpc \in [Batches -> {"idle", "open", "commit", "rollback", "invalidate", "judge"}]
    /\ open \in [Batches -> Seq(OpenAssertions)]
    /\ rpc \in [Reports -> {"idle", "lease", "locked", "record"}]
    /\ task \in [Reports -> [halt : BOOLEAN, delta : Int]]
    /\ standing \in States \cup {Lost}

PnlInv ==
    PnlStateOK /\ LeaseHeld /\ TokensInOrder /\ TopToken /\ Recoverable /\ RollbackExact
=============================================================================
