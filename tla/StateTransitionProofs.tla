------------------------ MODULE StateTransitionProofs ------------------------
(***************************************************************************)
(* The state-transition lease keeps configuration and state writes apart,  *)
(* and the account PnL lease stays with the batch whose mutations guard    *)
(* it, for any accounts, threads and bounds.                               *)
(***************************************************************************)
EXTENDS StateTransition, FiniteSetTheorems, TLAPS

USE ThreadsAssumption, BoundsAssumption

-----------------------------------------------------------------------------
(* What the mutations of a batch guard. *)

LEMMA GuardsFinite ==
  ASSUME NEW seq \in Seq({"pnl", "balance"})
  PROVE  IsFiniteSet(GuardsAt(seq)) /\ Cardinality(GuardsAt(seq)) \in Nat
PROOF
  <1>1. GuardsAt(seq) \in SUBSET (1 .. Len(seq)) /\ Len(seq) \in Int
    BY DEF GuardsAt
  <1>2. IsFiniteSet(1 .. Len(seq))
    BY <1>1, FS_Interval
  <1>3. IsFiniteSet(GuardsAt(seq))
    BY <1>1, <1>2, FS_Subset
  <1> QED BY <1>3, FS_CardinalityType

LEMMA GuardsEmpty == Cardinality(GuardsAt(<<>>)) = 0
PROOF
  <1>1. GuardsAt(<<>>) = {}
    BY DEF GuardsAt
  <1> QED BY <1>1, FS_EmptySet

(* A mutation registered at the end adds its own guard (mutations.rs). *)
LEMMA GuardsAppend ==
  ASSUME NEW seq \in Seq({"pnl", "balance"}), NEW m \in {"pnl", "balance"}
  PROVE  Cardinality(GuardsAt(Append(seq, m))) =
            Cardinality(GuardsAt(seq)) + (IF m = "pnl" THEN 1 ELSE 0)
PROOF
  <1>1. CASE m = "pnl"
    <2>1. GuardsAt(Append(seq, m)) = GuardsAt(seq) \cup {Len(seq) + 1}
      BY <1>1 DEF GuardsAt
    <2>2. Len(seq) + 1 \notin GuardsAt(seq)
      BY DEF GuardsAt
    <2> QED BY <1>1, <2>1, <2>2, GuardsFinite, FS_AddElement
  <1>2. CASE m = "balance"
    <2>1. GuardsAt(Append(seq, m)) = GuardsAt(seq)
      BY <1>2 DEF GuardsAt
    <2> QED BY <1>2, <2>1, GuardsFinite
  <1> QED BY <1>1, <1>2

(* A rollback takes the newest mutation, a commit the oldest. *)
LEMMA GuardsFront ==
  ASSUME NEW seq \in Seq({"pnl", "balance"}), seq # <<>>
  PROVE  /\ Front(seq) \in Seq({"pnl", "balance"})
         /\ Last(seq) \in {"pnl", "balance"}
         /\ Cardinality(GuardsAt(Front(seq))) =
              Cardinality(GuardsAt(seq)) - (IF Last(seq) = "pnl" THEN 1 ELSE 0)
PROOF
  <1>1. Len(seq) \in Nat /\ Len(seq) > 0
    OBVIOUS
  <1>2. Front(seq) \in Seq({"pnl", "balance"}) /\ Last(seq) \in {"pnl", "balance"}
    BY <1>1 DEF Front, Last
  <1>3. Append(Front(seq), Last(seq)) = seq
    BY <1>1 DEF Front, Last
  <1>4. Cardinality(GuardsAt(Front(seq))) \in Nat
    BY <1>2, GuardsFinite
  <1>5. Cardinality(GuardsAt(seq)) =
            Cardinality(GuardsAt(Front(seq))) + (IF Last(seq) = "pnl" THEN 1 ELSE 0)
    BY <1>2, <1>3, GuardsAppend
  <1> QED BY <1>2, <1>4, <1>5

LEMMA GuardsTail ==
  ASSUME NEW seq \in Seq({"pnl", "balance"}), seq # <<>>
  PROVE  /\ Tail(seq) \in Seq({"pnl", "balance"})
         /\ Head(seq) \in {"pnl", "balance"}
         /\ Cardinality(GuardsAt(Tail(seq))) =
              Cardinality(GuardsAt(seq)) - (IF Head(seq) = "pnl" THEN 1 ELSE 0)
PROOF
  <1>1. Len(seq) \in Nat /\ Len(seq) > 0
    OBVIOUS
  <1>2. Tail(seq) \in Seq({"pnl", "balance"}) /\ Head(seq) \in {"pnl", "balance"}
    BY <1>1
  <1> DEFINE S == GuardsAt(Tail(seq))
             T == GuardsAt(seq) \ {1}
             f == [i \in S |-> i + 1]
  <1>3. f \in Bijection(S, T)
    <2>1. \A i \in S : i \in Nat /\ i + 1 \in T
      BY <1>1 DEF GuardsAt
    <2>2. \A j \in T : j - 1 \in S /\ f[j - 1] = j
      BY <1>1 DEF GuardsAt
    <2>3. f \in Injection(S, T)
      BY <2>1 DEF Injection, IsInjective
    <2>4. f \in Surjection(S, T)
      BY <2>1, <2>2 DEF Surjection
    <2> QED BY <2>3, <2>4 DEF Bijection
  <1>4. Cardinality(S) = Cardinality(T)
    <2>1. IsFiniteSet(S)
      BY <1>2, GuardsFinite
    <2>2. ExistsBijection(S, T)
      BY <1>3 DEF ExistsBijection
    <2> QED BY <2>1, <2>2, FS_Bijection
  <1>5. Cardinality(T) = Cardinality(GuardsAt(seq)) - (IF 1 \in GuardsAt(seq) THEN 1 ELSE 0)
    <2>1. IsFiniteSet(GuardsAt(seq)) /\ Cardinality(GuardsAt(seq)) \in Nat
      BY GuardsFinite
    <2>2. Cardinality(T) = IF 1 \in GuardsAt(seq) THEN Cardinality(GuardsAt(seq)) - 1
                                                   ELSE Cardinality(GuardsAt(seq))
      BY <2>1, FS_RemoveElement, Zenon
    <2>3. CASE 1 \in GuardsAt(seq)
      BY <2>1, <2>2, <2>3
    <2>4. CASE 1 \notin GuardsAt(seq)
      BY <2>1, <2>2, <2>4
    <2> QED BY <2>3, <2>4
  <1>6. 1 \in GuardsAt(seq) <=> Head(seq) = "pnl"
    BY <1>1 DEF GuardsAt
  <1> QED BY <1>2, <1>4, <1>5, <1>6

(* The next mutation to be finalized and what is left after it. *)
LEMMA GuardsRemaining ==
  ASSUME TypeOK, NEW b \in Batches, mutations[b] # <<>>
  PROVE  /\ Remaining(b) \in Seq({"pnl", "balance"})
         /\ Current(b) \in {"pnl", "balance"}
         /\ Cardinality(GuardsAt(Remaining(b))) =
              Guards(b) - (IF Current(b) = "pnl" THEN 1 ELSE 0)
PROOF
  <1>1. mutations[b] \in Seq({"pnl", "balance"})
    BY DEF TypeOK
  <1> QED BY <1>1, GuardsFront, GuardsTail DEF Remaining, Current, Guards

-----------------------------------------------------------------------------
(* Types and whereabouts, the leases aside: their depth is counted down by *)
(* a release, so that it stays a number only because of what they count.   *)
LeaseTypes == pnl_leases \in [Accounts -> [owner : Writers \cup {NoOwner}, depth : Nat]]

LEMMA ReportTypes ==
  ASSUME TypeOK, Whereabouts, LeaseTypes', NEW r \in Reports,
         \/ \E a \in Accounts, kind \in {"none", "pnl"} : StartReport(r, a, kind)
         \/ ReportStep(r)
  PROVE  TypeOK' /\ Whereabouts'
PROOF
  <1> USE DEF Goto, Writers, Threads, access, world
  <1>1. ASSUME NEW a \in Accounts, NEW kind \in {"none", "pnl"}, StartReport(r, a, kind)
        PROVE  TypeOK' /\ Whereabouts'
    BY <1>1 DEF StartReport, TypeOK, Whereabouts, ReportSteps, Steps, SharedSteps, Kinds, LeaseTypes
  <1>2. ASSUME ReportEnters(r) PROVE TypeOK' /\ Whereabouts'
    BY <1>2 DEF ReportEnters, EnterShared, TypeOK, Whereabouts, ReportSteps, Steps, SharedSteps,
                LeaseTypes
  <1>3. ASSUME ReportTakesLease(r) \/ ReportDropsLease(r) PROVE TypeOK' /\ Whereabouts'
    BY <1>3, ZenonT(60) DEF ReportTakesLease, ReportDropsLease, TypeOK, Whereabouts, ReportSteps, Steps,
                SharedSteps, LeaseTypes
  <1>4. ASSUME ReportReturns(r) PROVE TypeOK' /\ Whereabouts'
    BY <1>4 DEF ReportReturns, LeaveShared, TypeOK, Whereabouts, ReportSteps, Steps, SharedSteps,
                Kinds, LeaseTypes
  <1> QED BY <1>1, <1>2, <1>3, <1>4 DEF ReportStep

LEMMA BatchTypes ==
  ASSUME TypeOK, Whereabouts, LeaseTypes', NEW b \in Batches,
         (\E a \in Accounts : StartBatch(b, a)) \/ BatchStep(b)
  PROVE  TypeOK' /\ Whereabouts'
PROOF
  <1> USE DEF Goto, Writers, Threads, access, world
  <1>1. ASSUME NEW a \in Accounts, StartBatch(b, a) PROVE TypeOK' /\ Whereabouts'
    BY <1>1 DEF StartBatch, TypeOK, Whereabouts, BatchSteps, Steps, SharedSteps, LeaseTypes
  <1>2. ASSUME NEW kind \in {"pnl", "balance"}, NextElement(b, kind)
        PROVE  TypeOK' /\ Whereabouts'
    BY <1>2 DEF NextElement, TypeOK, Whereabouts, BatchSteps, Steps, SharedSteps, Kinds, LeaseTypes
  <1>3. ASSUME ElementEnters(b) PROVE TypeOK' /\ Whereabouts'
    <2>1. pc[b] \in {"shared", "bypass"} /\ pc' = [pc EXCEPT ![b] = "element"]
      BY <1>3 DEF ElementEnters
    <2>2. readers' = readers + 1 /\ seen' = [seen EXCEPT ![b] = epoch]
      BY <1>3 DEF ElementEnters, EnterShared
    <2>3. UNCHANGED <<waiting_writers, writer, pnl_leases, active, account, mutations, mode,
                      element, world>>
      BY <1>3 DEF ElementEnters, EnterShared
    <2> QED BY <2>1, <2>2, <2>3 DEF TypeOK, Whereabouts, BatchSteps, Steps, SharedSteps, LeaseTypes
  <1>4. ASSUME PnlElement(b) PROVE TypeOK' /\ Whereabouts'
    BY <1>4 DEF PnlElement, Registered, TypeOK, Whereabouts, BatchSteps, Steps, SharedSteps,
                LeaseTypes
  <1>5. ASSUME BalanceElement(b) PROVE TypeOK' /\ Whereabouts'
    BY <1>5 DEF BalanceElement, Registered, TypeOK, Whereabouts, BatchSteps, Steps, SharedSteps,
                LeaseTypes
  <1>6. ASSUME ElementReturns(b) PROVE TypeOK' /\ Whereabouts'
    BY <1>6 DEF ElementReturns, LeaveShared, TypeOK, Whereabouts, BatchSteps, Steps, SharedSteps,
                Kinds, LeaseTypes
  <1>7. ASSUME NEW how \in {"commit", "rollback"}, Finalize(b, how)
        PROVE  TypeOK' /\ Whereabouts'
    BY <1>7 DEF Finalize, TypeOK, Whereabouts, BatchSteps, Steps, SharedSteps, LeaseTypes
  <1>8. ASSUME RunFinalizer(b) PROVE TypeOK' /\ Whereabouts'
    BY <1>8 DEF RunFinalizer, TypeOK, Whereabouts, BatchSteps, Steps, SharedSteps, LeaseTypes
  <1>9. ASSUME FinalizerEnters(b) PROVE TypeOK' /\ Whereabouts'
    BY <1>9 DEF FinalizerEnters, EnterShared, TypeOK, Whereabouts, BatchSteps, Steps, SharedSteps,
                LeaseTypes
  <1>10. ASSUME FinalizerReturns(b) PROVE TypeOK' /\ Whereabouts'
    BY <1>10 DEF FinalizerReturns, LeaveShared, TypeOK, Whereabouts, BatchSteps, Steps,
                 SharedSteps, LeaseTypes
  <1>11. ASSUME DropMutation(b) PROVE TypeOK' /\ Whereabouts'
    <2>1. Remaining(b) \in Seq({"pnl", "balance"})
      BY <1>11, GuardsRemaining DEF DropMutation, Whereabouts
    <2> QED BY <1>11, <2>1 DEF DropMutation, TypeOK, Whereabouts, BatchSteps, Steps, SharedSteps,
                               LeaseTypes
  <1>12. ASSUME BatchReturns(b) PROVE TypeOK' /\ Whereabouts'
    BY <1>12 DEF BatchReturns, TypeOK, Whereabouts, BatchSteps, Steps, SharedSteps, LeaseTypes
  <1> QED BY <1>1, <1>2, <1>3, <1>4, <1>5, <1>6, <1>7, <1>8, <1>9, <1>10, <1>11, <1>12
          DEF BatchStep

LEMMA TransitionTypes ==
  ASSUME TypeOK, Whereabouts, LeaseTypes', NEW x \in Transitions,
         RequestTransition(x) \/ TransitionStep(x)
  PROVE  TypeOK' /\ Whereabouts'
PROOF
  <1> USE DEF Goto, Writers, Threads, access, world
  <1>1. ASSUME RequestTransition(x) PROVE TypeOK' /\ Whereabouts'
    BY <1>1 DEF RequestTransition, TypeOK, Whereabouts, TransitionSteps, Steps, LeaseTypes
  <1>2. ASSUME EnterExclusive(x) PROVE TypeOK' /\ Whereabouts'
    BY <1>2 DEF EnterExclusive, TypeOK, Whereabouts, TransitionSteps, Steps, LeaseTypes
  <1>3. ASSUME ChangeConfiguration(x) PROVE TypeOK' /\ Whereabouts'
    BY <1>3 DEF ChangeConfiguration, TypeOK, Whereabouts, TransitionSteps, Steps, LeaseTypes
  <1>5. ASSUME RefuseRetirement(x) \/ LeaveExclusive(x) PROVE TypeOK' /\ Whereabouts'
    BY <1>5 DEF RefuseRetirement, LeaveExclusive, TypeOK, Whereabouts, TransitionSteps, Steps,
                LeaseTypes
  <1>4. ASSUME NEW a \in Accounts, RetireAccount(x, a) PROVE TypeOK' /\ Whereabouts'
    BY <1>4 DEF RetireAccount, TypeOK, Whereabouts, TransitionSteps, Steps, LeaseTypes
  <1> QED BY <1>1, <1>2, <1>3, <1>4, <1>5 DEF TransitionStep

-----------------------------------------------------------------------------
(* The shared and the exclusive side of the lease (acquire_shared,         *)
(* acquire_exclusive and the guards' Drop).                                *)

LEMMA SharedFinite == IsFiniteSet(InShared) /\ Cardinality(InShared) \in Nat
PROOF
  <1>1. InShared \in SUBSET Threads
    BY DEF InShared, Threads
  <1> QED BY <1>1, FS_Subset, FS_CardinalityType

SharingInv == Exclusion /\ StableSnapshot

(* A writer enters its section while no transition is inside. *)
LEMMA Enters ==
  ASSUME TypeOK, SharingInv, NEW t \in Writers, NEW next \in SharedSteps, NEW bypass \in BOOLEAN,
         pc[t] \notin SharedSteps, pc' = [pc EXCEPT ![t] = next], EnterShared(t, bypass),
         UNCHANGED epoch
  PROVE  SharingInv'
PROOF
  <1>1. InShared' = InShared \cup {t} /\ t \notin InShared
    BY DEF InShared, TypeOK, Threads
  <1>2. Excluding' = Excluding
    BY DEF Excluding, TypeOK, Threads
  <1>3. Cardinality(InShared \cup {t}) = Cardinality(InShared) + 1
    BY <1>1, SharedFinite, FS_AddElement
  <1>4. ~writer /\ ~writer' /\ readers' = readers + 1
    BY DEF EnterShared, MayShare
  <1>5. Exclusion'
    BY <1>1, <1>2, <1>3, <1>4 DEF SharingInv, Exclusion
  <1>6. StableSnapshot'
    BY <1>1 DEF SharingInv, StableSnapshot, EnterShared, TypeOK, InShared
  <1> QED BY <1>5, <1>6 DEF SharingInv

LEMMA Leaves ==
  ASSUME TypeOK, SharingInv, NEW t \in Writers, NEW next \in Steps \ SharedSteps,
         pc[t] \in SharedSteps, pc' = [pc EXCEPT ![t] = next], LeaveShared,
         seen' = [seen EXCEPT ![t] = 0], UNCHANGED epoch
  PROVE  SharingInv'
PROOF
  <1>1. InShared' = InShared \ {t} /\ t \in InShared
    BY DEF InShared, TypeOK, Threads
  <1>2. Excluding' = Excluding
    BY DEF Excluding, TypeOK, Threads
  <1>3. Cardinality(InShared \ {t}) = Cardinality(InShared) - 1
    BY <1>1, SharedFinite, FS_RemoveElement
  <1>4. Cardinality(InShared) # 0
    BY <1>1, SharedFinite, FS_EmptySet
  <1>5. Exclusion'
    BY <1>1, <1>2, <1>3, <1>4, SharedFinite DEF SharingInv, Exclusion, LeaveShared
  <1>6. StableSnapshot'
    BY <1>1 DEF SharingInv, StableSnapshot, TypeOK, InShared
  <1> QED BY <1>5, <1>6 DEF SharingInv

(* A step that neither enters nor leaves. *)
LEMMA Stays ==
  ASSUME TypeOK, SharingInv, NEW t \in Writers, NEW next,
         pc[t] \in SharedSteps <=> next \in SharedSteps, pc' = [pc EXCEPT ![t] = next],
         UNCHANGED <<readers, writer, seen, epoch>>
  PROVE  SharingInv'
PROOF
  <1>1. InShared' = InShared
    BY DEF InShared, TypeOK, Threads
  <1>2. Excluding' = Excluding
    BY DEF Excluding, TypeOK, Threads
  <1> QED BY <1>1, <1>2 DEF SharingInv, Exclusion, StableSnapshot, InShared

LEMMA ReportShares ==
  ASSUME TypeOK, Whereabouts, SharingInv, NEW r \in Reports,
         \/ \E a \in Accounts, kind \in {"none", "pnl"} : StartReport(r, a, kind)
         \/ ReportStep(r)
  PROVE  SharingInv'
PROOF
  <1> USE DEF Goto, access, world
  <1>0. r \in Writers
    BY DEF Writers
  <1>1. ASSUME NEW a \in Accounts, NEW kind \in {"none", "pnl"}, StartReport(r, a, kind)
        PROVE  SharingInv'
    BY <1>0, <1>1, Stays DEF StartReport, SharedSteps
  <1>2. ASSUME ReportEnters(r) PROVE SharingInv'
    BY <1>0, <1>2, Enters DEF ReportEnters, SharedSteps
  <1>3. ASSUME ReportTakesLease(r) \/ ReportDropsLease(r) PROVE SharingInv'
    BY <1>0, <1>3, Stays DEF ReportTakesLease, ReportDropsLease, SharedSteps
  <1>4. ASSUME ReportReturns(r) PROVE SharingInv'
    BY <1>0, <1>4, Leaves DEF ReportReturns, SharedSteps, Steps
  <1> QED BY <1>1, <1>2, <1>3, <1>4 DEF ReportStep

LEMMA BatchShares ==
  ASSUME TypeOK, Whereabouts, SharingInv, NEW b \in Batches,
         (\E a \in Accounts : StartBatch(b, a)) \/ BatchStep(b)
  PROVE  SharingInv'
PROOF
  <1> USE DEF Goto, access, world
  <1>0. b \in Writers
    BY DEF Writers
  <1>1. ASSUME NEW a \in Accounts, StartBatch(b, a) PROVE SharingInv'
    BY <1>0, <1>1, Stays DEF StartBatch, SharedSteps
  <1>2. ASSUME NEW kind \in {"pnl", "balance"}, NextElement(b, kind) PROVE SharingInv'
    BY <1>0, <1>2, Stays DEF NextElement, SharedSteps
  <1>3. ASSUME ElementEnters(b) PROVE SharingInv'
    BY <1>0, <1>3, Enters DEF ElementEnters, SharedSteps
  <1>4. ASSUME PnlElement(b) \/ BalanceElement(b) PROVE SharingInv'
    BY <1>0, <1>4, Stays DEF PnlElement, BalanceElement, SharedSteps
  <1>5. ASSUME ElementReturns(b) PROVE SharingInv'
    BY <1>0, <1>5, Leaves DEF ElementReturns, SharedSteps, Steps
  <1>6. ASSUME NEW how \in {"commit", "rollback"}, Finalize(b, how) PROVE SharingInv'
    BY <1>0, <1>6, Stays DEF Finalize, SharedSteps
  <1>7. ASSUME RunFinalizer(b) PROVE SharingInv'
    BY <1>0, <1>7, Stays DEF RunFinalizer, SharedSteps
  <1>8. ASSUME FinalizerEnters(b) PROVE SharingInv'
    BY <1>0, <1>8, Enters DEF FinalizerEnters, SharedSteps
  <1>9. ASSUME FinalizerReturns(b) PROVE SharingInv'
    BY <1>0, <1>9, Leaves DEF FinalizerReturns, SharedSteps, Steps
  <1>10. ASSUME DropMutation(b) \/ BatchReturns(b) PROVE SharingInv'
    BY <1>0, <1>10, Stays DEF DropMutation, BatchReturns, SharedSteps
  <1> QED BY <1>1, <1>2, <1>3, <1>4, <1>5, <1>6, <1>7, <1>8, <1>9, <1>10 DEF BatchStep

(* A transition comes in when no writer is inside, is alone there, and     *)
(* only then changes what writers read.                                    *)
LEMMA TransitionShares ==
  ASSUME TypeOK, Whereabouts, SharingInv, NEW x \in Transitions,
         RequestTransition(x) \/ TransitionStep(x)
  PROVE  SharingInv'
PROOF
  <1> USE DEF Goto, access, world
  <1>0. x \notin Writers /\ x \in Threads
    BY DEF Threads
  <1>1. ASSUME NEW next, pc' = [pc EXCEPT ![x] = next] PROVE InShared' = InShared
    BY <1>0, <1>1 DEF InShared, TypeOK, Threads
  <1>2. ASSUME RequestTransition(x) PROVE SharingInv'
    <2>1. InShared' = InShared
      BY <1>1, <1>2 DEF RequestTransition
    <2>2. Excluding' = Excluding
      BY <1>0, <1>2 DEF RequestTransition, Excluding, TypeOK
    <2> QED BY <1>2, <2>1, <2>2 DEF RequestTransition, SharingInv, Exclusion, StableSnapshot, InShared
  <1>3. ASSUME EnterExclusive(x) PROVE SharingInv'
    <2>1. InShared' = InShared
      BY <1>1, <1>3 DEF EnterExclusive
    <2>2. Excluding = {} /\ InShared = {}
      BY <1>3, SharedFinite, FS_EmptySet DEF EnterExclusive, MayExclude, SharingInv, Exclusion
    <2>3. Excluding' = {x}
      BY <1>0, <1>3, <2>2 DEF EnterExclusive, Excluding, TypeOK
    <2> QED BY <1>3, <2>1, <2>2, <2>3
            DEF EnterExclusive, SharingInv, Exclusion, StableSnapshot, InShared
  <1>4. ASSUME \/ ChangeConfiguration(x) \/ RefuseRetirement(x)
               \/ \E a \in Accounts : RetireAccount(x, a)
        PROVE  SharingInv'
    <2>1. pc[x] = "exclusive" /\ pc' = [pc EXCEPT ![x] = "release"]
          /\ UNCHANGED <<readers, writer, seen>>
      BY <1>4 DEF ChangeConfiguration, RefuseRetirement, RetireAccount
    <2>2. InShared' = InShared
      BY <1>1, <2>1
    <2>3. Excluding' = Excluding /\ x \in Excluding
      BY <1>0, <2>1 DEF Excluding, TypeOK
    <2>4. InShared = {}
      BY <2>3 DEF SharingInv, Exclusion
    <2> QED BY <2>1, <2>2, <2>3, <2>4 DEF SharingInv, Exclusion, StableSnapshot
  <1>5. ASSUME LeaveExclusive(x) PROVE SharingInv'
    <2>1. InShared' = InShared
      BY <1>1, <1>5 DEF LeaveExclusive
    <2>2. Excluding' = Excluding \ {x} /\ x \in Excluding
      BY <1>0, <1>5 DEF LeaveExclusive, Excluding, TypeOK
    <2>3. Excluding' = {}
      BY <2>2 DEF SharingInv, Exclusion
    <2> QED BY <1>5, <2>1, <2>3 DEF LeaveExclusive, SharingInv, Exclusion, StableSnapshot, InShared
  <1> QED BY <1>2, <1>3, <1>4, <1>5 DEF TransitionStep

-----------------------------------------------------------------------------
(* The account PnL lease (acquire_account_pnl_lease and                    *)
(* release_account_pnl_lease).                                             *)

USE DEF OwnedBy

LeaseInv == SectionLeases /\ LeaseMatchesGuards /\ LeaseTypes

LEMMA GuardsAreCounted ==
  ASSUME TypeOK, NEW b \in Batches
  PROVE  Guards(b) \in Nat
  BY GuardsFinite DEF TypeOK, Guards

(* A step that touches no lease and changes neither what the mutations     *)
(* guard nor which reports are in their sections.                          *)
LEMMA LeasesUntouched ==
  ASSUME LeaseInv, UNCHANGED pnl_leases,
         \A b \in Batches :
            /\ Guards(b)' = Guards(b)
            /\ Guards(b) > 0 => account'[b] = account[b],
         \A r \in Reports :
            /\ pc'[r] = "section" <=> pc[r] = "section"
            /\ pc[r] = "section" => account'[r] = account[r]
  PROVE  LeaseInv'
  BY DEF LeaseInv, SectionLeases, LeaseMatchesGuards, LeaseTypes

(* The account of an open guard is the account of its thread. *)
LEMMA GuardsHaveAccounts ==
  ASSUME TypeOK, Whereabouts
  PROVE  /\ \A b \in Batches : Guards(b) > 0 => account[b] \in Accounts
         /\ \A b \in Batches : pc[b] = "idle" => Guards(b) = 0
PROOF
  <1>1. ASSUME NEW b \in Batches, pc[b] = "idle" PROVE Guards(b) = 0
    BY <1>1, GuardsEmpty DEF Whereabouts, Guards
  <1> QED BY <1>1, GuardsAreCounted DEF Whereabouts, Writers

LEMMA ReportLeases ==
  ASSUME TypeOK, Whereabouts, LeaseInv, NEW r \in Reports,
         \/ \E a \in Accounts, kind \in {"none", "pnl"} : StartReport(r, a, kind)
         \/ ReportStep(r)
  PROVE  LeaseInv'
PROOF
  <1> USE DEF Goto, access, world
  <1>0. r \in Writers /\ r \in Threads /\ r \notin Batches /\ r # NoOwner
        /\ \A b \in Batches : b # NoOwner /\ b \in Writers
    BY DEF Writers, Threads
  <1>1. ASSUME NEW a \in Accounts, NEW kind \in {"none", "pnl"}, StartReport(r, a, kind)
        PROVE  LeaseInv'
    BY <1>0, <1>1, LeasesUntouched DEF StartReport, TypeOK, Guards
  <1>2. ASSUME ReportEnters(r) PROVE LeaseInv'
    BY <1>0, <1>2, LeasesUntouched DEF ReportEnters, TypeOK, Guards
  <1>3. ASSUME ReportTakesLease(r) PROVE LeaseInv'
    <2> DEFINE a == account[r]
    <2>1. a \in Accounts /\ pc[r] = "lease"
      BY <1>0, <1>3 DEF ReportTakesLease, Whereabouts
    <2>2. pnl_leases[a].owner = NoOwner /\ pnl_leases[a].depth = 0
      BY <1>3, <2>1 DEF ReportTakesLease, MayAcquire, LeaseInv, SectionLeases,
                        LeaseMatchesGuards, OwnedBy
    <2>3. pnl_leases' = [pnl_leases EXCEPT ![a] = [owner |-> r, depth |-> 1]]
      BY <1>3, <2>2 DEF ReportTakesLease, Acquired, Free
    <2>4. \A q \in Reports : /\ pc'[q] = "section" <=> pc[q] = "section" \/ q = r
                             /\ account'[q] = account[q]
      BY <1>3, <1>0 DEF ReportTakesLease, TypeOK
    <2>5. \A b \in Batches : Guards(b)' = Guards(b) /\ account'[b] = account[b]
      BY <1>3 DEF ReportTakesLease, Guards
    <2>6. LeaseTypes'
      BY <1>0, <2>3 DEF LeaseInv, LeaseTypes
    <2>7. \A b \in Batches : Guards(b) > 0 => account[b] # a
      BY <2>2, <1>0 DEF LeaseInv, LeaseMatchesGuards, Free
    <2>8. \A q \in Reports : pc[q] = "section" => account[q] # a /\ q # r
      BY <2>1, <2>2 DEF LeaseInv, SectionLeases, Free
    <2>9. SectionLeases'
      BY <1>0, <2>1, <2>3, <2>4, <2>8 DEF LeaseInv, LeaseTypes, SectionLeases, OwnedBy, Free
    <2>10. LeaseMatchesGuards'
      BY <1>0, <2>1, <2>3, <2>4, <2>5, <2>7 DEF LeaseInv, LeaseTypes, LeaseMatchesGuards
    <2> QED BY <2>6, <2>9, <2>10 DEF LeaseInv
  <1>4. ASSUME ReportDropsLease(r) PROVE LeaseInv'
    <2> DEFINE a == account[r]
    <2>1. a \in Accounts /\ pc[r] = "section"
      BY <1>0, <1>4 DEF ReportDropsLease, Whereabouts
    <2>2. pnl_leases[a].owner = r /\ pnl_leases[a].depth = 1
      BY <2>1 DEF LeaseInv, SectionLeases
    <2>3. pnl_leases' = [pnl_leases EXCEPT ![a] = Free]
      BY <1>4, <2>2 DEF ReportDropsLease, Released
    <2>4. \A q \in Reports : /\ pc'[q] = "section" <=> pc[q] = "section" /\ q # r
                             /\ account'[q] = account[q]
      BY <1>4, <1>0 DEF ReportDropsLease, TypeOK
    <2>5. \A b \in Batches : Guards(b)' = Guards(b) /\ account'[b] = account[b]
      BY <1>4 DEF ReportDropsLease, Guards
    <2>6. LeaseTypes'
      BY <1>0, <2>3 DEF LeaseInv, LeaseTypes, Free
    <2>7. \A b \in Batches : Guards(b) > 0 => account[b] # a
      BY <1>0, <2>2 DEF LeaseInv, LeaseMatchesGuards
    <2>8. \A q \in Reports : pc[q] = "section" /\ q # r => account[q] # a
      BY <2>1, <2>2 DEF LeaseInv, SectionLeases
    <2>9. SectionLeases'
      BY <1>0, <2>1, <2>3, <2>4, <2>8 DEF LeaseInv, LeaseTypes, SectionLeases, OwnedBy, Free
    <2>10. LeaseMatchesGuards'
      BY <1>0, <2>1, <2>2, <2>3, <2>4, <2>5, <2>7
         DEF LeaseInv, LeaseTypes, LeaseMatchesGuards, Free, Threads, Writers
    <2> QED BY <2>6, <2>9, <2>10 DEF LeaseInv
  <1>5. ASSUME ReportReturns(r) PROVE LeaseInv'
    BY <1>0, <1>5, LeasesUntouched DEF ReportReturns, TypeOK, Guards
  <1> QED BY <1>1, <1>2, <1>3, <1>4, <1>5 DEF ReportStep

(* A batch takes one more guard, or drops one: its lease follows, and no   *)
(* other account's lease or guards are touched.                            *)
LEMMA BatchRecounts ==
  ASSUME TypeOK, Whereabouts, LeaseInv, NEW b \in Batches, NEW n \in Nat, account[b] \in Accounts,
         pnl_leases[account[b]].owner \in {NoOwner, b},
         Guards(b)' = n,
         pnl_leases' = [pnl_leases EXCEPT ![account[b]] =
                           IF n = 0 THEN Free ELSE [owner |-> b, depth |-> n]],
         \A c \in Batches \ {b} : Guards(c)' = Guards(c),
         UNCHANGED account,
         \A r \in Reports : pc'[r] = pc[r]
  PROVE  LeaseInv'
PROOF
  <1> DEFINE a == account[b]
  <1>0. b \in Writers /\ b # NoOwner /\ b \notin Reports /\ NoOwner \notin Writers
        /\ \A c \in Batches : c \notin Reports /\ c # NoOwner
    BY DEF Writers, Threads
  <1>1. LeaseTypes'
    BY <1>0 DEF LeaseInv, LeaseTypes, Free
  <1>2. \A c \in Batches \ {b} : Guards(c) > 0 => account[c] # a
    BY <1>0 DEF LeaseInv, LeaseMatchesGuards
  <1>3. \A r \in Reports : pc[r] = "section" => account[r] # a
    BY <1>0 DEF LeaseInv, SectionLeases, Threads, Writers
  <1>4. SectionLeases'
    BY <1>0, <1>3 DEF LeaseInv, LeaseTypes, SectionLeases, OwnedBy, Free, Whereabouts, Writers
  <1>5. ASSUME NEW c \in Batches, Guards(c)' > 0
        PROVE  (OwnedBy(pnl_leases[account[c]], c) /\ pnl_leases[account[c]].depth = Guards(c))'
    <2>1. CASE c = b
      BY <1>5, <2>1 DEF LeaseInv, LeaseTypes, OwnedBy
    <2>2. CASE c # b
      BY <1>5, <1>2, <2>2, GuardsHaveAccounts DEF LeaseInv, LeaseTypes, LeaseMatchesGuards, OwnedBy
    <2> QED BY <2>1, <2>2
  <1>6. ASSUME NEW e \in Accounts
        PROVE  /\ \A c \in Batches : pnl_leases'[e].owner = c => account'[c] = e /\ Guards(c)' > 0
               /\ \A r \in Reports : pnl_leases'[e].owner = r => account'[r] = e /\ pc'[r] = "section"
    <2>1. CASE e = a
      BY <1>0, <2>1 DEF LeaseInv, LeaseTypes, Free, Threads, Writers
    <2>2. CASE e # a
      <3>1. pnl_leases'[e] = pnl_leases[e] /\ pnl_leases[e].owner # b
        BY <2>2 DEF LeaseInv, LeaseTypes, LeaseMatchesGuards, OwnedBy
      <3> QED BY <3>1 DEF LeaseInv, LeaseMatchesGuards, OwnedBy
    <2> QED BY <2>1, <2>2
  <1>7. LeaseMatchesGuards'
    BY <1>5, <1>6 DEF LeaseMatchesGuards, OwnedBy
  <1> QED BY <1>1, <1>4, <1>7 DEF LeaseInv

LEMMA BatchLeases ==
  ASSUME TypeOK, Whereabouts, LeaseInv, NEW b \in Batches,
         (\E a \in Accounts : StartBatch(b, a)) \/ BatchStep(b)
  PROVE  LeaseInv'
PROOF
  <1> USE DEF Goto, access, world
  <1>0. b \in Writers /\ b \in Threads /\ b \notin Reports /\ b # NoOwner
    BY DEF Writers, Threads
  <1>1. ASSUME NEW a \in Accounts, StartBatch(b, a) PROVE LeaseInv'
    BY <1>0, <1>1, GuardsHaveAccounts, LeasesUntouched DEF StartBatch, TypeOK, Guards
  <1>2. ASSUME \/ \E kind \in {"pnl", "balance"} : NextElement(b, kind)
               \/ ElementEnters(b) \/ ElementReturns(b)
               \/ \E how \in {"commit", "rollback"} : Finalize(b, how)
               \/ RunFinalizer(b) \/ FinalizerEnters(b) \/ FinalizerReturns(b)
        PROVE  LeaseInv'
    <2>1. UNCHANGED <<pnl_leases, mutations, account>>
      BY <1>2 DEF NextElement, ElementEnters, ElementReturns, Finalize, RunFinalizer,
                  FinalizerEnters, FinalizerReturns
    <2>2. \E next : pc' = [pc EXCEPT ![b] = next]
      <3>1. ASSUME NEW kind \in {"pnl", "balance"}, NextElement(b, kind)
            PROVE  \E next : pc' = [pc EXCEPT ![b] = next]
        BY <3>1 DEF NextElement
      <3>2. ASSUME ElementEnters(b) \/ ElementReturns(b)
            PROVE  \E next : pc' = [pc EXCEPT ![b] = next]
        BY <3>2 DEF ElementEnters, ElementReturns
      <3>3. ASSUME NEW how \in {"commit", "rollback"}, Finalize(b, how)
            PROVE  \E next : pc' = [pc EXCEPT ![b] = next]
        BY <3>3 DEF Finalize
      <3>4. ASSUME RunFinalizer(b) \/ FinalizerEnters(b) \/ FinalizerReturns(b)
            PROVE  \E next : pc' = [pc EXCEPT ![b] = next]
        BY <3>4 DEF RunFinalizer, FinalizerEnters, FinalizerReturns
      <3> QED BY <1>2, <3>1, <3>2, <3>3, <3>4
    <2>3. \A r \in Reports : pc'[r] = pc[r]
      BY <1>0, <2>2 DEF TypeOK
    <2> QED BY <2>1, <2>3, LeasesUntouched DEF Guards
  <1>3. ASSUME BatchReturns(b) PROVE LeaseInv'
    <2>1. Guards(b) = 0
      BY <1>3, GuardsEmpty DEF BatchReturns, Guards
    <2> QED BY <1>0, <1>3, <2>1, LeasesUntouched DEF BatchReturns, TypeOK, Guards
  <1>4. ASSUME PnlElement(b) PROVE LeaseInv'
    <2> DEFINE a == account[b]
    <2>1. a \in Accounts /\ pnl_leases[a].owner \in {NoOwner, b} /\ Guards(b) \in Nat
      BY <1>0, <1>4, GuardsAreCounted DEF PnlElement, MayAcquire, Whereabouts
    <2>2. Guards(b)' = Guards(b) + 1
      BY <1>4, GuardsAppend DEF PnlElement, Registered, Guards, TypeOK
    <2>3. pnl_leases[a].depth = Guards(b)
      BY <1>0, <2>1 DEF LeaseInv, SectionLeases, LeaseMatchesGuards, OwnedBy, Free
    <2> DEFINE n == Guards(b) + 1
    <2>4. pnl_leases' = [pnl_leases EXCEPT ![a] =
                            IF n = 0 THEN Free ELSE [owner |-> b, depth |-> n]]
      <3>1. (IF n = 0 THEN Free ELSE [owner |-> b, depth |-> n]) = [owner |-> b, depth |-> n]
        BY <2>1
      <3>2. pnl_leases' = [pnl_leases EXCEPT ![a] = [owner |-> b, depth |-> n]]
        BY <1>4, <2>3 DEF PnlElement, Acquired
      <3> QED BY <3>1, <3>2
    <2>7. n \in Nat /\ Guards(b)' = n
      BY <2>1, <2>2
    <2> HIDE DEF n
    <2>5. \A c \in Batches \ {b} : Guards(c)' = Guards(c)
      BY <1>4 DEF PnlElement, Registered, Guards, TypeOK
    <2>6. UNCHANGED account /\ \A r \in Reports : pc'[r] = pc[r]
      BY <1>0, <1>4 DEF PnlElement, TypeOK
    <2> QED BY <2>1, <2>4, <2>5, <2>6, <2>7, BatchRecounts
  <1>5. ASSUME BalanceElement(b) PROVE LeaseInv'
    <2>1. \A c \in Batches : Guards(c)' = Guards(c)
      <3>1. Guards(b)' = Guards(b)
        BY <1>5, GuardsAppend, GuardsAreCounted DEF BalanceElement, Registered, Guards, TypeOK
      <3>2. \A c \in Batches \ {b} : Guards(c)' = Guards(c)
        BY <1>5 DEF BalanceElement, Registered, Guards, TypeOK
      <3> QED BY <3>1, <3>2
    <2> QED BY <1>0, <1>5, <2>1, LeasesUntouched DEF BalanceElement, TypeOK
  <1>6. ASSUME DropMutation(b) PROVE LeaseInv'
    <2> DEFINE a == account[b]
    <2>1. mutations[b] # <<>> /\ a \in Accounts
      BY <1>0, <1>6 DEF DropMutation, Whereabouts
    <2>2. Guards(b)' = Guards(b) - (IF Current(b) = "pnl" THEN 1 ELSE 0) /\ Guards(b)' \in Nat
      <3>1. mutations'[b] = Remaining(b)
        BY <1>6 DEF DropMutation, TypeOK
      <3> QED BY <2>1, <3>1, GuardsRemaining, GuardsFinite DEF Guards
    <2>3. \A c \in Batches \ {b} : Guards(c)' = Guards(c)
      BY <1>6 DEF DropMutation, Guards, TypeOK
    <2>4. UNCHANGED account /\ \A r \in Reports : pc'[r] = pc[r]
      BY <1>0, <1>6 DEF DropMutation, TypeOK
    <2>5. CASE Current(b) = "pnl"
      <3>1. Guards(b) \in Nat /\ Guards(b) > 0
        BY <2>2, <2>5, GuardsAreCounted
      <3>2. pnl_leases[a].owner = b /\ pnl_leases[a].depth = Guards(b)
        BY <3>1 DEF LeaseInv, LeaseMatchesGuards
      <3>3. Released(pnl_leases[a], b) =
               IF Guards(b)' = 0 THEN Free ELSE [owner |-> b, depth |-> Guards(b)']
        <4>1. pnl_leases[a] = [owner |-> b, depth |-> Guards(b)]
          BY <2>1, <3>2 DEF LeaseInv, LeaseTypes
        <4>2. Guards(b)' = Guards(b) - 1
          BY <2>2, <2>5
        <4> QED BY <3>1, <4>1, <4>2 DEF Released
      <3>4. pnl_leases' = [pnl_leases EXCEPT ![a] =
               IF Guards(b)' = 0 THEN Free ELSE [owner |-> b, depth |-> Guards(b)']]
        BY <1>6, <2>5, <3>3 DEF DropMutation
      <3>5. pnl_leases[a].owner \in {NoOwner, b}
        BY <3>2
      <3> QED BY <2>1, <2>2, <2>3, <2>4, <3>4, <3>5, BatchRecounts
    <2>6. CASE Current(b) # "pnl"
      <3>1. UNCHANGED pnl_leases
        BY <1>6, <2>6 DEF DropMutation
      <3>2. \A c \in Batches : Guards(c)' = Guards(c)
        BY <2>2, <2>3, <2>6, GuardsAreCounted
      <3> QED BY <2>4, <3>1, <3>2, LeasesUntouched
    <2> QED BY <2>5, <2>6
  <1> QED BY <1>1, <1>2, <1>3, <1>4, <1>5, <1>6 DEF BatchStep

(* A transition leaves the leases alone; a retirement only drops an unused *)
(* one.                                                                    *)
LEMMA TransitionLeases ==
  ASSUME TypeOK, Whereabouts, LeaseInv, NEW x \in Transitions,
         RequestTransition(x) \/ TransitionStep(x)
  PROVE  LeaseInv'
PROOF
  <1> USE DEF Goto, access, world
  <1>0. x \notin Reports /\ x \in Threads
    BY DEF Writers, Threads
  <1>1. UNCHANGED <<account, mutations>> /\ \E next : pc' = [pc EXCEPT ![x] = next]
    <2>1. ASSUME NEW a \in Accounts, RetireAccount(x, a)
          PROVE  UNCHANGED <<account, mutations>> /\ \E next : pc' = [pc EXCEPT ![x] = next]
      BY <2>1 DEF RetireAccount
    <2>2. ASSUME RequestTransition(x) \/ EnterExclusive(x)
          PROVE  UNCHANGED <<account, mutations>> /\ \E next : pc' = [pc EXCEPT ![x] = next]
      BY <2>2 DEF RequestTransition, EnterExclusive
    <2>3. ASSUME ChangeConfiguration(x) \/ RefuseRetirement(x) \/ LeaveExclusive(x)
          PROVE  UNCHANGED <<account, mutations>> /\ \E next : pc' = [pc EXCEPT ![x] = next]
      BY <2>3 DEF ChangeConfiguration, RefuseRetirement, LeaveExclusive
    <2> QED BY <2>1, <2>2, <2>3 DEF TransitionStep
  <1>3. \A r \in Reports : pc'[r] = pc[r]
    BY <1>0, <1>1 DEF TypeOK
  <1>2. UNCHANGED pnl_leases
    <2>1. ASSUME NEW a \in Accounts, RetireAccount(x, a) PROVE UNCHANGED pnl_leases
      <3>1. pnl_leases[a].owner = NoOwner /\ pnl_leases[a].depth = 0
        BY <2>1 DEF RetireAccount, OperationInProgress, LeaseInv, SectionLeases
      <3>2. pnl_leases[a] \in [owner : Writers \cup {NoOwner}, depth : Nat]
        BY DEF LeaseInv, LeaseTypes
      <3>3. pnl_leases[a] = Free
        BY <3>1, <3>2 DEF Free
      <3> QED BY <2>1, <3>3 DEF RetireAccount, LeaseInv, LeaseTypes
    <2> QED BY <2>1 DEF RequestTransition, TransitionStep, EnterExclusive, ChangeConfiguration,
                        LeaveExclusive, RefuseRetirement
  <1> QED BY <1>1, <1>2, <1>3, LeasesUntouched DEF Guards

-----------------------------------------------------------------------------
LEMMA InitInv == Init => IInv
PROOF
  <1> SUFFICES ASSUME Init PROVE IInv
    OBVIOUS
  <1>1. TypeOK
    <2>1. pnl_leases \in [Accounts -> [owner : Writers \cup {NoOwner}, depth : Nat]]
      BY DEF Init, Free
    <2>2. pc \in [Threads -> Steps] /\ account \in [Writers -> Accounts \cup {NoAccount}]
      BY DEF Init, Steps
    <2>3. mutations \in [Batches -> Seq({"pnl", "balance"})]
      BY DEF Init
    <2>4. element \in [Writers -> Kinds] /\ mode \in [Batches -> {"none", "commit", "rollback"}]
      BY DEF Init, Kinds
    <2> QED BY <2>1, <2>2, <2>3, <2>4 DEF Init, TypeOK
  <1>2. Whereabouts
    BY DEF Init, Whereabouts, ReportSteps, BatchSteps, TransitionSteps, Threads, Writers
  <1>3. InShared = {} /\ Excluding = {}
    BY DEF Init, InShared, Excluding, SharedSteps, Threads, Writers
  <1>4. Exclusion /\ StableSnapshot
    BY <1>3, FS_EmptySet DEF Init, Exclusion, StableSnapshot
  <1>5. \A b \in Batches : Guards(b) = 0
    BY GuardsEmpty DEF Init, Guards
  <1>6. SectionLeases /\ LeaseMatchesGuards
    BY <1>5 DEF Init, SectionLeases, LeaseMatchesGuards, Free, Threads, Writers, OwnedBy
  <1> QED BY <1>1, <1>2, <1>4, <1>6 DEF IInv

LEMMA NextInv == IInv /\ [Next]_vars => IInv'
PROOF
  <1> SUFFICES ASSUME IInv, [Next]_vars PROVE IInv'
    OBVIOUS
  <1>0. TypeOK /\ Whereabouts /\ SharingInv /\ LeaseInv
    BY DEF IInv, SharingInv, LeaseInv, LeaseTypes, TypeOK
  <1>1. ASSUME NEW r \in Reports,
               \/ \E a \in Accounts, kind \in {"none", "pnl"} : StartReport(r, a, kind)
               \/ ReportStep(r)
        PROVE  IInv'
    BY <1>0, <1>1, ReportTypes, ReportShares, ReportLeases DEF IInv, SharingInv, LeaseInv
  <1>2. ASSUME NEW b \in Batches, (\E a \in Accounts : StartBatch(b, a)) \/ BatchStep(b)
        PROVE  IInv'
    BY <1>0, <1>2, BatchTypes, BatchShares, BatchLeases DEF IInv, SharingInv, LeaseInv
  <1>3. ASSUME NEW x \in Transitions, RequestTransition(x) \/ TransitionStep(x)
        PROVE  IInv'
    BY <1>0, <1>3, TransitionTypes, TransitionShares, TransitionLeases
       DEF IInv, SharingInv, LeaseInv
  <1>4. CASE UNCHANGED vars
    BY <1>4 DEF vars, IInv, TypeOK, Whereabouts, Exclusion, StableSnapshot, SectionLeases,
                LeaseMatchesGuards, Guards, InShared, Excluding
  <1> QED BY <1>1, <1>2, <1>3, <1>4 DEF Next, Arrivals

LEMMA Invariance == Spec => []IInv
  BY InitInv, NextInv, PTL DEF Spec

(* While a writer is inside its shared section, with or without the bypass,*)
(* the configuration it read stands: no membership change, currency change *)
(* or retune comes in between (accounts.rs, acquire_shared and             *)
(* acquire_exclusive).                                                     *)
THEOREM SnapshotsStable == Spec => []StableSnapshot
PROOF
  <1>1. IInv => StableSnapshot
    BY DEF IInv
  <1> QED BY <1>1, Invariance, PTL

(* The PnL lease of an account is held by exactly the batch whose open     *)
(* mutations guard it, once per guard, or by the report inside its         *)
(* section, whatever transitions and retirements run in between            *)
(* (spot_funds/mod.rs, acquire_ and release_account_pnl_lease).            *)
THEOREM LeasesMatchGuards == Spec => []LeaseMatchesGuards
PROOF
  <1>1. IInv => LeaseMatchesGuards
    BY DEF IInv
  <1> QED BY <1>1, Invariance, PTL
=============================================================================
