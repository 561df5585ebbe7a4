--------------------------- MODULE RegistriesProofs ---------------------------
(***************************************************************************)
(* Proofs about the two registries every thread shares: BlockedAccounts,   *)
(* for any sets of accounts, groups, causes, mutators and checkers, and    *)
(* the market-data service, for any threads, instruments and lifetimes.    *)
(***************************************************************************)
EXTENDS BlockedAccounts, MarketData, SequenceTheorems, WellFoundedInduction, TLAPS

-----------------------------------------------------------------------------
(* Blocked accounts *)

(***************************************************************************)
(* The inductive invariant.  At most one mutator is inside an operation,   *)
(* so the state of the maps and flags is a function of how far it got.     *)
(***************************************************************************)

GuardHeld == \A w \in Mutators : wpc[w] # "idle" <=> guard = w

\* The step and the operation of the mutator that holds the guard.
Phase == IF guard \in Mutators THEN wpc[guard] ELSE "idle"
Kind == IF guard \in Mutators THEN wop[guard].kind ELSE "none"
Target == wop[guard].target

AllKinds == {"block_all", "block_all_with_cause"}
LiftKinds == {"unblock_all", "unblock_account", "invalidate_provenance"}

\* Which operation can be at which step, and what it has done by then.
StepKinds ==
    /\ Kind = "block_account" => Target \in Accounts /\ accounts[Target] # NoCause
    /\ Kind = "block_group" => Target \in Groups /\ blocked_groups[Target] # NoCause
    /\ Phase = "store_any" => Kind \in {"block_account", "block_all_with_cause"}
    /\ Phase = "store_all" => Kind \in AllKinds /\ any_flag
    /\ Phase = "clear_all" => Kind = "unblock_all"
    /\ Phase \in {"probe_accounts", "clear_any"} => Kind \in LiftKinds
    /\ Phase = "store_groups" => Kind = "block_group"
    /\ Phase \in {"probe_groups", "clear_groups"} => Kind = "unblock_group"
    /\ Phase = "unlock" /\ Kind \in AllKinds => all_flag

\* The two account flags against the per-account map.
AccountFlags ==
    /\ ~AccountsEmpty \/ all_flag => any_flag \/ Phase = "store_any"
    /\ any_flag /\ AccountsEmpty /\ ~all_flag =>
          Phase \in {"store_all", "probe_accounts", "clear_any"}
    /\ Phase = "clear_any" => AccountsEmpty /\ ~all_flag

\* The group flag against the group map.
GroupFlags ==
    /\ ~GroupsEmpty => blocked_groups_any_flag \/ Phase = "store_groups"
    /\ blocked_groups_any_flag /\ GroupsEmpty =>
          Phase \in {"probe_groups", "clear_groups"}
    /\ Phase = "clear_groups" => GroupsEmpty

\* The global block: its stored cause, its flag and whether it is settled.
GlobalFlags ==
    /\ global_block # NoCause => all_flag \/ Phase \in {"store_any", "store_all"}
    /\ Phase \in {"store_any", "store_all"} /\ global_block # NoCause /\ ~all_flag
          => Kind \in AllKinds
    /\ Phase = "clear_all" => global_block = NoCause /\ ~settledAll
    /\ settledAll => all_flag
    /\ all_flag => \/ settledAll \/ Phase = "clear_all"
                   \/ Phase = "unlock" /\ Kind \in AllKinds

\* A settled block is stored, and announced by its flag.
SettledStored ==
    /\ \A a \in settledAccounts : accounts[a] # NoCause /\ any_flag
    /\ \A g \in settledGroups :
          blocked_groups[g] # NoCause /\ blocked_groups_any_flag

MutatorInv ==
    GuardHeld /\ StepKinds /\ AccountFlags /\ GroupFlags /\ GlobalFlags
    /\ SettledStored

\* What a check still has to find is in force, and the flags it has loaded
\* so far send it to where it is stored.
HeldInForce ==
    \A c \in Checkers :
        held[c] \subseteq SourcesOf(caccount[c], settledAccounts, settledGroups,
                                    settledAll, memberships)

OnTrack(c) ==
    /\ cpc[c] # "done" => verdict[c] = "none"
    /\ cpc[c] = "load_any" => "all" \notin held[c]
    /\ cpc[c] \in {"load_groups", "accounts", "group_of", "blocked_groups",
                   "global"} =>
          /\ "all" \in held[c] => all_blocking[c] /\ account_blocking[c]
          /\ "account" \in held[c] => account_blocking[c]
    /\ cpc[c] \in {"accounts", "group_of", "blocked_groups", "global"} =>
          /\ "group" \in held[c] => group_blocking[c]
          /\ caccount[c] \in Accounts
    /\ cpc[c] \in {"group_of", "blocked_groups", "global"} =>
          "account" \notin held[c]
    /\ cpc[c] = "blocked_groups" =>
          /\ cgroup[c] \in Groups
          /\ "group" \in held[c] => cgroup[c] = memberships[caccount[c]]
    /\ verdict[c] = "admit" => held[c] = {}

CheckOnTrack == \A c \in Checkers : OnTrack(c)

CheckInv == HeldInForce /\ CheckOnTrack

IInv == TypeOK /\ MutatorInv /\ CheckInv

(***************************************************************************)
(* Types.                                                                  *)
(***************************************************************************)

\* A new blocked set has the right types.
LEMMA InitType == Init => TypeOK
<1> SUFFICES ASSUME Init PROVE TypeOK
  OBVIOUS
<1>1. NoOp \in [kind : Kinds, target : Targets, cause : Causes \cup {NoCause}]
  BY DEF NoOp, Op, Kinds, Targets
<1>2. /\ "idle" \in MutatorSteps /\ "idle" \in CheckSteps
      /\ "none" \in Verdicts
  BY DEF MutatorSteps, CheckSteps, Verdicts
<1>3. QED
  BY <1>1, <1>2 DEF Init, TypeOK

(***************************************************************************)
(* Every step of a mutator keeps the types.                                *)
(***************************************************************************)

\* Taking the guard names an operation that has its type.
LEMMA BeginType ==
    ASSUME TypeOK, NEW w \in Mutators, NEW k \in Kinds, NEW t \in Targets,
           NEW x \in Causes \cup {NoCause}, NEW next \in MutatorSteps,
           Begin(w, Op(k, t, x), next)
    PROVE  /\ guard' \in Mutators \cup {NoThread}
           /\ wpc' \in [Mutators -> MutatorSteps]
           /\ wop' \in [Mutators -> [kind : Kinds, target : Targets,
                                     cause : Causes \cup {NoCause}]]
BY DEF TypeOK, Begin, Acquire, Op

\* The history that a check carries keeps its type.
LEMMA WitnessType ==
    ASSUME TypeOK, Witness
    PROVE  /\ held' \in [Checkers -> SUBSET SourceKinds]
           /\ covered' \in [Checkers -> BOOLEAN]
BY DEF TypeOK, Witness

\* The first step of every block, unblock and replacement keeps the types.
LEMMA OperationsType ==
    ASSUME TypeOK, NEW w \in Mutators,
           \/ \E id \in Accounts :
                 \/ \E cause \in Causes : BlockAccount(w, id, cause)
                 \/ \E cause \in OperatorCauses : ReplaceReason(w, id, cause)
                 \/ \E token \in Tokens : InvalidateProvenance(w, id, token)
                 \/ UnblockAccount(w, id)
           \/ \E cause \in OperatorCauses : BlockAllWithCause(w, cause)
           \/ BlockAll(w)
           \/ UnblockAll(w)
           \/ \E g \in Groups :
                 \/ \E cause \in OperatorCauses :
                       \/ BlockGroup(w, g, cause)
                       \/ ReplaceGroupReason(w, g, cause)
                 \/ UnblockGroup(w, g)
    PROVE  TypeOK'
<1> USE DEF Kinds, Targets, MutatorSteps, Causes
<1>1. ASSUME NEW id \in Accounts, NEW cause \in Causes,
             BlockAccount(w, id, cause)
      PROVE  TypeOK'
  BY <1>1, BeginType DEF BlockAccount, TypeOK, InsertIfAbsent, flags, locals,
                         history
<1>2. ASSUME NEW id \in Accounts, NEW cause \in OperatorCauses,
             ReplaceReason(w, id, cause)
      PROVE  TypeOK'
  BY <1>2, BeginType DEF ReplaceReason, TypeOK, flags, locals, history
<1>3. ASSUME NEW id \in Accounts, NEW token \in Tokens,
             InvalidateProvenance(w, id, token)
      PROVE  TypeOK'
  BY <1>3, BeginType, WitnessType DEF InvalidateProvenance, TypeOK, flags, locals
<1>4. ASSUME NEW id \in Accounts, UnblockAccount(w, id)
      PROVE  TypeOK'
  BY <1>4, BeginType, WitnessType DEF UnblockAccount, TypeOK, flags, locals
<1>5. ASSUME NEW cause \in OperatorCauses, BlockAllWithCause(w, cause)
      PROVE  TypeOK'
  BY <1>5, BeginType DEF BlockAllWithCause, TypeOK, flags, locals, history
<1>6. CASE BlockAll(w)
  BY <1>6, BeginType DEF BlockAll, TypeOK, maps, locals, history
<1>7. CASE UnblockAll(w)
  BY <1>7, BeginType, WitnessType DEF UnblockAll, TypeOK, flags, locals
<1>8. ASSUME NEW g \in Groups, NEW cause \in OperatorCauses,
             BlockGroup(w, g, cause)
      PROVE  TypeOK'
  BY <1>8, BeginType DEF BlockGroup, TypeOK, InsertIfAbsent, flags, locals,
                         history
<1>9. ASSUME NEW g \in Groups, NEW cause \in OperatorCauses,
             ReplaceGroupReason(w, g, cause)
      PROVE  TypeOK'
  BY <1>9, BeginType DEF ReplaceGroupReason, TypeOK, flags, locals, history
<1>10. ASSUME NEW g \in Groups, UnblockGroup(w, g)
       PROVE  TypeOK'
  BY <1>10, BeginType, WitnessType DEF UnblockGroup, TypeOK, flags, locals
<1>11. QED
  BY <1>1, <1>2, <1>3, <1>4, <1>5, <1>6, <1>7, <1>8, <1>9, <1>10

\* The flag stores, the probes and the return of an operation keep the
\* types.
LEMMA StepsType ==
    ASSUME TypeOK, GuardHeld, StepKinds, NEW w \in Mutators,
           \/ StoreAny(w) \/ StoreAll(w) \/ ClearAll(w) \/ ProbeAccounts(w)
           \/ ClearAny(w) \/ StoreGroups(w) \/ ProbeGroups(w) \/ ClearGroups(w)
           \/ Unlock(w)
    PROVE  TypeOK'
<1> USE DEF MutatorSteps, Goto, TypeOK
<1>1. CASE StoreAny(w) \/ StoreAll(w) \/ ClearAll(w) \/ ClearAny(w)
  BY <1>1 DEF StoreAny, StoreAll, ClearAll, ClearAny, maps, locals, history
<1>2. CASE StoreGroups(w) \/ ClearGroups(w)
  BY <1>2 DEF StoreGroups, ClearGroups, maps, locals, history
<1>3. CASE ProbeAccounts(w) \/ ProbeGroups(w)
  BY <1>3 DEF ProbeAccounts, ProbeGroups, flags, maps, locals, history
<1>4. CASE Unlock(w)
  <2>1. NoOp \in [kind : Kinds, target : Targets, cause : Causes \cup {NoCause}]
    BY DEF NoOp, Op, Kinds, Targets
  <2>2. /\ wop[w].kind = "block_account" => wop[w].target \in Accounts
        /\ wop[w].kind = "block_group" => wop[w].target \in Groups
    BY <1>4 DEF Unlock, GuardHeld, StepKinds, Kind, Target
  <2>3. QED
    BY <1>4, <2>1, <2>2 DEF Unlock, flags, maps, locals
<1>5. QED
  BY <1>1, <1>2, <1>3, <1>4

\* Registering, unregistering and retiring members keeps the types.
LEMMA RegistryType ==
    ASSUME TypeOK, RegistryNext
    PROVE  TypeOK'
<1>1. /\ memberships' \in [Accounts -> Groups \cup {NoGroup}]
      /\ Witness
      /\ UNCHANGED <<guard, flags, maps, wpc, wop, locals, settled>>
  BY DEF RegistryNext, RegisterGroup, UnregisterGroup, RetireAccount, TypeOK
<1>2. QED
  BY <1>1, WitnessType DEF TypeOK, flags, maps, locals, settled

\* A check's reads keep the types.
LEMMA CheckerType ==
    ASSUME TypeOK, CheckOnTrack, NEW c \in Checkers, CheckerNext(c)
    PROVE  TypeOK'
<1> USE DEF TypeOK, CheckSteps, Verdicts, Shared, flags, maps, settled
<1>1. ASSUME NEW a \in Accounts \cup {NoAccount}, CallCheck(c, a)
      PROVE  TypeOK'
  BY <1>1 DEF CallCheck, SourcesOf
<1>2. CASE LoadAll(c)
  BY <1>2 DEF LoadAll, Continue
<1>3. CASE LoadAny(c)
  BY <1>3 DEF LoadAny, Continue
<1>4. CASE LoadGroups(c)
  BY <1>4 DEF LoadGroups, Continue, Return
<1>5. CASE LookupAccounts(c)
  BY <1>5 DEF LookupAccounts, GlobalOrAdmit, Continue, Return
<1>6. CASE GroupOf(c)
  <2>1. memberships[caccount[c]] \in Groups \cup {NoGroup}
    BY <1>6 DEF GroupOf, CheckOnTrack, OnTrack
  <2>2. QED
    BY <1>6, <2>1 DEF GroupOf, GlobalOrAdmit, Continue, Return
<1>7. CASE LookupGroups(c) \/ LookupGlobal(c)
  BY <1>7 DEF LookupGroups, LookupGlobal, GlobalOrAdmit, Continue, Return
<1>8. CASE Finish(c)
  BY <1>8 DEF Finish
<1>9. QED
  BY <1>1, <1>2, <1>3, <1>4, <1>5, <1>6, <1>7, <1>8 DEF CheckerNext

(***************************************************************************)
(* How a mutator's step moves the guard, and with it Phase and Kind.       *)
(***************************************************************************)

\* An operation begins with the guard free, and its thread holds it from
\* then on.
LEMMA BeginFacts ==
    ASSUME TypeOK, GuardHeld, NEW w \in Mutators, NEW k, NEW t, NEW x,
           NEW next \in MutatorSteps \ {"idle"}, Begin(w, Op(k, t, x), next)
    PROVE  /\ GuardHeld' /\ Phase = "idle" /\ Kind = "none"
           /\ Phase' = next /\ Kind' = k /\ Target' = t
BY IdsAssumption DEF TypeOK, GuardHeld, Begin, Acquire, Op, Phase, Kind, Target

\* A later step is taken by the holder of the guard, which goes on with its
\* operation.
LEMMA GotoFacts ==
    ASSUME TypeOK, GuardHeld, NEW w \in Mutators,
           NEW from \in MutatorSteps \ {"idle"},
           NEW next \in MutatorSteps \ {"idle"}, Goto(w, from, next)
    PROVE  /\ GuardHeld' /\ Phase = from /\ Kind = wop[w].kind
           /\ Phase' = next /\ Kind' = Kind /\ Target' = Target
BY IdsAssumption DEF TypeOK, GuardHeld, Goto, Phase, Kind, Target

\* The return of an operation frees the guard.
LEMMA UnlockFacts ==
    ASSUME TypeOK, GuardHeld, NEW w \in Mutators, Unlock(w)
    PROVE  /\ GuardHeld' /\ Phase = "unlock"
           /\ Kind = wop[w].kind /\ Target = wop[w].target
           /\ Phase' = "idle" /\ Kind' = "none"
BY IdsAssumption DEF TypeOK, GuardHeld, Unlock, Phase, Kind, Target, MutatorSteps

(***************************************************************************)
(* Every operation, and every later step of it, keeps MutatorInv.          *)
(***************************************************************************)

\* block_account, replace_reason, invalidate_provenance and
\* unblock_account.
LEMMA AccountOperationsKeep ==
    ASSUME TypeOK, MutatorInv, NEW w \in Mutators, NEW id \in Accounts,
           \/ \E cause \in Causes : BlockAccount(w, id, cause)
           \/ \E cause \in OperatorCauses : ReplaceReason(w, id, cause)
           \/ \E token \in Tokens : InvalidateProvenance(w, id, token)
           \/ UnblockAccount(w, id)
    PROVE  MutatorInv'
<1> USE CausesAssumption DEF MutatorInv, StepKinds, AccountFlags, GroupFlags,
        GlobalFlags, SettledStored, AccountsEmpty, GroupsEmpty, AllKinds,
        LiftKinds, flags, Causes
<1>1. ASSUME NEW cause \in Causes, BlockAccount(w, id, cause)
      PROVE  MutatorInv'
  <2>1. /\ GuardHeld' /\ Phase = "idle" /\ Kind = "none"
        /\ Phase' = "store_any" /\ Kind' = "block_account" /\ Target' = id
    BY <1>1, BeginFacts DEF BlockAccount, MutatorSteps
  <2>2. /\ accounts'[id] # NoCause
        /\ \A a \in Accounts : accounts[a] # NoCause => accounts'[a] # NoCause
    BY <1>1 DEF BlockAccount, InsertIfAbsent, TypeOK
  <2>3. QED
    BY <1>1, <2>1, <2>2 DEF BlockAccount, TypeOK, history
<1>2. ASSUME NEW cause \in OperatorCauses, ReplaceReason(w, id, cause)
      PROVE  MutatorInv'
  <2>1. /\ GuardHeld' /\ Phase = "idle" /\ Kind = "none"
        /\ Phase' = "unlock" /\ Kind' = "replace_reason" /\ Target' = id
    BY <1>2, BeginFacts DEF ReplaceReason, MutatorSteps
  <2>2. \A a \in Accounts : accounts[a] # NoCause <=> accounts'[a] # NoCause
    BY <1>2 DEF ReplaceReason, TypeOK
  <2>3. QED
    BY <1>2, <2>1, <2>2 DEF ReplaceReason, TypeOK, history
<1>3. ASSUME NEW token \in Tokens, InvalidateProvenance(w, id, token)
      PROVE  MutatorInv'
  <2>1. /\ GuardHeld' /\ Phase = "idle" /\ Kind = "none"
        /\ Phase' = IF accounts[id] = token THEN "probe_accounts" ELSE "unlock"
        /\ Kind' = "invalidate_provenance" /\ Target' = id
    BY <1>3, BeginFacts DEF InvalidateProvenance, MutatorSteps
  <2>2. \A a \in Accounts \ {id} : accounts'[a] = accounts[a]
    BY <1>3 DEF InvalidateProvenance, TypeOK
  <2>3. QED
    BY <1>3, <2>1, <2>2 DEF InvalidateProvenance, TypeOK
<1>4. CASE UnblockAccount(w, id)
  <2>1. /\ GuardHeld' /\ Phase = "idle" /\ Kind = "none"
        /\ Phase' = "probe_accounts" /\ Kind' = "unblock_account"
        /\ Target' = id
    BY <1>4, BeginFacts DEF UnblockAccount, MutatorSteps
  <2>2. \A a \in Accounts : accounts'[a] = IF a = id THEN NoCause
                                           ELSE accounts[a]
    BY <1>4 DEF UnblockAccount, TypeOK
  <2>3. QED
    BY <1>4, <2>1, <2>2 DEF UnblockAccount, TypeOK
<1>5. QED
  BY <1>1, <1>2, <1>3, <1>4

\* block_all, with and without a cause, and unblock_all.
LEMMA GlobalOperationsKeep ==
    ASSUME TypeOK, MutatorInv, NEW w \in Mutators,
           \/ \E cause \in OperatorCauses : BlockAllWithCause(w, cause)
           \/ BlockAll(w)
           \/ UnblockAll(w)
    PROVE  MutatorInv'
<1> USE CausesAssumption DEF MutatorInv, StepKinds, AccountFlags, GroupFlags,
        GlobalFlags, SettledStored, AccountsEmpty, GroupsEmpty, AllKinds,
        LiftKinds, flags, maps, TypeOK
<1>1. ASSUME NEW cause \in OperatorCauses, BlockAllWithCause(w, cause)
      PROVE  MutatorInv'
  <2>1. /\ GuardHeld' /\ Phase = "idle" /\ Kind = "none"
        /\ Phase' = "store_any" /\ Kind' = "block_all_with_cause"
    BY <1>1, BeginFacts DEF BlockAllWithCause, MutatorSteps
  <2>2. QED
    BY <1>1, <2>1 DEF BlockAllWithCause, history
<1>2. CASE BlockAll(w)
  <2>1. /\ GuardHeld' /\ Phase = "idle" /\ Kind = "none"
        /\ Phase' = "store_all" /\ Kind' = "block_all"
    BY <1>2, BeginFacts DEF BlockAll, MutatorSteps
  <2>2. QED
    BY <1>2, <2>1 DEF BlockAll, history
<1>3. CASE UnblockAll(w)
  <2>1. /\ GuardHeld' /\ Phase = "idle" /\ Kind = "none"
        /\ Phase' = "clear_all" /\ Kind' = "unblock_all"
    BY <1>3, BeginFacts DEF UnblockAll, MutatorSteps
  <2>2. QED
    BY <1>3, <2>1 DEF UnblockAll
<1>4. QED
  BY <1>1, <1>2, <1>3

\* block_group, replace_group_reason and unblock_group.
LEMMA GroupOperationsKeep ==
    ASSUME TypeOK, MutatorInv, NEW w \in Mutators, NEW g \in Groups,
           \/ \E cause \in OperatorCauses : \/ BlockGroup(w, g, cause)
                                            \/ ReplaceGroupReason(w, g, cause)
           \/ UnblockGroup(w, g)
    PROVE  MutatorInv'
<1> USE CausesAssumption DEF MutatorInv, StepKinds, AccountFlags, GroupFlags,
        GlobalFlags, SettledStored, AccountsEmpty, GroupsEmpty, AllKinds,
        LiftKinds, flags, Causes
<1>1. ASSUME NEW cause \in OperatorCauses, BlockGroup(w, g, cause)
      PROVE  MutatorInv'
  <2>1. /\ GuardHeld' /\ Phase = "idle" /\ Kind = "none"
        /\ Phase' = "store_groups" /\ Kind' = "block_group" /\ Target' = g
    BY <1>1, BeginFacts DEF BlockGroup, MutatorSteps
  <2>2. /\ blocked_groups'[g] # NoCause
        /\ \A h \in Groups : blocked_groups[h] # NoCause =>
                             blocked_groups'[h] # NoCause
    BY <1>1 DEF BlockGroup, InsertIfAbsent, TypeOK
  <2>3. QED
    BY <1>1, <2>1, <2>2 DEF BlockGroup, TypeOK, history
<1>2. ASSUME NEW cause \in OperatorCauses, ReplaceGroupReason(w, g, cause)
      PROVE  MutatorInv'
  <2>1. /\ GuardHeld' /\ Phase = "idle" /\ Kind = "none"
        /\ Phase' = "unlock" /\ Kind' = "replace_group_reason"
    BY <1>2, BeginFacts DEF ReplaceGroupReason, MutatorSteps
  <2>2. \A h \in Groups : blocked_groups[h] # NoCause <=>
                          blocked_groups'[h] # NoCause
    BY <1>2 DEF ReplaceGroupReason, TypeOK
  <2>3. QED
    BY <1>2, <2>1, <2>2 DEF ReplaceGroupReason, TypeOK, history
<1>3. CASE UnblockGroup(w, g)
  <2>1. /\ GuardHeld' /\ Phase = "idle" /\ Kind = "none"
        /\ Phase' = "probe_groups" /\ Kind' = "unblock_group"
    BY <1>3, BeginFacts DEF UnblockGroup, MutatorSteps
  <2>2. \A h \in Groups : blocked_groups'[h] = IF h = g THEN NoCause
                                               ELSE blocked_groups[h]
    BY <1>3 DEF UnblockGroup, TypeOK
  <2>3. QED
    BY <1>3, <2>1, <2>2 DEF UnblockGroup, TypeOK
<1>4. QED
  BY <1>1, <1>2, <1>3

\* The flag stores, the probes and the return of an operation.
LEMMA StepsKeep ==
    ASSUME TypeOK, MutatorInv, NEW w \in Mutators,
           \/ StoreAny(w) \/ StoreAll(w) \/ ClearAll(w) \/ ProbeAccounts(w)
           \/ ClearAny(w) \/ StoreGroups(w) \/ ProbeGroups(w) \/ ClearGroups(w)
           \/ Unlock(w)
    PROVE  MutatorInv'
<1> USE DEF MutatorInv, StepKinds, AccountFlags, GroupFlags, GlobalFlags,
        SettledStored, AccountsEmpty, GroupsEmpty, AllKinds, LiftKinds,
        flags, maps, TypeOK
<1>1. CASE StoreAny(w)
  <2>1. /\ GuardHeld' /\ Phase = "store_any"
        /\ Phase' = IF Kind = "block_account" THEN "unlock" ELSE "store_all"
        /\ Kind' = Kind /\ Target' = Target
    BY <1>1, GotoFacts DEF StoreAny, MutatorSteps
  <2>2. QED
    BY <1>1, <2>1 DEF StoreAny, history
<1>2. CASE StoreAll(w)
  <2>1. /\ GuardHeld' /\ Phase = "store_all" /\ Phase' = "unlock"
        /\ Kind' = Kind /\ Target' = Target
    BY <1>2, GotoFacts DEF StoreAll, MutatorSteps
  <2>2. QED
    BY <1>2, <2>1 DEF StoreAll, history
<1>3. CASE ClearAll(w)
  <2>1. /\ GuardHeld' /\ Phase = "clear_all" /\ Phase' = "probe_accounts"
        /\ Kind' = Kind /\ Target' = Target
    BY <1>3, GotoFacts DEF ClearAll, MutatorSteps
  <2>2. QED
    BY <1>3, <2>1 DEF ClearAll, history
<1>4. CASE ProbeAccounts(w)
  <2>1. /\ GuardHeld' /\ Phase = "probe_accounts"
        /\ Phase' = IF ProbeClear THEN "clear_any" ELSE "unlock"
        /\ Kind' = Kind /\ Target' = Target
    BY <1>4, GotoFacts DEF ProbeAccounts, MutatorSteps
  <2>2. QED
    BY <1>4, <2>1 DEF ProbeAccounts, ProbeClear, history
<1>5. CASE ClearAny(w)
  <2>1. /\ GuardHeld' /\ Phase = "clear_any" /\ Phase' = "unlock"
        /\ Kind' = Kind /\ Target' = Target
    BY <1>5, GotoFacts DEF ClearAny, MutatorSteps
  <2>2. QED
    BY <1>5, <2>1 DEF ClearAny, history
<1>6. CASE StoreGroups(w)
  <2>1. /\ GuardHeld' /\ Phase = "store_groups" /\ Phase' = "unlock"
        /\ Kind' = Kind /\ Target' = Target
    BY <1>6, GotoFacts DEF StoreGroups, MutatorSteps
  <2>2. QED
    BY <1>6, <2>1 DEF StoreGroups, history
<1>7. CASE ProbeGroups(w)
  <2>1. /\ GuardHeld' /\ Phase = "probe_groups"
        /\ Phase' = IF GroupsEmpty THEN "clear_groups" ELSE "unlock"
        /\ Kind' = Kind /\ Target' = Target
    BY <1>7, GotoFacts DEF ProbeGroups, MutatorSteps
  <2>2. QED
    BY <1>7, <2>1 DEF ProbeGroups, history
<1>8. CASE ClearGroups(w)
  <2>1. /\ GuardHeld' /\ Phase = "clear_groups" /\ Phase' = "unlock"
        /\ Kind' = Kind /\ Target' = Target
    BY <1>8, GotoFacts DEF ClearGroups, MutatorSteps
  <2>2. QED
    BY <1>8, <2>1 DEF ClearGroups, history
<1>9. CASE Unlock(w)
  <2>1. /\ GuardHeld' /\ Phase = "unlock" /\ Phase' = "idle" /\ Kind' = "none"
        /\ Kind = wop[w].kind /\ Target = wop[w].target
    BY <1>9, UnlockFacts
  <2>2. QED
    BY <1>9, <2>1 DEF Unlock
<1>10. QED
  BY <1>1, <1>2, <1>3, <1>4, <1>5, <1>6, <1>7, <1>8, <1>9

(***************************************************************************)
(* The checks and the registry leave the mutators' state alone.            *)
(***************************************************************************)

\* MutatorInv is about the maps, the flags, the guard and the settled
\* blocks only.
LEMMA SharedKeeps ==
    ASSUME MutatorInv, UNCHANGED <<guard, flags, maps, wpc, wop, settled>>
    PROVE  MutatorInv'
BY DEF MutatorInv, GuardHeld, StepKinds, AccountFlags, GroupFlags, GlobalFlags,
       SettledStored, AccountsEmpty, GroupsEmpty, Phase, Kind, Target, flags,
       maps, settled

(***************************************************************************)
(* A check in flight survives every step of the others: what it holds is   *)
(* only ever narrowed to what is still in force.                           *)
(***************************************************************************)

\* A lifted block or a changed membership leaves no check expecting it.
LEMMA WitnessKeeps ==
    ASSUME TypeOK, CheckInv, Witness, UNCHANGED locals,
           \A a \in Accounts : memberships[a] \in settledGroups =>
               \/ memberships'[a] = memberships[a]
               \/ memberships'[a] \notin settledGroups'
    PROVE  CheckInv'
<1> DEFINE now(c) == SourcesOf(caccount[c], settledAccounts', settledGroups',
                               settledAll', memberships')
<1>1. \A c \in Checkers : held'[c] = held[c] \cap now(c)
  BY DEF Witness
<1>2. HeldInForce'
  BY <1>1 DEF HeldInForce, locals
<1>3. \A c \in Checkers :
          cpc[c] = "blocked_groups" /\ "group" \in held'[c] =>
              cgroup[c] = memberships'[caccount[c]]
  <2> SUFFICES ASSUME NEW c \in Checkers, cpc[c] = "blocked_groups",
                      "group" \in held'[c]
               PROVE  cgroup[c] = memberships'[caccount[c]]
    OBVIOUS
  <2>1. "group" \in held[c] /\ "group" \in now(c)
    BY <1>1
  <2>2. caccount[c] \in Accounts /\ cgroup[c] = memberships[caccount[c]]
    BY <2>1 DEF CheckInv, CheckOnTrack, OnTrack
  <2>3. /\ memberships[caccount[c]] \in settledGroups
        /\ memberships'[caccount[c]] \in settledGroups'
    BY <2>1, <2>2, IdsAssumption DEF CheckInv, HeldInForce, SourcesOf
  <2>4. QED
    BY <2>2, <2>3
<1>4. CheckOnTrack'
  BY <1>1, <1>3 DEF CheckInv, CheckOnTrack, OnTrack, locals
<1>5. QED
  BY <1>2, <1>4 DEF CheckInv

\* A block that settles makes no check expect more.
LEMMA GrowthKeeps ==
    ASSUME TypeOK, CheckInv, UNCHANGED <<locals, memberships, held, covered>>,
           settledAccounts \subseteq settledAccounts',
           settledGroups \subseteq settledGroups',
           settledAll => settledAll'
    PROVE  CheckInv'
<1>1. HeldInForce'
  BY DEF CheckInv, HeldInForce, SourcesOf, locals
<1>2. QED
  BY <1>1 DEF CheckInv, CheckOnTrack, OnTrack, locals

\* No step of a mutator misleads a check in flight.
LEMMA MutatorKeepsChecks ==
    ASSUME TypeOK, CheckInv, NEW w \in Mutators, MutatorNext(w)
    PROVE  CheckInv'
<1>1. /\ UNCHANGED <<locals, memberships>>
      /\ \/ Witness
         \/ /\ UNCHANGED <<held, covered>>
            /\ settledAccounts \subseteq settledAccounts'
            /\ settledGroups \subseteq settledGroups'
            /\ settledAll => settledAll'
  <2>1. CASE \E id \in Accounts :
                \/ \E cause \in Causes : BlockAccount(w, id, cause)
                \/ \E cause \in OperatorCauses : ReplaceReason(w, id, cause)
                \/ \E token \in Tokens : InvalidateProvenance(w, id, token)
                \/ UnblockAccount(w, id)
    BY <2>1 DEF BlockAccount, ReplaceReason, InvalidateProvenance,
                UnblockAccount, history
  <2>2. CASE \/ \E cause \in OperatorCauses : BlockAllWithCause(w, cause)
             \/ BlockAll(w)
             \/ UnblockAll(w)
    BY <2>2 DEF BlockAllWithCause, BlockAll, UnblockAll, history
  <2>3. CASE \E g \in Groups :
                \/ \E cause \in OperatorCauses :
                      \/ BlockGroup(w, g, cause)
                      \/ ReplaceGroupReason(w, g, cause)
                \/ UnblockGroup(w, g)
    BY <2>3 DEF BlockGroup, ReplaceGroupReason, UnblockGroup, history
  <2>4. CASE \/ StoreAny(w) \/ StoreAll(w) \/ ClearAll(w) \/ ProbeAccounts(w)
             \/ ClearAny(w) \/ StoreGroups(w) \/ ProbeGroups(w)
             \/ ClearGroups(w)
    BY <2>4 DEF StoreAny, StoreAll, ClearAll, ProbeAccounts, ClearAny,
                StoreGroups, ProbeGroups, ClearGroups, history
  <2>5. CASE Unlock(w)
    BY <2>5 DEF Unlock
  <2>6. QED
    BY <2>1, <2>2, <2>3, <2>4, <2>5 DEF MutatorNext
<1>2. CASE Witness
  BY <1>1, <1>2, WitnessKeeps
<1>3. CASE ~Witness
  BY <1>1, <1>3, GrowthKeeps
<1>4. QED
  BY <1>2, <1>3

\* Nor does a change of the group registry.
LEMMA RegistryKeepsChecks ==
    ASSUME TypeOK, CheckInv, RegistryNext
    PROVE  CheckInv'
<1>1. Witness /\ UNCHANGED <<locals, settled>>
  BY DEF RegistryNext, RegisterGroup, UnregisterGroup, RetireAccount
<1>2. \A a \in Accounts : memberships[a] \in settledGroups =>
          \/ memberships'[a] = memberships[a]
          \/ memberships'[a] \notin settledGroups'
  <2>1. ASSUME NEW S \in SUBSET Accounts, NEW g \in Groups,
               RegisterGroup(S, g) \/ UnregisterGroup(S, g)
        PROVE  <1>2!:
    BY <1>1, <2>1, IdsAssumption DEF RegisterGroup, UnregisterGroup, TypeOK, settled
  <2>2. ASSUME NEW b \in Accounts, RetireAccount(b)
        PROVE  <1>2!:
    BY <1>1, <2>2, IdsAssumption DEF RetireAccount, TypeOK, settled
  <2>3. QED
    BY <2>1, <2>2 DEF RegistryNext
<1>3. QED
  BY <1>1, <1>2, WitnessKeeps

(***************************************************************************)
(* The check's own steps.  Here the flags and the maps meet: a settled     *)
(* block is announced by its flag (SettledStored, GlobalFlags), so the     *)
(* load sees it, and stored under its key, so the lookup finds it.         *)
(***************************************************************************)

\* A step of one check leaves the others on track.
LEMMA OthersUntouched ==
    ASSUME TypeOK, CheckInv, NEW c \in Checkers, UNCHANGED <<memberships, settled>>,
           \A d \in Checkers \ {c} :
               /\ cpc'[d] = cpc[d] /\ caccount'[d] = caccount[d]
               /\ all_blocking'[d] = all_blocking[d]
               /\ account_blocking'[d] = account_blocking[d]
               /\ group_blocking'[d] = group_blocking[d]
               /\ cgroup'[d] = cgroup[d] /\ verdict'[d] = verdict[d]
               /\ held'[d] = held[d],
           held'[c] \subseteq SourcesOf(caccount'[c], settledAccounts,
                                 settledGroups, settledAll, memberships),
           OnTrack(c)'
    PROVE  CheckInv'
<1>1. HeldInForce'
  BY DEF CheckInv, HeldInForce, settled
<1>2. CheckOnTrack'
  BY DEF CheckInv, CheckOnTrack, OnTrack
<1>3. QED
  BY <1>1, <1>2 DEF CheckInv

\* Each read of a check leaves it on track.
LEMMA CheckerKeepsChecks ==
    ASSUME IInv, NEW c \in Checkers, CheckerNext(c)
    PROVE  CheckInv'
<1> USE DEF IInv, TypeOK, Shared
<1>a. /\ "all" \in held[c] => all_flag
      /\ "account" \in held[c] =>
            /\ any_flag
            /\ caccount[c] # NoAccount => accounts[caccount[c]] # NoCause
      /\ "group" \in held[c] =>
            /\ blocked_groups_any_flag
            /\ caccount[c] # NoAccount =>
                  /\ memberships[caccount[c]] \in Groups
                  /\ blocked_groups[memberships[caccount[c]]] # NoCause
  BY DEF CheckInv, HeldInForce, SourcesOf, MutatorInv, SettledStored, GlobalFlags
<1>b. /\ held[c] \subseteq SourcesOf(caccount[c], settledAccounts,
                                     settledGroups, settledAll, memberships)
      /\ held[c] \subseteq {"account", "group", "all"}
      /\ OnTrack(c)
      /\ TypeOK /\ CheckInv
  BY DEF CheckInv, HeldInForce, CheckOnTrack, SourceKinds
<1>c. NoAccount \notin Accounts /\ NoGroup \notin Groups
  BY IdsAssumption
<1> HIDE DEF IInv
<1>1. ASSUME NEW a \in Accounts \cup {NoAccount}, CallCheck(c, a)
      PROVE  CheckInv'
  <2>1. OnTrack(c)'
    BY <1>1, <1>b DEF CallCheck, OnTrack
  <2>2. QED
    BY <1>1, <1>b, <2>1, OthersUntouched DEF CallCheck
<1>2. CASE LoadAll(c)
  <2>1. OnTrack(c)'
    BY <1>2, <1>a, <1>b DEF LoadAll, Continue, OnTrack
  <2>2. QED
    BY <1>2, <1>b, <2>1, OthersUntouched DEF LoadAll, Continue
<1>3. CASE LoadAny(c)
  <2>1. OnTrack(c)'
    BY <1>3, <1>a, <1>b DEF LoadAny, Continue, OnTrack
  <2>2. QED
    BY <1>3, <1>b, <2>1, OthersUntouched DEF LoadAny, Continue
<1>4. CASE LoadGroups(c)
  <2>1. OnTrack(c)'
    BY <1>4, <1>a, <1>b DEF LoadGroups, Continue, Return, OnTrack
  <2>2. QED
    BY <1>4, <1>b, <2>1, OthersUntouched DEF LoadGroups, Continue, Return
<1>5. CASE LookupAccounts(c)
  <2>1. OnTrack(c)'
    BY <1>5, <1>a, <1>b, <1>c
       DEF LookupAccounts, GlobalOrAdmit, Continue, Return, OnTrack
  <2>2. QED
    BY <1>5, <1>b, <2>1, OthersUntouched
       DEF LookupAccounts, GlobalOrAdmit, Continue, Return
<1>6. CASE GroupOf(c)
  <2>1. OnTrack(c)'
    BY <1>6, <1>a, <1>b, <1>c
       DEF GroupOf, GlobalOrAdmit, Continue, Return, OnTrack
  <2>2. QED
    BY <1>6, <1>b, <2>1, OthersUntouched
       DEF GroupOf, GlobalOrAdmit, Continue, Return
<1>7. CASE LookupGroups(c)
  <2>1. OnTrack(c)'
    BY <1>7, <1>a, <1>b, <1>c
       DEF LookupGroups, GlobalOrAdmit, Continue, Return, OnTrack
  <2>2. QED
    BY <1>7, <1>b, <2>1, OthersUntouched
       DEF LookupGroups, GlobalOrAdmit, Continue, Return
<1>8. CASE LookupGlobal(c)
  <2>1. OnTrack(c)'
    BY <1>8, <1>b DEF LookupGlobal, Return, OnTrack
  <2>2. QED
    BY <1>8, <1>b, <2>1, OthersUntouched DEF LookupGlobal, Return
<1>9. CASE Finish(c)
  <2>1. OnTrack(c)'
    BY <1>9, <1>b DEF Finish, OnTrack
  <2>2. QED
    BY <1>9, <1>b, <2>1, OthersUntouched DEF Finish
<1>10. QED
  BY <1>1, <1>2, <1>3, <1>4, <1>5, <1>6, <1>7, <1>8, <1>9 DEF CheckerNext

(***************************************************************************)
(* The invariant is inductive.                                             *)
(***************************************************************************)

\* The invariant holds of a new blocked set.
LEMMA InitInv == Init => IInv
<1> SUFFICES ASSUME Init PROVE IInv
  OBVIOUS
<1>1. TypeOK
  BY InitType
<1>2. Phase = "idle" /\ Kind = "none"
  BY IdsAssumption DEF Init, Phase, Kind
<1>3. MutatorInv
  BY <1>2, IdsAssumption
     DEF Init, MutatorInv, GuardHeld, StepKinds, AccountFlags, GroupFlags,
         GlobalFlags, SettledStored, AccountsEmpty, GroupsEmpty, AllKinds
<1>4. CheckInv
  BY DEF Init, CheckInv, HeldInForce, CheckOnTrack, OnTrack
<1>5. QED
  BY <1>1, <1>3, <1>4 DEF IInv

\* Every step of a mutator, of a check or of the registry keeps the
\* invariant.
LEMMA NextInv == IInv /\ [Next]_vars => IInv'
<1> SUFFICES ASSUME IInv, [Next]_vars PROVE IInv'
  OBVIOUS
<1> USE DEF IInv
<1>1. ASSUME NEW w \in Mutators, MutatorNext(w)
      PROVE  IInv'
  <2>1. TypeOK' /\ MutatorInv'
    <3>1. CASE \E id \in Accounts :
                  \/ \E cause \in Causes : BlockAccount(w, id, cause)
                  \/ \E cause \in OperatorCauses : ReplaceReason(w, id, cause)
                  \/ \E token \in Tokens : InvalidateProvenance(w, id, token)
                  \/ UnblockAccount(w, id)
      BY <3>1, OperationsType, AccountOperationsKeep
    <3>2. CASE \/ \E cause \in OperatorCauses : BlockAllWithCause(w, cause)
               \/ BlockAll(w)
               \/ UnblockAll(w)
      BY <3>2, OperationsType, GlobalOperationsKeep
    <3>3. CASE \E g \in Groups :
                  \/ \E cause \in OperatorCauses :
                        \/ BlockGroup(w, g, cause)
                        \/ ReplaceGroupReason(w, g, cause)
                  \/ UnblockGroup(w, g)
      BY <3>3, OperationsType, GroupOperationsKeep
    <3>4. CASE \/ StoreAny(w) \/ StoreAll(w) \/ ClearAll(w) \/ ProbeAccounts(w)
               \/ ClearAny(w) \/ StoreGroups(w) \/ ProbeGroups(w)
               \/ ClearGroups(w) \/ Unlock(w)
      BY <3>4, StepsType, StepsKeep DEF MutatorInv
    <3>5. QED
      BY <1>1, <3>1, <3>2, <3>3, <3>4 DEF MutatorNext
  <2>2. QED
    BY <1>1, <2>1, MutatorKeepsChecks
<1>2. ASSUME NEW c \in Checkers, CheckerNext(c)
      PROVE  IInv'
  <2>1. UNCHANGED <<guard, flags, maps, wpc, wop, settled>>
    BY <1>2 DEF CheckerNext, CallCheck, LoadAll, LoadAny, LoadGroups,
                LookupAccounts, GroupOf, LookupGroups, LookupGlobal, Finish,
                Shared
  <2>2. TypeOK'
    BY <1>2, CheckerType DEF CheckInv
  <2>3. QED
    BY <1>2, <2>1, <2>2, SharedKeeps, CheckerKeepsChecks
<1>3. CASE RegistryNext
  <2>1. UNCHANGED <<guard, flags, maps, wpc, wop, settled>>
    BY <1>3 DEF RegistryNext, RegisterGroup, UnregisterGroup, RetireAccount
  <2>2. QED
    BY <1>3, <2>1, RegistryType, SharedKeeps, RegistryKeepsChecks
<1>4. CASE UNCHANGED vars
  <2>1. UNCHANGED <<guard, flags, maps, wpc, wop, settled>>
    BY <1>4 DEF vars, flags, maps, settled
  <2>2. TypeOK'
    BY <1>4 DEF vars, TypeOK
  <2>3. CheckInv'
    BY <1>4, GrowthKeeps DEF vars, locals
  <2>4. QED
    BY <2>1, <2>2, <2>3, SharedKeeps
<1>5. QED
  BY <1>1, <1>2, <1>3, <1>4 DEF Next

\* The invariant holds in every behaviour.
LEMMA Invariance == Spec => []IInv
<1>1. Init => IInv
  BY InitInv
<1>2. IInv /\ [Next]_vars => IInv'
  BY NextInv
<1>3. QED
  BY <1>1, <1>2, PTL DEF Spec

(***************************************************************************)
(* The theorems.                                                           *)
(***************************************************************************)

\* The maps, the flags, the threads and the history keep their types: an
\* operation that returns names the account or group it was called with.
THEOREM TypeCorrect == Spec => []TypeOK
<1>1. IInv => TypeOK
  BY DEF IInv
<1>2. QED
  BY <1>1, Invariance, PTL

\* Whenever no mutator is inside an operation, any_flag, all_flag and
\* blocked_groups_any_flag of BlockedAccounts are up exactly when there is
\* something for them to announce.
THEOREM FlagsAreExact == Spec => []FlagsExact
<1>1. IInv => FlagsExact
  <2> SUFFICES ASSUME IInv, guard = NoThread PROVE FlagsExact
    BY DEF FlagsExact
  <2>1. Phase = "idle"
    BY IdsAssumption DEF Phase
  <2>2. QED
    BY <2>1 DEF IInv, TypeOK, MutatorInv, AccountFlags, GroupFlags,
                GlobalFlags, FlagsExact
<1>2. QED
  BY <1>1, Invariance, PTL

\* BlockedAccounts::check, which takes no lock, never admits a request past a
\* block that was recorded before it began and that nobody lifts meanwhile,
\* for any number of mutators and checks.
THEOREM BlocksAreNeverMissed == Spec => []NoMissedBlock
<1>1. IInv => NoMissedBlock
  BY DEF IInv, CheckInv, CheckOnTrack, OnTrack, NoMissedBlock
<1>2. QED
  BY <1>1, Invariance, PTL

\* The cause stored for an account changes only by an operator's unblock or
\* replacement of that account, or when the assertion it names is rolled back.
THEOREM CausesAreOwned == Spec => CauseOwnership
<1>1. TypeOK /\ [Next]_vars => [KeepsCauses]_vars
  <2> SUFFICES ASSUME TypeOK, Next, NEW a \in Accounts,
                      accounts[a] # NoCause, accounts'[a] # accounts[a]
               PROVE  /\ guard' \in Mutators
                      /\ wop'[guard'].target = a
                      /\ \/ wop'[guard'].kind \in {"unblock_account",
                                                   "replace_reason"}
                         \/ /\ wop'[guard'].kind = "invalidate_provenance"
                            /\ accounts[a] = wop'[guard'].cause
                            /\ accounts[a] \in Tokens
    BY DEF KeepsCauses
  <2>1. PICK w \in Mutators, id \in Accounts :
            \/ \E cause \in Causes : BlockAccount(w, id, cause)
            \/ \E cause \in OperatorCauses : ReplaceReason(w, id, cause)
            \/ \E token \in Tokens : InvalidateProvenance(w, id, token)
            \/ UnblockAccount(w, id)
    <3>1. ASSUME NEW w \in Mutators, MutatorNext(w)
          PROVE  \E id \in Accounts :
                    \/ \E cause \in Causes : BlockAccount(w, id, cause)
                    \/ \E cause \in OperatorCauses : ReplaceReason(w, id, cause)
                    \/ \E token \in Tokens : InvalidateProvenance(w, id, token)
                    \/ UnblockAccount(w, id)
      BY <3>1 DEF MutatorNext, BlockAllWithCause, BlockAll, UnblockAll,
                  BlockGroup, ReplaceGroupReason, UnblockGroup, StoreAny,
                  StoreAll, ClearAll, ProbeAccounts, ClearAny, StoreGroups,
                  ProbeGroups, ClearGroups, Unlock, maps
    <3>2. ~ \E c \in Checkers : CheckerNext(c)
      BY DEF CheckerNext, CallCheck, LoadAll, LoadAny, LoadGroups,
             LookupAccounts, GroupOf, LookupGroups, LookupGlobal, Finish,
             Shared, maps
    <3>3. ~RegistryNext
      BY DEF RegistryNext, RegisterGroup, UnregisterGroup, RetireAccount, maps
    <3>4. QED
      BY <3>1, <3>2, <3>3 DEF Next
  <2>2. CASE \E cause \in Causes : BlockAccount(w, id, cause)
    BY <2>2 DEF BlockAccount, InsertIfAbsent, TypeOK
  <2>3. CASE \E cause \in OperatorCauses : ReplaceReason(w, id, cause)
    BY <2>3 DEF ReplaceReason, Begin, Acquire, Op, TypeOK
  <2>4. CASE \E token \in Tokens : InvalidateProvenance(w, id, token)
    BY <2>4 DEF InvalidateProvenance, Begin, Acquire, Op, TypeOK
  <2>5. CASE UnblockAccount(w, id)
    BY <2>5 DEF UnblockAccount, Begin, Acquire, Op, TypeOK
  <2>6. QED
    BY <2>1, <2>2, <2>3, <2>4, <2>5
<1>2. QED
  BY <1>1, TypeCorrect, PTL DEF Spec, CauseOwnership

-----------------------------------------------------------------------------
(* Market data: ids stay, and a read follows lifetimes in force during it *)

(* FirstSet is the least tier that is set, and None when none is.          *)
LEMMA FirstIs ==
    ASSUME NEW seq, NEW n \in DOMAIN seq, DOMAIN seq \subseteq Nat, seq[n] # None,
           \A i \in DOMAIN seq : seq[i] # None => n <= i
    PROVE  FirstSet(seq) = seq[n]
<1> DEFINE hits == {i \in DOMAIN seq : seq[i] # None}
<1>1. n \in hits /\ \A j \in hits : n <= j
  OBVIOUS
<1>2. \A i \in hits : (\A j \in hits : i <= j) => i = n
  BY <1>1
<1>3. (CHOOSE i \in hits : \A j \in hits : i <= j) = n
  BY <1>1, <1>2
<1> QED BY <1>1, <1>3 DEF FirstSet

LEMMA FirstOfNone ==
    ASSUME NEW seq, \A i \in DOMAIN seq : seq[i] = None
    PROVE  FirstSet(seq) = None
  BY DEF FirstSet

(* The first of two, of three and of four tiers that is set.               *)
LEMMA First2 ==
    ASSUME NEW a, NEW b
    PROVE  FirstSet(<<a, b>>) = IF a # None THEN a ELSE b
<1> DEFINE seq == <<a, b>>
<1>1. DOMAIN seq = {1, 2} /\ seq[1] = a /\ seq[2] = b
  OBVIOUS
<1> HIDE DEF seq
<1>2. CASE a # None
  BY <1>1, <1>2, FirstIs DEF seq
<1>3. CASE a = None /\ b # None
  BY <1>1, <1>3, FirstIs DEF seq
<1>4. CASE a = None /\ b = None
  BY <1>1, <1>4, FirstOfNone DEF seq
<1> QED BY <1>2, <1>3, <1>4

LEMMA First3 ==
    ASSUME NEW a, NEW b, NEW c
    PROVE  FirstSet(<<a, b, c>>) = IF a # None THEN a ELSE IF b # None THEN b ELSE c
<1> DEFINE seq == <<a, b, c>>
<1>1. DOMAIN seq = {1, 2, 3} /\ seq[1] = a /\ seq[2] = b /\ seq[3] = c
  OBVIOUS
<1> HIDE DEF seq
<1>2. CASE a # None
  BY <1>1, <1>2, FirstIs DEF seq
<1>3. CASE a = None /\ b # None
  BY <1>1, <1>3, FirstIs DEF seq
<1>4. CASE a = None /\ b = None /\ c # None
  BY <1>1, <1>4, FirstIs DEF seq
<1>5. CASE a = None /\ b = None /\ c = None
  BY <1>1, <1>5, FirstOfNone DEF seq
<1> QED BY <1>2, <1>3, <1>4, <1>5

LEMMA First4 ==
    ASSUME NEW a, NEW b, NEW c, NEW d
    PROVE  FirstSet(<<a, b, c, d>>) =
               IF a # None THEN a ELSE IF b # None THEN b
               ELSE IF c # None THEN c ELSE d
<1> DEFINE seq == <<a, b, c, d>>
<1>1. /\ DOMAIN seq = {1, 2, 3, 4}
      /\ seq[1] = a /\ seq[2] = b /\ seq[3] = c /\ seq[4] = d
  OBVIOUS
<1> HIDE DEF seq
<1>2. CASE a # None
  BY <1>1, <1>2, FirstIs DEF seq
<1>3. CASE a = None /\ b # None
  BY <1>1, <1>3, FirstIs DEF seq
<1>4. CASE a = None /\ b = None /\ c # None
  BY <1>1, <1>4, FirstIs DEF seq
<1>5. CASE a = None /\ b = None /\ c = None /\ d # None
  BY <1>1, <1>5, FirstIs DEF seq
<1>6. CASE a = None /\ b = None /\ c = None /\ d = None
  BY <1>1, <1>6, FirstOfNone DEF seq
<1> QED BY <1>2, <1>3, <1>4, <1>5, <1>6

(* What the parts of the cascade and the choice of the quote return.       *)
LEMMA SlotParts ==
    ASSUME NEW slot \in Slots
    PROVE  /\ SlotCascade(slot) \in Ttls
           /\ Fallback(slot) \in Ttls \cup {DefaultTtl}
           /\ select_quote(slot) \in Quotes \cup {None}
  BY First2, First3 DEF SlotCascade, Fallback, select_quote, IfGrouped, Slots, Ttls,
                        SlotTiers, Buckets

LEMMA ServiceParts ==
    ASSUME NEW svc \in Services
    PROVE  GroupCascade(svc) \in Ttls
  BY First2 DEF GroupCascade, IfGrouped, Services, Ttls, ServiceTiers

(* The cascade, tier by tier, of one moment or of two.                     *)
LEMMA CascadeIs ==
    ASSUME NEW slot, NEW s1 \in Services, NEW s2 \in Services
    PROVE  effective_ttl(slot, Mixed(s1, s2)) =
               IF SlotCascade(slot) # None THEN SlotCascade(slot)
               ELSE IF s1["account"] # None THEN s1["account"]
               ELSE IF GroupCascade(s2) # None THEN GroupCascade(s2)
               ELSE Fallback(slot)
<1>1. Mixed(s1, s2)["account"] = s1["account"]
  BY DEF Mixed, Services, ServiceTiers
<1>2. GroupCascade(Mixed(s1, s2)) = GroupCascade(s2)
  BY DEF GroupCascade, Mixed, Services, ServiceTiers
<1> QED BY <1>1, <1>2, First4 DEF effective_ttl

LEMMA NoServiceParts ==
    NoService \in Services /\ NoService["account"] = None /\ GroupCascade(NoService) = None
  BY First2 DEF NoService, Services, ServiceTiers, Ttls, GroupCascade, IfGrouped

(* The automatic id: a set of ids that is not empty has a least one.       *)
LEMMA LeastId ==
    ASSUME NEW T, T \subseteq Nat, T # {}
    PROVE  \E x \in T : \A y \in T : x <= y
<1> DEFINE R == {ss \in Nat \X Nat : ss[1] < ss[2]}
<1>1. IsWellFoundedOn(R, Nat)
  BY NatLessThanWellFounded, Zenon DEF OpToRel
<1> HIDE DEF R
<1>2. PICK x \in T : \A y \in T : ~ (<<y, x>> \in R)
  BY <1>1, WFMin, Zenon
<1>3. ASSUME NEW y \in T, y < x PROVE FALSE
  <2>1. <<y, x>> \in Nat \X Nat /\ <<y, x>>[1] < <<y, x>>[2]
    BY <1>3
  <2>2. <<y, x>> \in R
    BY <2>1, Zenon DEF R
  <2> QED BY <1>2, <2>2
<1> QED BY <1>3

LEMMA AutoIdFree ==
    ASSUME MarketTypeOK, NEW id \in Ids, id >= next_auto_id, RoomFor(id)
    PROVE  AutoId \in Ids /\ by_id[AutoId] = None
<1> DEFINE T == {i \in Ids : i >= next_auto_id /\ by_id[i] = None}
<1>1. T \subseteq Nat /\ id \in T
  BY MarketDataAssumption DEF RoomFor
<1>2. PICK x \in T : \A y \in T : x <= y
  BY <1>1, LeastId
<1> QED BY <1>2 DEF AutoId

-------------------------------------------------------------------------------
(* What a step leaves alone *)

(* The registry only grows.                                                *)
Grown ==
    /\ \A i \in Instruments : by_instrument[i] # None => by_instrument'[i] = by_instrument[i]
    /\ \A id \in Ids : by_id[id] # None => by_id'[id] # None

(* What a thread has in hand stays, and so does what a reader looks at.    *)
Still(u) == pc'[u] = pc[u] /\ arg'[u] = arg[u] /\ answer'[u] = answer[u]

View(u) ==
    /\ u \in guards' <=> u \in guards
    /\ Len(slots) <= Len(slots')
    /\ gate => gate'
    /\ seen[u] \subseteq seen'[u]
    /\ u \in guards => /\ slots'[arg[u].slot] = slots[arg[u].slot]
                       /\ service' \in seen'[u]

LEMMA NamesKept ==
    ASSUME MarketTypeOK, Grown, NEW u \in Threads, Names(u), Still(u)
    PROVE  Names(u)'
<1>1. pc[u] = "named" => arg[u] \in NameArgs
  BY DEF MarketTypeOK, Carries
<1>2. pc[u] = "store" => arg[u] \in StoreArgs
  BY DEF MarketTypeOK, Carries
<1>3. answer[u].kind = "id" => answer[u].instrument \in Instruments /\ answer[u].id \in Ids
  BY DEF MarketTypeOK, Answers, Plain
<1>4. None \notin Ids
  BY MarketDataAssumption
<1>5. (pc[u] = "named" => /\ arg[u].id # None
                          /\ by_instrument[arg[u].instrument] = arg[u].id)'
  BY <1>1 DEF Names, Still, Grown, NameArgs
<1>6. (pc[u] = "store" =>
           /\ by_id[arg[u].id] # None
           /\ arg[u].named # None => by_instrument[arg[u].named] = arg[u].id)'
  BY <1>2, <1>4 DEF Names, Still, Grown, StoreArgs
<1>7. (answer[u].kind = "id" => by_instrument[answer[u].instrument] = answer[u].id)'
  BY <1>3, <1>4 DEF Names, Still, Grown
<1> QED BY <1>5, <1>6, <1>7 DEF Names

LEMMA ViewKept ==
    ASSUME MarketTypeOK, NEW u \in Threads, Sees(u), JudgedInForce(u), Still(u), View(u)
    PROVE  Sees(u)' /\ JudgedInForce(u)'
<1>1. Len(slots) \in Nat /\ (pc[u] \in ReadSteps => u \in guards)
  BY DEF MarketTypeOK, Sees
<1>2. pc[u] \in ReadSteps => arg'[u].slot \in 1..Len(slots') /\ service' \in seen'[u]
  BY <1>1 DEF Sees, View, Still
<1>3. Sees(u)'
  BY <1>1, <1>2 DEF Sees, View, Still, ReadSteps
<1>4. JudgedInForce(u)'
  <2>1. SUFFICES ASSUME pc[u] = "judge" PROVE JudgedInForce(u)'
    BY DEF JudgedInForce, Still
  <2>2. PICK s1, s2 \in seen[u] :
            /\ arg[u].ttl = effective_ttl(slots[arg[u].slot], Mixed(s1, s2))
            /\ OneMapChanged(seen[u]) => s1 = s2
    BY <2>1 DEF JudgedInForce, FoundInForce
  <2>3. s1 \in seen'[u] /\ s2 \in seen'[u]
    BY DEF View
  <2>4. OneMapChanged(seen'[u]) => OneMapChanged(seen[u])
    BY DEF OneMapChanged, View
  <2>5. arg'[u] = arg[u] /\ slots'[arg[u].slot] = slots[arg[u].slot]
    BY <1>1, <2>1 DEF View, Still, ReadSteps
  <2> QED BY <2>2, <2>3, <2>4, <2>5 DEF JudgedInForce, FoundInForce
<1> QED BY <1>3, <1>4

(* A new name takes a fresh id and a fresh slot.                           *)
LEMMA InsertKeeps ==
    ASSUME MarketTypeOK, Registered, NEW i \in Instruments, by_instrument[i] = None,
           NEW id \in Ids, by_id[id] = None, NEW auto \in BOOLEAN, Insert(i, id, auto)
    PROVE  /\ by_instrument' \in [Instruments -> Ids \cup {None}]
           /\ by_id' \in [Ids -> (1..Len(slots')) \cup {None}]
           /\ next_auto_id' \in Nat
           /\ slots' \in Seq(Slots)
           /\ Registered' /\ Grown
           /\ by_instrument'[i] = id /\ by_id'[id] # None
           /\ Len(slots) <= Len(slots')
           /\ \A s \in 1..Len(slots) : slots'[s] = slots[s]
           /\ UNCHANGED <<service, gate, guards>>
<1> DEFINE n == Len(slots)
<1>0. /\ id \in Nat /\ None \notin Ids /\ None \notin Nat
      /\ n \in Nat
  BY MarketDataAssumption DEF MarketTypeOK
<1>1. NewSlot \in Slots
  BY DEF NewSlot, Slots, Ttls
<1>2. /\ slots' \in Seq(Slots) /\ Len(slots') = n + 1
      /\ \A s \in 1..n : slots'[s] = slots[s]
  BY <1>1, AppendProperties DEF Insert, MarketTypeOK
<1>3. /\ by_instrument' \in [Instruments -> Ids \cup {None}]
      /\ by_instrument'[i] = id
      /\ \A j \in Instruments \ {i} : by_instrument'[j] = by_instrument[j]
  BY DEF Insert, MarketTypeOK
<1>4. /\ by_id'[id] = n + 1
      /\ \A k \in Ids \ {id} : by_id'[k] = by_id[k]
      /\ \A k \in Ids : by_id[k] \in (1..n) \cup {None}
  BY DEF Insert, MarketTypeOK
<1>5. by_id' \in [Ids -> (1..Len(slots')) \cup {None}]
  <2>1. by_id' = [k \in Ids |-> IF k = id THEN n + 1 ELSE by_id[k]]
    BY DEF Insert, MarketTypeOK
  <2>2. \A k \in Ids : by_id'[k] \in (1..(n + 1)) \cup {None}
    BY <1>0, <1>4
  <2> HIDE DEF n
  <2> QED BY <1>2, <2>1, <2>2
<1>6. next_auto_id' \in Nat
  BY <1>0 DEF Insert, MarketTypeOK
<1>7. Grown
  BY <1>0, <1>3, <1>4 DEF Grown
<1>8. Registered'
  <2>1. \A j \in Instruments : by_instrument'[j] # None => by_id'[by_instrument'[j]] # None
    <3> SUFFICES ASSUME NEW j \in Instruments, by_instrument'[j] # None
                 PROVE  by_id'[by_instrument'[j]] # None
      OBVIOUS
    <3>1. CASE j = i
      BY <1>0, <1>3, <1>4, <3>1
    <3>2. CASE j # i
      <4>1. by_instrument'[j] = by_instrument[j] /\ by_instrument[j] \in Ids
        BY <1>3, <3>2 DEF MarketTypeOK
      <4>2. by_id[by_instrument[j]] # None
        BY <4>1 DEF Registered
      <4> QED BY <1>0, <1>4, <4>1, <4>2
    <3> QED BY <3>1, <3>2
  <2>2. \A j, k \in Instruments :
            j # k /\ by_instrument'[j] # None => by_instrument'[j] # by_instrument'[k]
    BY <1>0, <1>3 DEF Registered, MarketTypeOK
  <2>3. \A j, k \in Ids : j # k /\ by_id'[j] # None => by_id'[j] # by_id'[k]
    BY <1>0, <1>4 DEF Registered
  <2> QED BY <2>1, <2>2, <2>3 DEF Registered
<1> QED
  BY <1>0, <1>2, <1>3, <1>4, <1>5, <1>6, <1>7, <1>8 DEF Insert

(* A step of one thread: what it owes beside what the others keep.         *)
LEMMA StepKeeps ==
    ASSUME MarketInv, NEW t \in Threads, MarketTypeOK', Registered', GateShut', Grown,
           \A u \in Threads \ {t} : Still(u) /\ View(u),
           Names(t)', Sees(t)', JudgedInForce(t)'
    PROVE  MarketInv'
<1>1. ASSUME NEW u \in Threads PROVE (Names(u) /\ Sees(u) /\ JudgedInForce(u))'
  BY <1>1, NamesKept, ViewKept DEF MarketInv
<1> QED BY <1>1 DEF MarketInv

(* A thread that does not read owes its names only.                        *)
LEMMA NotReading ==
    ASSUME NEW t, t \notin guards', pc'[t] \notin ReadSteps
    PROVE  Sees(t)' /\ JudgedInForce(t)'
  BY DEF Sees, JudgedInForce, ReadSteps

LEMMA SameRegistry ==
    ASSUME MarketInv, UNCHANGED registry
    PROVE  Registered' /\ Grown
  BY DEF MarketInv, Registered, Grown, registry

(* A call that is over in one lock section: the thread stays idle.         *)
LEMMA IdleCall ==
    ASSUME MarketInv, NEW t \in Threads, pc[t] = "idle", UNCHANGED <<pc, arg, guards>>,
           NEW a \in Answers, answer' = [answer EXCEPT ![t] = a],
           a.kind = "id" => by_instrument'[a.instrument] = a.id
    PROVE  /\ Names(t)' /\ Sees(t)' /\ JudgedInForce(t)'
           /\ \A u \in Threads \ {t} : Still(u)
           /\ answer' \in [Threads -> Answers]
<1>1. answer' \in [Threads -> Answers] /\ answer'[t] = a
  BY DEF MarketInv, MarketTypeOK
<1>2. \A u \in Threads \ {t} : Still(u)
  BY DEF MarketInv, MarketTypeOK, Still
<1>3. t \notin guards
  BY DEF MarketInv, Sees, ReadSteps
<1>4. Names(t)'
  BY <1>1 DEF Names
<1>5. Sees(t)' /\ JudgedInForce(t)'
  BY <1>3, NotReading DEF ReadSteps
<1> QED BY <1>1, <1>2, <1>4, <1>5

LEMMA PlainAnswer == Plain \in Answers /\ Plain.kind # "id"
  BY DEF Answers, Plain

LEMMA NamedAnswer ==
    ASSUME NEW i \in Instruments, NEW id \in Ids
    PROVE  /\ Named(i, id) \in Answers
           /\ Named(i, id).instrument = i /\ Named(i, id).id = id
  BY DEF Answers, Named

(* What the steps that do not touch the slots leave in view.               *)
LEMMA SameView ==
    ASSUME MarketInv, UNCHANGED <<slots, service, guards, seen>>, gate => gate',
           NEW u \in Threads
    PROVE  View(u)
  BY DEF MarketInv, MarketTypeOK, View, Sees

(* Registering by a free id, automatic or given.                           *)
LEMMA InsertStep ==
    ASSUME MarketInv, NEW t \in Threads, NEW i \in Instruments, NEW id \in Ids,
           NEW auto \in BOOLEAN, by_instrument[i] = None, by_id[id] = None,
           Insert(i, id, auto), pc[t] = "idle", calls' = calls + 1,
           answer' = [answer EXCEPT ![t] = Named(i, id)],
           UNCHANGED <<clock, pc, arg, seen>>
    PROVE  MarketInv'
<1>1. MarketTypeOK /\ Registered
  BY DEF MarketInv
<1>2. /\ by_instrument' \in [Instruments -> Ids \cup {None}]
      /\ by_id' \in [Ids -> (1..Len(slots')) \cup {None}]
      /\ next_auto_id' \in Nat /\ slots' \in Seq(Slots)
      /\ Registered' /\ Grown
      /\ by_instrument'[i] = id
      /\ Len(slots) <= Len(slots')
      /\ \A s \in 1..Len(slots) : slots'[s] = slots[s]
      /\ UNCHANGED <<service, gate, guards>>
  BY <1>1, InsertKeeps
<1>3. /\ Names(t)' /\ Sees(t)' /\ JudgedInForce(t)'
      /\ \A u \in Threads \ {t} : Still(u)
      /\ answer' \in [Threads -> Answers]
  <2>1. /\ Named(i, id) \in Answers
        /\ by_instrument'[Named(i, id).instrument] = Named(i, id).id
    BY <1>2, NamedAnswer
  <2> QED BY <1>2, <2>1, IdleCall
<1>4. MarketTypeOK'
  BY <1>1, <1>2, <1>3 DEF MarketTypeOK
<1>5. \A u \in Threads : View(u)
  BY <1>2 DEF View, MarketInv, Sees
<1>6. GateShut'
  BY <1>2 DEF MarketInv, GateShut
<1> QED BY <1>2, <1>3, <1>4, <1>5, <1>6, StepKeeps

(* A strict registration that is refused, a call that changes nothing.     *)
LEMMA PlainCall ==
    ASSUME MarketInv, NEW t \in Threads, pc[t] = "idle", calls' = calls + 1,
           answer' = [answer EXCEPT ![t] = Plain],
           UNCHANGED <<registry, stored, clock, pc, arg, seen>>
    PROVE  MarketInv'
<1>1. UNCHANGED <<slots, service, gate, guards>>
  BY DEF stored
<1>2. /\ Names(t)' /\ Sees(t)' /\ JudgedInForce(t)'
      /\ \A u \in Threads \ {t} : Still(u)
      /\ answer' \in [Threads -> Answers]
  BY <1>1, PlainAnswer, IdleCall
<1>3. MarketTypeOK'
  BY <1>1, <1>2 DEF MarketInv, MarketTypeOK, registry
<1>4. Registered' /\ Grown
  BY SameRegistry
<1>5. \A u \in Threads : View(u)
  BY <1>1, SameView
<1>6. GateShut'
  BY <1>1 DEF MarketInv, GateShut
<1> QED BY <1>2, <1>3, <1>4, <1>5, <1>6, StepKeeps

-------------------------------------------------------------------------------
(* Steps that move a thread *)

Args == {None} \cup NameArgs \cup StoreArgs \cup ReadArgs

LEMMA StepFrame ==
    ASSUME MarketTypeOK, NEW t \in Threads, NEW l \in Steps, NEW v \in Args, Carries(l, v),
           Step(t, l, v)
    PROVE  /\ pc' \in [Threads -> Steps] /\ arg' \in [Threads -> Args]
           /\ \A u \in Threads : Carries(pc'[u], arg'[u])
           /\ pc'[t] = l /\ arg'[t] = v
           /\ \A u \in Threads \ {t} : pc'[u] = pc[u] /\ arg'[u] = arg[u]
<1>1. /\ pc' \in [Threads -> Steps] /\ arg' \in [Threads -> Args]
      /\ pc'[t] = l /\ arg'[t] = v
      /\ \A u \in Threads \ {t} : pc'[u] = pc[u] /\ arg'[u] = arg[u]
  BY DEF MarketTypeOK, Step, Args
<1>2. \A u \in Threads : Carries(pc'[u], arg'[u])
  BY <1>1 DEF MarketTypeOK
<1> QED BY <1>1, <1>2

(* A step that leaves the slots and the maps alone and does not begin or   *)
(* end a read; the gate may open.                                          *)
LEMMA QuietStep ==
    ASSUME MarketInv, NEW t \in Threads, NEW l \in Steps \ ReadSteps, NEW v \in Args,
           Carries(l, v), Step(t, l, v), t \notin guards,
           NEW a \in Answers, answer' = [answer EXCEPT ![t] = a],
           l = "named" => v.id # None /\ by_instrument[v.instrument] = v.id,
           l = "store" => /\ by_id[v.id] # None
                          /\ v.named # None => by_instrument[v.named] = v.id,
           a.kind = "id" => by_instrument[a.instrument] = a.id,
           gate' \in BOOLEAN, gate => gate', calls' \in Nat,
           ~gate' => pc[t] # "mark",
           UNCHANGED <<registry, slots, service, guards, clock, seen>>
    PROVE  MarketInv'
<1>1. /\ pc' \in [Threads -> Steps] /\ arg' \in [Threads -> Args]
      /\ \A u \in Threads : Carries(pc'[u], arg'[u])
      /\ pc'[t] = l /\ arg'[t] = v
      /\ \A u \in Threads \ {t} : pc'[u] = pc[u] /\ arg'[u] = arg[u]
  BY StepFrame DEF MarketInv
<1>2. /\ answer' \in [Threads -> Answers] /\ answer'[t] = a
      /\ \A u \in Threads \ {t} : answer'[u] = answer[u]
  BY DEF MarketInv, MarketTypeOK
<1>3. UNCHANGED <<by_instrument, by_id, next_auto_id>>
  BY DEF registry
<1>4. MarketTypeOK'
  BY <1>1, <1>2, <1>3 DEF MarketInv, MarketTypeOK, Args
<1>5. Names(t)'
  BY <1>1, <1>2, <1>3 DEF Names
<1>6. Sees(t)' /\ JudgedInForce(t)'
  BY <1>1, NotReading
<1>7. \A u \in Threads \ {t} : Still(u) /\ View(u)
  BY <1>1, <1>2, SameView DEF Still
<1>8. GateShut'
  BY <1>1 DEF MarketInv, MarketTypeOK, GateShut
<1>9. Registered' /\ Grown
  BY SameRegistry
<1> QED BY <1>4, <1>5, <1>6, <1>7, <1>8, <1>9, StepKeeps

LEMMA PushNamedKeeps ==
    ASSUME MarketInv, NEW t \in Threads, NEW i \in Instruments, PushNamed(t, i)
    PROVE  MarketInv'
<1> DEFINE l == IF by_instrument[i] = None THEN "resolve" ELSE "named"
           v == [instrument |-> i, id |-> by_instrument[i]]
<1>1. /\ pc[t] = "idle" /\ calls' = calls + 1 /\ Step(t, l, v)
      /\ answer' = [answer EXCEPT ![t] = Plain]
      /\ UNCHANGED <<registry, slots, service, gate, guards, clock, seen>>
  BY DEF PushNamed, Call, stored
<1>2. l \in Steps \ ReadSteps /\ v \in NameArgs /\ Carries(l, v)
  BY DEF MarketInv, MarketTypeOK, Steps, ReadSteps, NameArgs, Carries
<1>3. l = "named" => v.id # None /\ by_instrument[v.instrument] = v.id
  OBVIOUS
<1>4. l # "store" /\ calls' \in Nat /\ gate \in BOOLEAN
  BY <1>1 DEF MarketInv, MarketTypeOK
<1>5. t \notin guards
  BY <1>1 DEF MarketInv, Sees, ReadSteps
<1> HIDE DEF l, v
<1> QED BY <1>1, <1>2, <1>3, <1>4, <1>5, PlainAnswer, QuietStep DEF Args

LEMMA PushKeeps ==
    ASSUME MarketInv, NEW t \in Threads, NEW id \in Ids, NEW targets \in SUBSET Buckets,
           NEW age \in SourceAges, Push(t, id, targets, age)
    PROVE  MarketInv'
<1> DEFINE v == [targets |-> targets, id |-> id,
                 quote |-> [pushed_at |-> clock, source_age |-> age], named |-> None]
<1>1. /\ pc[t] = "idle" /\ calls' = calls + 1 /\ Step(t, "store", v)
      /\ answer' = [answer EXCEPT ![t] = Plain] /\ by_id[id] # None
      /\ UNCHANGED <<registry, slots, service, gate, guards, clock, seen>>
  BY DEF Push, Call, stored
<1>2. v \in StoreArgs /\ Carries("store", v) /\ "store" \in Steps \ ReadSteps
  BY DEF MarketInv, MarketTypeOK, Steps, ReadSteps, StoreArgs, Carries, Quotes
<1>3. v.id = id /\ v.named = None
  OBVIOUS
<1>4. calls' \in Nat /\ gate \in BOOLEAN
  BY <1>1 DEF MarketInv, MarketTypeOK
<1>5. t \notin guards
  BY <1>1 DEF MarketInv, Sees, ReadSteps
<1> HIDE DEF v
<1> QED BY <1>1, <1>2, <1>3, <1>4, <1>5, PlainAnswer, QuietStep DEF Args

LEMMA ClockNamedKeeps ==
    ASSUME MarketInv, NEW t \in Threads, NEW age \in SourceAges, ClockNamed(t, age)
    PROVE  MarketInv'
<1> DEFINE v == [targets |-> {"default"}, id |-> arg[t].id,
                 quote |-> [pushed_at |-> clock, source_age |-> age],
                 named |-> arg[t].instrument]
<1>1. /\ pc[t] = "named" /\ calls' = calls /\ Step(t, "store", v)
      /\ answer' = answer
      /\ UNCHANGED <<registry, slots, service, gate, guards, clock, seen>>
  BY DEF ClockNamed, stored
<1>2. /\ arg[t] \in NameArgs /\ arg[t].id # None
      /\ by_instrument[arg[t].instrument] = arg[t].id
  BY <1>1 DEF MarketInv, MarketTypeOK, Carries, Names
<1>3. v \in StoreArgs /\ Carries("store", v) /\ "store" \in Steps \ ReadSteps
  BY <1>2 DEF MarketInv, MarketTypeOK, Steps, ReadSteps, NameArgs, StoreArgs, Carries, Quotes, Buckets
<1>4. by_id[v.id] # None /\ by_instrument[v.named] = v.id
  BY <1>2 DEF MarketInv, Registered, NameArgs
<1>5. /\ calls' \in Nat /\ gate \in BOOLEAN
      /\ answer[t] \in Answers /\ answer' = [answer EXCEPT ![t] = answer[t]]
      /\ answer[t].kind = "id" => by_instrument[answer[t].instrument] = answer[t].id
  BY <1>1 DEF MarketInv, MarketTypeOK, Names
<1>6. t \notin guards
  BY <1>1 DEF MarketInv, Sees, ReadSteps
<1> HIDE DEF v
<1> DEFINE a == answer[t]
<1>7. /\ a \in Answers /\ answer' = [answer EXCEPT ![t] = a]
      /\ a.kind = "id" => by_instrument[a.instrument] = a.id
  BY <1>5
<1>9. v \in Args /\ pc[t] # "mark" /\ calls' \in Nat
  BY <1>1, <1>3, <1>5 DEF Args
<1>10. Step(t, "store", v) /\ UNCHANGED <<registry, slots, service, guards, clock, seen>>
  BY <1>1
<1> HIDE DEF a
<1>8. gate' \in BOOLEAN /\ (gate => gate')
  BY <1>1, <1>5
<1> QED BY <1>3, <1>4, <1>6, <1>7, <1>8, <1>9, <1>10, QuietStep

LEMMA MarkKeeps ==
    ASSUME MarketInv, NEW t \in Threads, mark_present(t)
    PROVE  MarketInv'
<1>1. /\ pc[t] = "mark" /\ calls' = calls /\ Step(t, "idle", None) /\ gate' = TRUE
      /\ answer' = [answer EXCEPT ![t] = Plain]
      /\ UNCHANGED <<registry, slots, service, guards, clock, seen>>
  BY DEF mark_present, Done
<1>2. None \in Args /\ Carries("idle", None) /\ "idle" \in Steps \ ReadSteps
  BY DEF Steps, ReadSteps, Carries, Args
<1>3. calls' \in Nat
  BY <1>1 DEF MarketInv, MarketTypeOK
<1>4. t \notin guards
  BY <1>1 DEF MarketInv, Sees, ReadSteps
<1> QED BY <1>1, <1>2, <1>3, <1>4, PlainAnswer, QuietStep

(* Registering under the write lock, by a thread that missed the name.     *)
LEMMA ResolveKeeps ==
    ASSUME MarketInv, NEW t \in Threads, ResolveNamed(t)
    PROVE  MarketInv'
<1> DEFINE i == arg[t].instrument
<1>1. /\ pc[t] = "resolve" /\ i \in Instruments /\ t \notin guards
      /\ UNCHANGED <<clock, calls, answer, seen>>
  BY DEF MarketInv, MarketTypeOK, Carries, ResolveNamed, NameArgs, Sees, ReadSteps
<1>2. MarketTypeOK /\ Registered
  BY DEF MarketInv
<1>3. /\ answer[t] \in Answers
      /\ answer[t].kind = "id" => by_instrument[answer[t].instrument] = answer[t].id
  BY DEF MarketInv, MarketTypeOK, Names
<1>4. CASE by_instrument[i] # None
  <2> DEFINE v == [instrument |-> i, id |-> by_instrument[i]]
             a == answer[t]
  <2>1. Step(t, "named", v) /\ UNCHANGED <<registry, slots, service, gate, guards>>
    BY <1>4 DEF ResolveNamed, stored
  <2>2. v \in NameArgs /\ Carries("named", v) /\ "named" \in Steps \ ReadSteps
    BY <1>1, <1>2 DEF MarketTypeOK, Steps, ReadSteps, NameArgs, Carries
  <2>3. v.id # None /\ by_instrument[v.instrument] = v.id
    BY <1>4
  <2>4. a \in Answers /\ answer' = [answer EXCEPT ![t] = a]
        /\ (a.kind = "id" => by_instrument[a.instrument] = a.id)
    BY <1>1, <1>2, <1>3 DEF MarketTypeOK
  <2>5. calls' \in Nat /\ gate' \in BOOLEAN /\ (gate => gate') /\ pc[t] # "mark"
    BY <1>1, <1>2, <2>1 DEF MarketTypeOK
  <2>6. t \notin guards /\ UNCHANGED <<registry, slots, service, guards, clock, seen>>
    BY <1>1, <2>1
  <2> HIDE DEF v, a
  <2> QED BY <2>1, <2>2, <2>3, <2>4, <2>5, <2>6, QuietStep DEF Args
<1>5. CASE by_instrument[i] = None
  <2> DEFINE id == AutoId
             v == [instrument |-> i, id |-> id]
  <2>1. id \in Ids /\ by_id[id] = None
    BY <1>2, <1>5, AutoIdFree DEF ResolveNamed
  <2>2. Insert(i, id, TRUE) /\ Step(t, "named", v)
    BY <1>5 DEF ResolveNamed
  <2> HIDE DEF id, i
  <2>3. /\ by_instrument' \in [Instruments -> Ids \cup {None}]
        /\ by_id' \in [Ids -> (1..Len(slots')) \cup {None}]
        /\ next_auto_id' \in Nat /\ slots' \in Seq(Slots)
        /\ Registered' /\ Grown
        /\ by_instrument'[i] = id
        /\ Len(slots) <= Len(slots')
        /\ \A s \in 1..Len(slots) : slots'[s] = slots[s]
        /\ UNCHANGED <<service, gate, guards>>
    BY <1>1, <1>2, <1>5, <2>1, <2>2, InsertKeeps
  <2>4. v \in NameArgs /\ Carries("named", v) /\ "named" \in Steps \ ReadSteps
    BY <1>1, <2>1 DEF Steps, ReadSteps, NameArgs, Carries
  <2>5. v.instrument = i /\ v.id = id /\ id # None
    BY <2>1, MarketDataAssumption
  <2> HIDE DEF v
  <2>6. /\ pc' \in [Threads -> Steps] /\ arg' \in [Threads -> Args]
        /\ \A u \in Threads : Carries(pc'[u], arg'[u])
        /\ pc'[t] = "named" /\ arg'[t] = v
        /\ \A u \in Threads \ {t} : pc'[u] = pc[u] /\ arg'[u] = arg[u]
    BY <1>2, <2>2, <2>4, StepFrame DEF Args
  <2>7. MarketTypeOK'
    BY <1>1, <1>2, <2>3, <2>6 DEF MarketTypeOK, Args
  <2>8. Names(t)'
    <3>1. (answer[t].kind = "id" => by_instrument[answer[t].instrument] = answer[t].id)'
      <4>1. answer[t].kind = "id" =>
                answer[t].instrument \in Instruments /\ answer[t].id \in Ids
        BY <1>3 DEF Answers, Plain
      <4> QED BY <1>1, <1>3, <2>3, <4>1, MarketDataAssumption DEF Grown
    <3> QED BY <2>3, <2>5, <2>6, <3>1 DEF Names
  <2>9. Sees(t)' /\ JudgedInForce(t)'
    BY <1>1, <2>3, <2>6, NotReading DEF ReadSteps
  <2>10. \A u \in Threads \ {t} : Still(u) /\ View(u)
    BY <1>1, <2>3, <2>6 DEF Still, View, MarketInv, Sees
  <2>11. GateShut'
    BY <1>1, <2>3, <2>6 DEF MarketInv, GateShut
  <2> QED BY <2>3, <2>7, <2>8, <2>9, <2>10, <2>11, StepKeeps
<1> QED BY <1>4, <1>5

-------------------------------------------------------------------------------
(* Slots and maps *)

(* A slot is written only while no read holds its guard.                   *)
LEMMA SlotWritten ==
    ASSUME MarketInv, NEW s \in 1..Len(slots), Unguarded(s), NEW new \in Slots,
           slots' = [slots EXCEPT ![s] = new],
           UNCHANGED <<registry, service, gate, guards, seen>>
    PROVE  /\ slots' \in Seq(Slots) /\ Len(slots') = Len(slots)
           /\ \A u \in Threads : View(u)
<1>1. slots \in Seq(Slots) /\ Len(slots) \in Nat
  BY DEF MarketInv, MarketTypeOK
<1>2. slots' \in Seq(Slots) /\ Len(slots') = Len(slots)
  BY <1>1, ExceptSeq
<1>3. \A k \in 1..Len(slots) : k # s => slots'[k] = slots[k]
  BY <1>1
<1>4. ASSUME NEW u \in Threads PROVE View(u)
  <2>1. u \in guards => arg[u].slot \in 1..Len(slots) /\ arg[u].slot # s
    BY <1>4 DEF MarketInv, Sees, Unguarded
  <2> QED BY <1>1, <1>2, <1>3, <2>1 DEF View, MarketInv, Sees
<1> QED BY <1>2, <1>4

LEMMA SlotCall ==
    ASSUME MarketInv, NEW t \in Threads, pc[t] = "idle", calls' = calls + 1,
           NEW s \in 1..Len(slots), Unguarded(s), NEW new \in Slots,
           slots' = [slots EXCEPT ![s] = new],
           answer' = [answer EXCEPT ![t] = Plain],
           UNCHANGED <<registry, service, gate, guards, clock, pc, arg, seen>>
    PROVE  MarketInv'
<1>1. /\ slots' \in Seq(Slots) /\ Len(slots') = Len(slots)
      /\ \A u \in Threads : View(u)
  BY SlotWritten
<1>2. /\ Names(t)' /\ Sees(t)' /\ JudgedInForce(t)'
      /\ \A u \in Threads \ {t} : Still(u)
      /\ answer' \in [Threads -> Answers]
  BY PlainAnswer, IdleCall
<1>3. MarketTypeOK'
  BY <1>1, <1>2 DEF MarketInv, MarketTypeOK, registry
<1>4. Registered' /\ Grown
  BY SameRegistry
<1>5. GateShut'
  BY DEF MarketInv, GateShut
<1> QED BY <1>1, <1>2, <1>3, <1>4, <1>5, StepKeeps

LEMMA SlotOf ==
    ASSUME MarketInv, NEW id \in Ids, by_id[id] # None
    PROVE  by_id[id] \in 1..Len(slots) /\ slots[by_id[id]] \in Slots
  BY DEF MarketInv, MarketTypeOK

LEMMA ClearKeeps ==
    ASSUME MarketInv, NEW t \in Threads, NEW id \in Ids, Clear(t, id)
    PROVE  MarketInv'
<1> DEFINE s == by_id[id]
           new == [slots[s] EXCEPT !.quotes = NewSlot.quotes]
<1>1. s \in 1..Len(slots) /\ slots[s] \in Slots /\ slots \in Seq(Slots)
  BY SlotOf DEF Clear, MarketInv, MarketTypeOK
<1>2. new \in Slots
  BY <1>1 DEF Slots, NewSlot
<1>3. slots' = [slots EXCEPT ![s] = new]
  BY DEF Clear
<1> HIDE DEF new, s
<1> QED BY <1>1, <1>2, <1>3, SlotCall DEF Clear, s

LEMMA SetSlotTtlKeeps ==
    ASSUME MarketInv, NEW t \in Threads, NEW id \in Ids, NEW tier \in SlotTiers,
           NEW ttl \in Ttls, SetSlotTtl(t, id, tier, ttl)
    PROVE  MarketInv'
<1> DEFINE s == by_id[id]
           new == [slots[s] EXCEPT !.ttls[tier] = ttl]
<1>1. s \in 1..Len(slots) /\ slots[s] \in Slots /\ slots \in Seq(Slots)
  BY SlotOf DEF SetSlotTtl, MarketInv, MarketTypeOK
<1>2. new \in Slots
  BY <1>1 DEF Slots
<1>3. slots' = [slots EXCEPT ![s] = new]
  BY DEF SetSlotTtl
<1> HIDE DEF new, s
<1> QED BY <1>1, <1>2, <1>3, SlotCall DEF SetSlotTtl, s

LEMMA StoreKeeps ==
    ASSUME MarketInv, NEW t \in Threads, Store(t)
    PROVE  MarketInv'
<1> DEFINE a == arg[t]
           s == by_id[a.id]
           new == [slots[s] EXCEPT !.quotes =
                      [b \in Buckets |-> IF b \in a.targets THEN a.quote ELSE @[b]]]
           r == IF a.named = None THEN Plain ELSE Named(a.named, a.id)
<1>1. /\ pc[t] = "store" /\ Unguarded(s) /\ slots' = [slots EXCEPT ![s] = new]
      /\ Step(t, "idle", None) /\ answer' = [answer EXCEPT ![t] = r]
      /\ UNCHANGED <<registry, service, gate, guards, clock, calls, seen>>
  BY DEF Store, Done
<1>2. /\ a \in StoreArgs /\ by_id[a.id] # None
      /\ a.named # None => by_instrument[a.named] = a.id
  BY <1>1 DEF MarketInv, MarketTypeOK, Carries, Names
<1>3. s \in 1..Len(slots) /\ slots[s] \in Slots
  BY <1>2, SlotOf DEF StoreArgs
<1>4. new \in Slots
  BY <1>2, <1>3 DEF Slots, StoreArgs
<1>5. /\ r \in Answers
      /\ r.kind = "id" => by_instrument[r.instrument] = r.id
  BY <1>2, PlainAnswer, NamedAnswer DEF StoreArgs
<1>6. t \notin guards
  BY <1>1 DEF MarketInv, Sees, ReadSteps
<1> HIDE DEF new, r, s
<1>7. /\ slots' \in Seq(Slots) /\ Len(slots') = Len(slots)
      /\ \A u \in Threads : View(u)
  BY <1>1, <1>3, <1>4, SlotWritten
<1>8. /\ pc' \in [Threads -> Steps] /\ arg' \in [Threads -> Args]
      /\ \A u \in Threads : Carries(pc'[u], arg'[u])
      /\ pc'[t] = "idle"
      /\ \A u \in Threads \ {t} : pc'[u] = pc[u] /\ arg'[u] = arg[u]
  <2>1. None \in Args /\ Carries("idle", None) /\ "idle" \in Steps
    BY DEF Steps, ReadSteps, Carries, Args
  <2> QED BY <1>1, <2>1, StepFrame DEF MarketInv
<1>9. /\ answer' \in [Threads -> Answers] /\ answer'[t] = r
      /\ \A u \in Threads \ {t} : answer'[u] = answer[u]
  BY <1>1, <1>5 DEF MarketInv, MarketTypeOK
<1>10. MarketTypeOK'
  BY <1>1, <1>7, <1>8, <1>9 DEF MarketInv, MarketTypeOK, Args, registry
<1>11. Registered' /\ Grown
  BY <1>1, SameRegistry
<1>12. Names(t)'
  BY <1>1, <1>5, <1>8, <1>9 DEF Names, registry
<1>13. Sees(t)' /\ JudgedInForce(t)'
  BY <1>1, <1>6, <1>8, NotReading DEF ReadSteps
<1>14. \A u \in Threads \ {t} : Still(u)
  BY <1>8, <1>9 DEF Still
<1>15. GateShut'
  BY <1>1, <1>8 DEF MarketInv, GateShut
<1> QED BY <1>7, <1>10, <1>11, <1>12, <1>13, <1>14, <1>15, StepKeeps

(* A change of the service-level lifetimes is seen by every read under way.*)
LEMMA Observed ==
    ASSUME MarketInv, NEW tier \in ServiceTiers, NEW ttl \in Ttls,
           service' = [service EXCEPT ![tier] = ttl], Observe,
           UNCHANGED <<slots, gate, guards>>
    PROVE  /\ service' \in Services /\ seen' \in [Threads -> SUBSET Services]
           /\ \A u \in Threads : View(u)
<1>1. service' \in Services
  BY DEF MarketInv, MarketTypeOK, Services
<1>2. seen' \in [Threads -> SUBSET Services]
  BY <1>1 DEF MarketInv, MarketTypeOK, Observe
<1>3. ASSUME NEW u \in Threads PROVE View(u)
  <2>1. seen'[u] = IF u \in guards THEN seen[u] \cup {service'} ELSE seen[u]
    BY DEF Observe
  <2>2. Len(slots) \in Nat
    BY DEF MarketInv, MarketTypeOK
  <2>3. seen[u] \subseteq seen'[u] /\ (u \in guards => service' \in seen'[u])
    BY <2>1
  <2>4. slots' = slots /\ gate' = gate /\ guards' = guards
    OBVIOUS
  <2>5. Len(slots) <= Len(slots') /\ (gate => gate')
    BY <2>2, <2>4
  <2>6. u \in guards' <=> u \in guards
    BY <2>4
  <2> QED BY <2>3, <2>4, <2>5, <2>6 DEF View
<1> QED BY <1>1, <1>2, <1>3

LEMMA SetServiceTtlKeeps ==
    ASSUME MarketInv, NEW t \in Threads, NEW tier \in ServiceTiers, NEW ttl \in Lifetimes,
           SetServiceTtl(t, tier, ttl)
    PROVE  MarketInv'
<1>1. /\ pc[t] = "idle" /\ calls' = calls + 1 /\ Step(t, "mark", None)
      /\ answer' = [answer EXCEPT ![t] = Plain]
      /\ UNCHANGED <<registry, slots, gate, guards, clock>>
  BY DEF SetServiceTtl, Call
<1>2. /\ service' \in Services /\ seen' \in [Threads -> SUBSET Services]
      /\ \A u \in Threads : View(u)
  BY <1>1, Observed DEF SetServiceTtl, Ttls
<1>3. t \notin guards
  BY <1>1 DEF MarketInv, Sees, ReadSteps
<1>4. /\ pc' \in [Threads -> Steps] /\ arg' \in [Threads -> Args]
      /\ \A u \in Threads : Carries(pc'[u], arg'[u])
      /\ pc'[t] = "mark"
      /\ \A u \in Threads \ {t} : pc'[u] = pc[u] /\ arg'[u] = arg[u]
  <2>1. None \in Args /\ Carries("mark", None) /\ "mark" \in Steps
    BY DEF Steps, ReadSteps, Carries, Args
  <2> QED BY <1>1, <2>1, StepFrame DEF MarketInv
<1>5. /\ answer' \in [Threads -> Answers] /\ answer'[t] = Plain
      /\ \A u \in Threads \ {t} : answer'[u] = answer[u]
  BY <1>1, PlainAnswer DEF MarketInv, MarketTypeOK
<1>6. MarketTypeOK'
  BY <1>1, <1>2, <1>4, <1>5 DEF MarketInv, MarketTypeOK, Args, registry
<1>7. Registered' /\ Grown
  BY <1>1, SameRegistry
<1>8. Names(t)'
  BY <1>4, <1>5, PlainAnswer DEF Names
<1>9. Sees(t)' /\ JudgedInForce(t)'
  BY <1>1, <1>3, <1>4, NotReading DEF ReadSteps
<1>10. \A u \in Threads \ {t} : Still(u)
  BY <1>4, <1>5 DEF Still
<1>11. GateShut'
  BY <1>4 DEF GateShut
<1> QED BY <1>2, <1>6, <1>7, <1>8, <1>9, <1>10, <1>11, StepKeeps

LEMMA ClearServiceTtlKeeps ==
    ASSUME MarketInv, NEW t \in Threads, NEW tier \in ServiceTiers, ClearServiceTtl(t, tier)
    PROVE  MarketInv'
<1>1. /\ pc[t] = "idle" /\ calls' = calls + 1
      /\ answer' = [answer EXCEPT ![t] = Plain]
      /\ service' = [service EXCEPT ![tier] = None]
      /\ UNCHANGED <<registry, slots, gate, guards, clock, pc, arg>>
  BY DEF ClearServiceTtl
<1>2. /\ service' \in Services /\ seen' \in [Threads -> SUBSET Services]
      /\ \A u \in Threads : View(u)
  BY <1>1, Observed DEF ClearServiceTtl, Ttls
<1>3. /\ Names(t)' /\ Sees(t)' /\ JudgedInForce(t)'
      /\ \A u \in Threads \ {t} : Still(u)
      /\ answer' \in [Threads -> Answers]
  BY <1>1, PlainAnswer, IdleCall
<1>4. MarketTypeOK'
  BY <1>1, <1>2, <1>3 DEF MarketInv, MarketTypeOK, registry
<1>5. Registered' /\ Grown
  BY <1>1, SameRegistry
<1>6. GateShut'
  <2>1. service = NoService => service' = NoService
    BY <1>1 DEF NoService
  <2> QED BY <1>1, <2>1 DEF MarketInv, GateShut
<1> QED BY <1>2, <1>3, <1>4, <1>5, <1>6, StepKeeps

-------------------------------------------------------------------------------
(* Reads *)

(* A step of a read under its guard: nothing but the thread moves.         *)
LEMMA ReadStep ==
    ASSUME MarketInv, NEW t \in Threads, pc[t] \in {"gate", "tier4", "tier5"},
           NEW l \in {"tier4", "tier5", "judge"}, NEW v \in ReadArgs,
           Step(t, l, v), v.slot = arg[t].slot, v.quote = arg[t].quote,
           l = "tier5" => \E s \in seen[t] : s["account"] = None,
           l = "judge" => \E s1, s2 \in seen[t] :
               /\ v.ttl = effective_ttl(slots[arg[t].slot], Mixed(s1, s2))
               /\ OneMapChanged(seen[t]) => s1 = s2,
           UNCHANGED <<registry, stored, clock, calls, answer, seen>>
    PROVE  MarketInv'
<1>1. UNCHANGED <<slots, service, gate, guards>>
  BY DEF stored
<1>2. l \in Steps /\ Carries(l, v) /\ v \in Args
  BY DEF Steps, ReadSteps, Carries, Args
<1>3. /\ pc' \in [Threads -> Steps] /\ arg' \in [Threads -> Args]
      /\ \A u \in Threads : Carries(pc'[u], arg'[u])
      /\ pc'[t] = l /\ arg'[t] = v
      /\ \A u \in Threads \ {t} : pc'[u] = pc[u] /\ arg'[u] = arg[u]
  BY <1>2, StepFrame DEF MarketInv
<1>4. MarketTypeOK'
  BY <1>1, <1>3 DEF MarketInv, MarketTypeOK, Args, registry
<1>5. Registered' /\ Grown
  BY SameRegistry
<1>6. GateShut'
  BY <1>1, <1>3 DEF MarketInv, GateShut
<1>7. \A u \in Threads \ {t} : Still(u) /\ View(u)
  BY <1>1, <1>3, SameView DEF Still
<1>8. Names(t)'
  BY <1>3 DEF MarketInv, Names, registry
<1>9. Sees(t) /\ t \in guards /\ pc[t] \in ReadSteps
  BY DEF MarketInv, Sees, ReadSteps
<1>10. Sees(t)'
  BY <1>1, <1>3, <1>9 DEF Sees, ReadSteps
<1>11. JudgedInForce(t)'
  BY <1>1, <1>3 DEF JudgedInForce, FoundInForce
<1> QED BY <1>4, <1>5, <1>6, <1>7, <1>8, <1>10, <1>11, StepKeeps

(* A read before its lifetime is found: its slot has none of tiers 1-3.    *)
LEMMA ReaderHas ==
    ASSUME MarketInv, NEW t \in Threads, pc[t] \in {"gate", "tier4", "tier5"}
    PROVE  /\ arg[t] \in ReadArgs /\ slots[arg[t].slot] \in Slots
           /\ service \in Services /\ service \in seen[t] /\ seen[t] \subseteq Services
           /\ SlotCascade(slots[arg[t].slot]) = None
<1>1. Sees(t) /\ Carries(pc[t], arg[t]) /\ pc[t] \in ReadSteps
  BY DEF MarketInv, MarketTypeOK, ReadSteps
<1>2. arg[t].slot \in 1..Len(slots)
  BY <1>1 DEF Sees
<1> QED BY <1>1, <1>2 DEF Sees, Carries, MarketInv, MarketTypeOK

LEMMA WithTtl ==
    ASSUME NEW a \in ReadArgs, NEW ttl \in Ttls \cup {DefaultTtl}
    PROVE  /\ [a EXCEPT !.ttl = ttl] \in ReadArgs
           /\ [a EXCEPT !.ttl = ttl].slot = a.slot /\ [a EXCEPT !.ttl = ttl].ttl = ttl
           /\ [a EXCEPT !.ttl = ttl].quote = a.quote
  BY DEF ReadArgs

LEMMA ReadGateKeeps ==
    ASSUME MarketInv, NEW t \in Threads, ReadGate(t)
    PROVE  MarketInv'
<1> DEFINE slot == slots[arg[t].slot]
<1>1. /\ pc[t] = "gate"
      /\ UNCHANGED <<registry, stored, clock, calls, answer, seen>>
  BY DEF ReadGate
<1>2. /\ arg[t] \in ReadArgs /\ slot \in Slots /\ seen[t] \subseteq Services
      /\ SlotCascade(slot) = None
  BY <1>1, ReaderHas
<1>3. CASE gate
  <2>1. Step(t, "tier4", arg[t])
    BY <1>3 DEF ReadGate
  <2> QED BY <1>1, <1>2, <2>1, ReadStep
<1>4. CASE ~gate
  <2> DEFINE v == [arg[t] EXCEPT !.ttl = Fallback(slot)]
  <2>1. Step(t, "judge", v)
    BY <1>4 DEF ReadGate
  <2>2. /\ v \in ReadArgs /\ v.slot = arg[t].slot /\ v.quote = arg[t].quote
        /\ v.ttl = Fallback(slot)
    BY <1>2, SlotParts, WithTtl
  <2>3. NoService \in seen[t]
    BY <1>1, <1>4 DEF MarketInv, Sees
  <2>4. Fallback(slot) = effective_ttl(slot, Mixed(NoService, NoService))
    BY <1>2, CascadeIs, NoServiceParts
  <2> HIDE DEF v
  <2> QED BY <1>1, <1>2, <2>1, <2>2, <2>3, <2>4, ReadStep
<1> QED BY <1>3, <1>4

LEMMA ReadAccountTtlKeeps ==
    ASSUME MarketInv, NEW t \in Threads, ReadAccountTtl(t)
    PROVE  MarketInv'
<1> DEFINE slot == slots[arg[t].slot]
<1>1. /\ pc[t] = "tier4"
      /\ UNCHANGED <<registry, stored, clock, calls, answer, seen>>
  BY DEF ReadAccountTtl
<1>2. /\ arg[t] \in ReadArgs /\ slot \in Slots
      /\ service \in Services /\ service \in seen[t]
      /\ SlotCascade(slot) = None
  BY <1>1, ReaderHas
<1>3. CASE service["account"] = None
  <2>1. Step(t, "tier5", arg[t])
    BY <1>3 DEF ReadAccountTtl
  <2> QED BY <1>1, <1>2, <1>3, <2>1, ReadStep
<1>4. CASE service["account"] # None
  <2> DEFINE v == [arg[t] EXCEPT !.ttl = service["account"]]
  <2>1. Step(t, "judge", v)
    BY <1>4 DEF ReadAccountTtl
  <2>2. /\ v \in ReadArgs /\ v.slot = arg[t].slot /\ v.quote = arg[t].quote
        /\ v.ttl = service["account"]
    BY <1>2, WithTtl DEF Services, ServiceTiers
  <2>3. service["account"] = effective_ttl(slot, Mixed(service, service))
    BY <1>2, <1>4, CascadeIs
  <2> HIDE DEF v
  <2> QED BY <1>1, <1>2, <2>1, <2>2, <2>3, ReadStep
<1> QED BY <1>3, <1>4

(* The account had no lifetime at an earlier moment of the read.  Where    *)
(* only one of the maps has changed since, the cascade is that of now or   *)
(* of that moment.                                                         *)
LEMMA ReadGroupTtlKeeps ==
    ASSUME MarketInv, NEW t \in Threads, ReadGroupTtl(t)
    PROVE  MarketInv'
<1> DEFINE slot == slots[arg[t].slot]
           ttl == FirstSet(<<GroupCascade(service), Fallback(slot)>>)
           v == [arg[t] EXCEPT !.ttl = ttl]
<1>1. /\ pc[t] = "tier5" /\ Step(t, "judge", v)
      /\ UNCHANGED <<registry, stored, clock, calls, answer, seen>>
  BY DEF ReadGroupTtl
<1>2. /\ arg[t] \in ReadArgs /\ slot \in Slots
      /\ service \in Services /\ service \in seen[t] /\ seen[t] \subseteq Services
      /\ SlotCascade(slot) = None
  BY <1>1, ReaderHas
<1>3. ttl = IF GroupCascade(service) # None THEN GroupCascade(service) ELSE Fallback(slot)
  BY First2
<1> HIDE DEF ttl
<1>4. /\ v \in ReadArgs /\ v.slot = arg[t].slot /\ v.quote = arg[t].quote
      /\ v.ttl = ttl
  <2>1. GroupCascade(service) \in Ttls /\ Fallback(slot) \in Ttls \cup {DefaultTtl}
    BY <1>2, SlotParts, ServiceParts
  <2>2. ttl \in Ttls \cup {DefaultTtl}
    BY <1>3, <2>1
  <2> QED BY <1>2, <2>2, WithTtl
<1>5. PICK s \in seen[t] : s["account"] = None
  BY <1>1 DEF MarketInv, Sees
<1>6. \E s1, s2 \in seen[t] :
          /\ ttl = effective_ttl(slot, Mixed(s1, s2))
          /\ OneMapChanged(seen[t]) => s1 = s2
  <2>1. CASE service["account"] = None
    <3>1. ttl = effective_ttl(slot, Mixed(service, service))
      BY <1>2, <1>3, <2>1, CascadeIs
    <3> QED BY <1>2, <3>1
  <2>2. CASE service["account"] # None /\ OneMapChanged(seen[t])
    <3>1. s["group"] = service["group"] /\ s["default"] = service["default"]
      BY <1>2, <1>5, <2>2 DEF OneMapChanged
    <3>2. GroupCascade(s) = GroupCascade(service)
      BY <3>1 DEF GroupCascade
    <3>3. ttl = effective_ttl(slot, Mixed(s, s))
      BY <1>2, <1>3, <1>5, <3>2, CascadeIs
    <3> QED BY <1>5, <3>3
  <2>3. CASE ~OneMapChanged(seen[t])
    <3>1. ttl = effective_ttl(slot, Mixed(s, service))
      BY <1>2, <1>3, <1>5, CascadeIs
    <3> QED BY <1>2, <2>3, <3>1
  <2> QED BY <2>1, <2>2, <2>3
<1> HIDE DEF v
<1> QED BY <1>1, <1>4, <1>6, ReadStep

(* A read begins: what is in force is what it has seen.  With the gate     *)
(* shut that includes empty maps.                                          *)
LEMMA GetKeeps ==
    ASSUME MarketInv, NEW t \in Threads, NEW id \in Ids, Get(t, id)
    PROVE  MarketInv'
<1> DEFINE slot == slots[by_id[id]]
           q == select_quote(slot)
           l == IF SlotCascade(slot) # None THEN "judge" ELSE "gate"
           v == [slot |-> by_id[id], quote |-> q, ttl |-> SlotCascade(slot)]
<1>1. /\ pc[t] = "idle" /\ calls' = calls + 1 /\ by_id[id] # None
      /\ answer' = [answer EXCEPT ![t] = Plain]
      /\ UNCHANGED <<registry, slots, service, gate, clock>>
  BY DEF Get
<1>2. by_id[id] \in 1..Len(slots) /\ slot \in Slots
  BY <1>1, SlotOf
<1>3. CASE q = None
  <2>1. UNCHANGED <<guards, pc, arg, seen>>
    BY <1>3 DEF Get
  <2> QED BY <1>1, <2>1, PlainCall DEF stored
<1>4. CASE q # None
  <2>1. /\ guards' = guards \cup {t} /\ seen' = [seen EXCEPT ![t] = InForce]
        /\ Step(t, l, v)
    BY <1>4 DEF Get
  <2>2. q \in Quotes /\ SlotCascade(slot) \in Ttls
    BY <1>2, <1>4, SlotParts
  <2>3. v \in ReadArgs /\ v.slot = by_id[id] /\ v.quote = q /\ v.ttl = SlotCascade(slot)
    <3>1. Len(slots) \in Nat
      BY DEF MarketInv, MarketTypeOK
    <3> HIDE DEF q, slot
    <3> QED BY <1>2, <2>2, <3>1 DEF ReadArgs
  <2>4. /\ l \in ReadSteps /\ l \in {"gate", "judge"}
        /\ l = "judge" <=> SlotCascade(slot) # None
    BY DEF ReadSteps
  <2>5. InForce \subseteq Services /\ service \in InForce
        /\ (~gate => NoService \in InForce)
    BY NoServiceParts DEF InForce, MarketInv, MarketTypeOK, GateShut
  <2>6. slots[v.slot] = slot /\ v.quote = select_quote(slot)
    BY <2>3
  <2> HIDE DEF l, v, q, slot
  <2>7. /\ pc' \in [Threads -> Steps] /\ arg' \in [Threads -> Args]
        /\ \A u \in Threads : Carries(pc'[u], arg'[u])
        /\ pc'[t] = l /\ arg'[t] = v
        /\ \A u \in Threads \ {t} : pc'[u] = pc[u] /\ arg'[u] = arg[u]
    <3>1. l \in Steps /\ Carries(l, v) /\ v \in Args
      BY <2>3, <2>4 DEF Steps, ReadSteps, Carries, Args
    <3> QED BY <2>1, <3>1, StepFrame DEF MarketInv
  <2>8. /\ answer' \in [Threads -> Answers] /\ answer'[t] = Plain
        /\ \A u \in Threads \ {t} : answer'[u] = answer[u]
    BY <1>1, PlainAnswer DEF MarketInv, MarketTypeOK
  <2>9. /\ seen' \in [Threads -> SUBSET Services] /\ seen'[t] = InForce
        /\ \A u \in Threads \ {t} : seen'[u] = seen[u]
    BY <2>1, <2>5 DEF MarketInv, MarketTypeOK
  <2>10. MarketTypeOK'
    BY <1>1, <2>1, <2>7, <2>8, <2>9 DEF MarketInv, MarketTypeOK, Args, registry
  <2>11. Registered' /\ Grown
    BY <1>1, SameRegistry
  <2>12. GateShut'
    BY <1>1, <2>7 DEF MarketInv, GateShut
  <2>13. ASSUME NEW u \in Threads \ {t} PROVE Still(u) /\ View(u)
    <3>1. Still(u)
      BY <2>7, <2>8 DEF Still
    <3>2. u \in guards' <=> u \in guards
      BY <2>1
    <3>3. u \in guards => service \in seen[u]
      BY DEF MarketInv, Sees
    <3>4. Len(slots) <= Len(slots') /\ (gate => gate')
      BY <1>1 DEF MarketInv, MarketTypeOK
    <3> QED BY <1>1, <2>9, <3>1, <3>2, <3>3, <3>4 DEF View
  <2>14. Names(t)'
    BY <2>4, <2>7, <2>8, PlainAnswer DEF Names, ReadSteps
  <2>15. Sees(t)'
    BY <1>1, <1>2, <2>1, <2>3, <2>4, <2>5, <2>6, <2>7, <2>9 DEF Sees, ReadSteps
  <2>16. JudgedInForce(t)'
    <3>1. SUFFICES ASSUME l = "judge" PROVE JudgedInForce(t)'
      BY <2>7 DEF JudgedInForce
    <3>2. v.ttl = effective_ttl(slot, Mixed(service, service))
      <4>1. service \in Services
        BY DEF MarketInv, MarketTypeOK
      <4> QED BY <2>3, <2>4, <3>1, <4>1, CascadeIs
    <3> QED BY <1>1, <2>5, <2>6, <2>7, <2>9, <3>2 DEF JudgedInForce, FoundInForce
  <2> QED BY <2>10, <2>11, <2>12, <2>13, <2>14, <2>15, <2>16, StepKeeps
<1> QED BY <1>3, <1>4

LEMMA JudgeKeeps ==
    ASSUME MarketInv, NEW t \in Threads, Judge(t)
    PROVE  MarketInv'
<1> DEFINE r == [kind |-> IF Fresh(arg[t].quote, arg[t].ttl) THEN "quote" ELSE "expired",
                 quote |-> arg[t].quote]
<1>1. /\ pc[t] = "judge" /\ guards' = guards \ {t} /\ Step(t, "idle", None)
      /\ answer' = [answer EXCEPT ![t] = r]
      /\ UNCHANGED <<registry, slots, service, gate, clock, calls, seen>>
  BY DEF Judge
<1>2. r \in Answers /\ r.kind # "id"
  <2>1. arg[t] \in ReadArgs
    BY <1>1 DEF MarketInv, MarketTypeOK, Carries, ReadSteps
  <2> QED BY <2>1 DEF ReadArgs, Answers
<1> HIDE DEF r
<1>3. /\ pc' \in [Threads -> Steps] /\ arg' \in [Threads -> Args]
      /\ \A u \in Threads : Carries(pc'[u], arg'[u])
      /\ pc'[t] = "idle"
      /\ \A u \in Threads \ {t} : pc'[u] = pc[u] /\ arg'[u] = arg[u]
  <2>1. None \in Args /\ Carries("idle", None) /\ "idle" \in Steps
    BY DEF Steps, ReadSteps, Carries, Args
  <2> QED BY <1>1, <2>1, StepFrame DEF MarketInv
<1>4. /\ answer' \in [Threads -> Answers] /\ answer'[t] = r
      /\ \A u \in Threads \ {t} : answer'[u] = answer[u]
  BY <1>1, <1>2 DEF MarketInv, MarketTypeOK
<1>5. MarketTypeOK'
  BY <1>1, <1>3, <1>4 DEF MarketInv, MarketTypeOK, Args, registry
<1>6. Registered' /\ Grown
  BY <1>1, SameRegistry
<1>7. GateShut'
  BY <1>1, <1>3 DEF MarketInv, GateShut
<1>8. ASSUME NEW u \in Threads \ {t} PROVE Still(u) /\ View(u)
  <2>1. Still(u)
    BY <1>3, <1>4 DEF Still
  <2>2. u \in guards' <=> u \in guards
    BY <1>1
  <2>3. u \in guards => service \in seen[u]
    BY DEF MarketInv, Sees
  <2>4. Len(slots) <= Len(slots') /\ (gate => gate')
    BY <1>1 DEF MarketInv, MarketTypeOK
  <2> QED BY <1>1, <2>1, <2>2, <2>3, <2>4 DEF View
<1>9. Names(t)'
  BY <1>2, <1>3, <1>4 DEF Names
<1>10. Sees(t)' /\ JudgedInForce(t)'
  BY <1>1, <1>3, NotReading DEF ReadSteps
<1> QED BY <1>5, <1>6, <1>7, <1>8, <1>9, <1>10, StepKeeps

LEMMA TickKeeps ==
    ASSUME MarketInv, Tick
    PROVE  MarketInv'
<1>1. /\ UNCHANGED <<registry, slots, service, gate, guards, calls, pc, arg, answer, seen>>
      /\ clock' = clock + 1
  BY DEF Tick, stored
<1>2. MarketTypeOK'
  BY <1>1 DEF MarketInv, MarketTypeOK, registry
<1>3. Registered' /\ Grown
  BY <1>1, SameRegistry
<1>4. GateShut'
  BY <1>1 DEF MarketInv, GateShut
<1>5. ASSUME NEW u \in Threads PROVE (Names(u) /\ Sees(u) /\ JudgedInForce(u))'
  BY <1>1, <1>3, SameView, NamesKept, ViewKept DEF MarketInv, Still
<1> QED BY <1>2, <1>3, <1>4, <1>5 DEF MarketInv

-------------------------------------------------------------------------------
(* The theorems *)

LEMMA RegisterKeeps ==
    ASSUME MarketInv, NEW t \in Threads, NEW i \in Instruments, register(t, i)
    PROVE  MarketInv'
<1>1. CASE by_instrument[i] # None
  BY <1>1, PlainCall DEF register
<1>2. CASE by_instrument[i] = None
  <2>1. AutoId \in Ids /\ by_id[AutoId] = None
    BY AutoIdFree DEF register, MarketInv
  <2> QED BY <1>2, <2>1, InsertStep DEF register
<1> QED BY <1>1, <1>2

LEMMA RegisterWithIdKeeps ==
    ASSUME MarketInv, NEW t \in Threads, NEW i \in Instruments, NEW id \in Ids,
           register_with_id(t, i, id)
    PROVE  MarketInv'
<1>1. CASE by_instrument[i] # None \/ by_id[id] # None
  BY <1>1, PlainCall DEF register_with_id
<1>2. CASE by_instrument[i] = None /\ by_id[id] = None
  BY <1>2, InsertStep DEF register_with_id
<1> QED BY <1>1, <1>2

LEMMA InitIInv == MarketInit => MarketInv
<1> SUFFICES ASSUME MarketInit PROVE MarketInv
  OBVIOUS
<1>1. MarketTypeOK
  <2>1. slots \in Seq(Slots) /\ Len(slots) = 0
    BY EmptySeq DEF MarketInit
  <2>2. by_id \in [Ids -> (1..Len(slots)) \cup {None}]
    BY DEF MarketInit
  <2>3. \A t \in Threads : Carries(pc[t], arg[t])
    BY DEF MarketInit, Carries, ReadSteps
  <2> QED BY <2>1, <2>2, <2>3, NoServiceParts, PlainAnswer DEF MarketInit, MarketTypeOK, Steps
<1>2. Registered /\ GateShut
  BY DEF MarketInit, Registered, GateShut
<1>3. \A t \in Threads : Names(t) /\ Sees(t) /\ JudgedInForce(t)
  BY PlainAnswer DEF MarketInit, Names, Sees, JudgedInForce, ReadSteps
<1> QED BY <1>1, <1>2, <1>3 DEF MarketInv

LEMMA NextIInv == MarketInv /\ [MarketNext]_marketVars => MarketInv'
<1> SUFFICES ASSUME MarketInv, [MarketNext]_marketVars PROVE MarketInv'
  OBVIOUS
<1>1. ASSUME NEW t \in Threads, Publishes(t) PROVE MarketInv'
  <2>1. ASSUME NEW i \in Instruments, register(t, i) \/ PushNamed(t, i) PROVE MarketInv'
    BY <2>1, RegisterKeeps, PushNamedKeeps
  <2>2. ASSUME NEW i \in Instruments, NEW id \in Ids, register_with_id(t, i, id)
        PROVE  MarketInv'
    BY <2>2, RegisterWithIdKeeps
  <2>3. CASE ResolveNamed(t)
    BY <2>3, ResolveKeeps
  <2>4. ASSUME NEW age \in SourceAges, ClockNamed(t, age) PROVE MarketInv'
    BY <2>4, ClockNamedKeeps
  <2>5. ASSUME NEW id \in Ids, NEW targets \in SUBSET Buckets \ {{}},
               NEW age \in SourceAges, Push(t, id, targets, age)
        PROVE  MarketInv'
    BY <2>5, PushKeeps
  <2>6. CASE Store(t)
    BY <2>6, StoreKeeps
  <2>7. ASSUME NEW id \in Ids, Clear(t, id) PROVE MarketInv'
    BY <2>7, ClearKeeps
  <2> QED BY <1>1, <2>1, <2>2, <2>3, <2>4, <2>5, <2>6, <2>7 DEF Publishes
<1>2. ASSUME NEW t \in Threads, Tunes(t) PROVE MarketInv'
  <2>1. ASSUME NEW id \in Ids, NEW tier \in Tunable \cap SlotTiers,
               NEW ttl \in Lifetimes \cup {None}, SetSlotTtl(t, id, tier, ttl)
        PROVE  MarketInv'
    BY <2>1, SetSlotTtlKeeps DEF Ttls
  <2>2. ASSUME NEW tier \in Tunable \cap ServiceTiers, NEW ttl \in Lifetimes,
               SetServiceTtl(t, tier, ttl)
        PROVE  MarketInv'
    BY <2>2, SetServiceTtlKeeps
  <2>3. ASSUME NEW tier \in Tunable \cap ServiceTiers, ClearServiceTtl(t, tier)
        PROVE  MarketInv'
    BY <2>3, ClearServiceTtlKeeps
  <2>4. CASE mark_present(t)
    BY <2>4, MarkKeeps
  <2> QED BY <1>2, <2>1, <2>2, <2>3, <2>4 DEF Tunes
<1>3. ASSUME NEW t \in Threads, Reads(t) PROVE MarketInv'
  <2>1. ASSUME NEW id \in Ids, Get(t, id) PROVE MarketInv'
    BY <2>1, GetKeeps
  <2> QED BY <1>3, <2>1, ReadGateKeeps, ReadAccountTtlKeeps, ReadGroupTtlKeeps,
             JudgeKeeps DEF Reads
<1>4. CASE Tick
  BY <1>4, TickKeeps
<1>5. CASE UNCHANGED marketVars
  <2>1. UNCHANGED <<by_instrument, by_id, next_auto_id, slots, service, gate, guards,
                    clock, calls, pc, arg, answer, seen>>
    BY <1>5 DEF marketVars, registry, stored
  <2>2. MarketTypeOK' /\ Registered' /\ GateShut'
    BY <2>1 DEF MarketInv, MarketTypeOK, Registered, GateShut
  <2>3. ASSUME NEW u \in Threads PROVE (Names(u) /\ Sees(u) /\ JudgedInForce(u))'
    BY <2>1, SameView, SameRegistry, NamesKept, ViewKept DEF MarketInv, Still, registry
  <2> QED BY <2>2, <2>3 DEF MarketInv
<1> QED BY <1>1, <1>2, <1>3, <1>4, <1>5 DEF MarketNext

(* The invariant holds in every state of the service.                      *)
THEOREM MarketDataInvariant == MarketSpec => []MarketInv
<1>1. MarketInit => MarketInv
  BY InitIInv
<1>2. MarketInv /\ [MarketNext]_marketVars => MarketInv'
  BY NextIInv
<1> QED BY <1>1, <1>2, PTL DEF MarketSpec

(* An id handed out stays the instrument's id, whichever threads register  *)
(* or name it at the same time; ids and slots are never shared.            *)
THEOREM IdsAreStable == MarketSpec => []IdsStable
<1>1. MarketInv => IdsStable
  BY DEF MarketInv, Names, Registered, IdsStable
<1> QED BY <1>1, MarketDataInvariant, PTL

(* The cascade always ends in a lifetime: the builder's default is one.    *)
LEMMA CascadeSet ==
    ASSUME NEW slot \in Slots, NEW s1 \in Services, NEW s2 \in Services
    PROVE  effective_ttl(slot, Mixed(s1, s2)) \in Nat \cup {Infinite}
<1>1. /\ SlotCascade(slot) \in Ttls /\ GroupCascade(s2) \in Ttls
      /\ s1["account"] \in Ttls
  BY SlotParts, ServiceParts DEF Services, ServiceTiers
<1>2. Fallback(slot) \in (Ttls \ {None}) \cup {DefaultTtl}
  BY First2, MarketDataAssumption DEF Fallback, Slots, SlotTiers
<1>3. (Ttls \ {None}) \cup {DefaultTtl} \subseteq Nat \cup {Infinite}
  BY MarketDataAssumption DEF Ttls
<1> QED BY <1>1, <1>2, <1>3, CascadeIs

(* A read leaves its last step by its own answer only.                     *)
LEMMA OnlyJudge ==
    ASSUME MarketTypeOK, MarketNext, NEW t \in Threads, pc[t] = "judge", pc'[t] # "judge"
    PROVE  Judge(t)
<1>1. ASSUME NEW u \in Threads, Publishes(u) \/ Tunes(u) \/ Reads(u) PROVE Judge(t)
  <2>1. pc' # pc
    OBVIOUS
  <2>2. ASSUME Publishes(u) PROVE pc[u] # "judge" /\ \E l : pc' = [pc EXCEPT ![u] = l]
    BY <2>1, <2>2 DEF Publishes, register, PushNamed, register_with_id, ResolveNamed,
          ClockNamed, Push, Store, Clear, Call, Done, Step
  <2>3. ASSUME Tunes(u) PROVE pc[u] # "judge" /\ \E l : pc' = [pc EXCEPT ![u] = l]
    BY <2>1, <2>3 DEF Tunes, SetSlotTtl, SetServiceTtl, ClearServiceTtl, mark_present,
          Call, Done, Step
  <2>4. ASSUME Reads(u), ~Judge(u)
        PROVE  pc[u] # "judge" /\ \E l : pc' = [pc EXCEPT ![u] = l]
    BY <2>1, <2>4 DEF Reads, Get, ReadGate, ReadAccountTtl, ReadGroupTtl, Step
  <2>5. ASSUME pc[u] # "judge", NEW l, pc' = [pc EXCEPT ![u] = l] PROVE FALSE
    BY <2>5 DEF MarketTypeOK
  <2>6. Judge(u)
    BY <1>1, <2>2, <2>3, <2>4, <2>5
  <2>7. u = t
    BY <2>6 DEF Judge, Step, MarketTypeOK
  <2> QED BY <2>6, <2>7
<1>2. ~Tick
  BY DEF Tick
<1> QED BY <1>1, <1>2 DEF MarketNext

(* Fresh compares an age, RunOut two moments.                              *)
LEMMA JudgeAnswers ==
    ASSUME MarketInv, NEW t \in Threads, Judge(t)
    PROVE  AnsweredInForce(t)
<1> DEFINE slot == slots[arg[t].slot]
           q == select_quote(slot)
<1>1. pc[t] = "judge" /\ pc[t] \in ReadSteps
  BY DEF Judge, ReadSteps
<1>2. /\ arg[t] \in ReadArgs /\ arg[t].quote = q /\ slot \in Slots
      /\ seen[t] \subseteq Services /\ clock \in Nat
  BY <1>1 DEF MarketInv, MarketTypeOK, Carries, Sees
<1>3. PICK s1, s2 \in seen[t] : FoundInForce(t, s1, s2)
  BY <1>1 DEF MarketInv, JudgedInForce
<1> DEFINE ttl == effective_ttl(slot, Mixed(s1, s2))
<1>4. ttl \in Nat \cup {Infinite} /\ arg[t].ttl = ttl
  BY <1>2, <1>3, CascadeSet DEF FoundInForce
<1>5. q.pushed_at \in Nat /\ q.source_age \in Nat
  BY <1>2, MarketDataAssumption DEF ReadArgs, Quotes
<1>6. answer'[t] = [kind |-> IF Fresh(q, ttl) THEN "quote" ELSE "expired", quote |-> q]
  BY <1>2, <1>4 DEF Judge, MarketInv, MarketTypeOK
<1>7. Fresh(q, ttl) <=> ~RunOut(q, ttl)
  <2> HIDE DEF q, ttl
  <2> QED BY <1>2, <1>4, <1>5 DEF Fresh, Age, RunOut
<1>8. /\ answer'[t].quote = q
      /\ answer'[t].kind = IF RunOut(q, ttl) THEN "expired" ELSE "quote"
  BY <1>6, <1>7
<1> QED BY <1>3, <1>8 DEF AnsweredInForce

(* A read answers the slot's quote, expired exactly by a lifetime in force *)
(* during the read, although it crosses the slot's guard, the gate and two *)
(* maps with locks of their own.                                           *)
THEOREM ReadsFollowLifetimes == MarketSpec => LifetimeInForce
<1>1. MarketInv /\ [MarketNext]_marketVars
        => [\A t \in Threads : AnsweredInForce(t)]_marketVars
  <2> SUFFICES ASSUME MarketInv, MarketNext, NEW t \in Threads PROVE AnsweredInForce(t)
    OBVIOUS
  <2>1. CASE pc[t] = "judge" /\ pc'[t] # "judge"
    BY <2>1, OnlyJudge, JudgeAnswers DEF MarketInv
  <2>2. CASE ~(pc[t] = "judge" /\ pc'[t] # "judge")
    BY <2>2 DEF AnsweredInForce
  <2> QED BY <2>1, <2>2
<1> QED BY <1>1, MarketDataInvariant, PTL DEF MarketSpec, LifetimeInForce

=============================================================================
