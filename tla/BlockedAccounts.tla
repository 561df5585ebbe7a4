-------------------------- MODULE BlockedAccounts --------------------------
(***************************************************************************)
(* The engine's set of blocked accounts and account groups                 *)
(* (crates/openpit/src/core/account_control.rs, BlockedAccounts) together  *)
(* with the group registry it consults (core/account_groups.rs).           *)
(*                                                                         *)
(* Mutators serialise on mutation_guard and change a map and the matching  *)
(* index flag in separate steps.  check takes no guard at all: it loads    *)
(* three flags and then looks into the maps, one atomic read at a time, so *)
(* any number of mutator steps can fall between two of its reads.          *)
(* Flag and map accesses are sequentially consistent here; the code uses   *)
(* Release stores, Acquire loads and a reader-writer lock per map.         *)
(***************************************************************************)
EXTENDS FiniteSets

CONSTANTS
    Accounts,               \* account ids
    Groups,                 \* account-group ids, the reserved one included
    DEFAULT_ACCOUNT_GROUP,  \* the reserved group
    OperatorCauses,         \* block causes without a provenance
    Tokens,                 \* causes raised by an assertion, named by its token
    Mutators,               \* threads that block and unblock
    Checkers,               \* threads that run check
    NoCause, NoAccount, NoGroup, NoThread

Causes == OperatorCauses \cup Tokens

ASSUME CausesAssumption ==
    /\ NoCause \notin Causes
    /\ OperatorCauses \cap Tokens = {}

ASSUME IdsAssumption ==
    /\ NoAccount \notin Accounts
    /\ NoGroup \notin Groups
    /\ DEFAULT_ACCOUNT_GROUP \in Groups
    /\ NoThread \notin Mutators

BlockableGroups == Groups \ {DEFAULT_ACCOUNT_GROUP}

VARIABLES
    guard,                    \* holder of mutation_guard, or NoThread
    any_flag, all_flag, blocked_groups_any_flag,
    accounts,                 \* [Accounts -> cause or NoCause]
    blocked_groups,           \* [Groups -> cause or NoCause]
    global_block,             \* cause or NoCause
    memberships,              \* [Accounts -> group or NoGroup]
    wpc, wop,                 \* each mutator's next step and operation
    cpc, caccount,            \* each check's next step and its account
    all_blocking, account_blocking, group_blocking, cgroup,  \* its locals
    verdict,                  \* what it returned
    \* History: blocks whose call has returned and that nobody began to lift,
    \* and, per check, what has been in force ever since the check began.
    settledAccounts, settledGroups, settledAll,
    held, covered

flags   == <<any_flag, all_flag, blocked_groups_any_flag>>
maps    == <<accounts, blocked_groups, global_block>>
locals  == <<cpc, caccount, all_blocking, account_blocking, group_blocking,
             cgroup, verdict>>
settled == <<settledAccounts, settledGroups, settledAll>>
history == <<settledAccounts, settledGroups, settledAll, held, covered>>
vars    == <<guard, any_flag, all_flag, blocked_groups_any_flag, accounts,
             blocked_groups, global_block, memberships, wpc, wop, cpc,
             caccount, all_blocking, account_blocking, group_blocking, cgroup,
             verdict, settledAccounts, settledGroups, settledAll, held,
             covered>>

Kinds == {"none", "block_account", "invalidate_provenance", "block_all",
          "block_all_with_cause", "unblock_all", "unblock_account",
          "replace_reason", "block_group", "unblock_group",
          "replace_group_reason"}

Targets  == Accounts \cup Groups \cup {NoAccount}
Op(k, t, c) == [kind |-> k, target |-> t, cause |-> c]
NoOp     == Op("none", NoAccount, NoCause)

MutatorSteps == {"idle", "store_any", "store_all", "clear_all", "probe_accounts",
                 "clear_any", "store_groups", "probe_groups", "clear_groups",
                 "unlock"}
CheckSteps   == {"idle", "load_all", "load_any", "load_groups", "accounts",
                 "group_of", "blocked_groups", "global", "done"}
Verdicts     == {"none", "admit", "specific", "generic", "unverifiable"}
SourceKinds  == {"account", "group", "all"}

(***************************************************************************)
(* The settled blocks that concern account a, by kind of source.  For a    *)
(* request whose account cannot be read, every settled block concerns it.  *)
(***************************************************************************)
SourcesOf(a, sa, sg, all, m) ==
    {k \in SourceKinds :
        \/ k = "account" /\ (IF a = NoAccount THEN sa # {} ELSE a \in sa)
        \/ k = "group"   /\ (IF a = NoAccount THEN sg # {} ELSE m[a] \in sg)
        \/ k = "all"     /\ all}

(* Every check in flight notices what is no longer in force after a step.  *)
Witness ==
    LET now(c) == SourcesOf(caccount[c], settledAccounts', settledGroups',
                            settledAll', memberships')
    IN  /\ held'    = [c \in Checkers |-> held[c] \cap now(c)]
        /\ covered' = [c \in Checkers |-> covered[c] /\ now(c) # {}]

Init ==
    /\ guard = NoThread
    /\ any_flag = FALSE /\ all_flag = FALSE /\ blocked_groups_any_flag = FALSE
    /\ accounts = [a \in Accounts |-> NoCause]
    /\ blocked_groups = [g \in Groups |-> NoCause]
    /\ global_block = NoCause
    /\ memberships = [a \in Accounts |-> NoGroup]
    /\ wpc = [w \in Mutators |-> "idle"]
    /\ wop = [w \in Mutators |-> NoOp]
    /\ cpc = [c \in Checkers |-> "idle"]
    /\ caccount = [c \in Checkers |-> NoAccount]
    /\ all_blocking = [c \in Checkers |-> FALSE]
    /\ account_blocking = [c \in Checkers |-> FALSE]
    /\ group_blocking = [c \in Checkers |-> FALSE]
    /\ cgroup = [c \in Checkers |-> NoGroup]
    /\ verdict = [c \in Checkers |-> "none"]
    /\ settledAccounts = {} /\ settledGroups = {} /\ settledAll = FALSE
    /\ held = [c \in Checkers |-> {}]
    /\ covered = [c \in Checkers |-> FALSE]

-----------------------------------------------------------------------------
(***************************************************************************)
(* Mutators.  The first step of every operation takes the guard and does   *)
(* the first access; nothing can depend on the guard alone, so the two are *)
(* one step.  The last step, Unlock, drops the guard as the call returns.  *)
(***************************************************************************)
\* Mutant: the operation does not wait for the guard.
AcquireUnguarded(w) == guard' = w
Acquire(w) == guard = NoThread /\ guard' = w

Begin(w, op, next) ==
    /\ wpc[w] = "idle"
    /\ Acquire(w)
    /\ wop' = [wop EXCEPT ![w] = op]
    /\ wpc' = [wpc EXCEPT ![w] = next]

Goto(w, from, next) ==
    /\ wpc[w] = from
    /\ wpc' = [wpc EXCEPT ![w] = next]
    /\ UNCHANGED <<guard, wop>>

\* Mutant: the last cause wins.
InsertOverwriting(map, key, cause) == [map EXCEPT ![key] = cause]

\* with_mut and an occupancy test: the first cause wins.
InsertIfAbsent(map, key, cause) ==
    IF map[key] = NoCause THEN [map EXCEPT ![key] = cause] ELSE map

BlockAccount(w, id, cause) ==
    /\ Begin(w, Op("block_account", id, cause), "store_any")
    /\ accounts' = InsertIfAbsent(accounts, id, cause)
    /\ UNCHANGED <<flags, blocked_groups, global_block, memberships, locals,
                   history>>

(* block_all: the global block without a stored cause. *)
BlockAll(w) ==
    /\ Begin(w, Op("block_all", NoAccount, NoCause), "store_all")
    /\ any_flag' = TRUE
    /\ UNCHANGED <<all_flag, blocked_groups_any_flag, maps, memberships, locals,
                   history>>

BlockAllWithCause(w, cause) ==
    /\ Begin(w, Op("block_all_with_cause", NoAccount, cause), "store_any")
    /\ global_block' = IF global_block = NoCause THEN cause ELSE global_block
    /\ UNCHANGED <<flags, accounts, blocked_groups, memberships, locals, history>>

UnblockAll(w) ==
    /\ Begin(w, Op("unblock_all", NoAccount, NoCause), "clear_all")
    /\ global_block' = NoCause
    /\ settledAll' = FALSE
    /\ UNCHANGED <<flags, accounts, blocked_groups, memberships, locals,
                   settledAccounts, settledGroups>>
    /\ Witness

UnblockAccount(w, id) ==
    /\ Begin(w, Op("unblock_account", id, NoCause), "probe_accounts")
    /\ accounts' = [accounts EXCEPT ![id] = NoCause]
    /\ settledAccounts' = settledAccounts \ {id}
    /\ UNCHANGED <<flags, blocked_groups, global_block, memberships, locals,
                   settledGroups, settledAll>>
    /\ Witness

\* Mutant: the provenance of the stored cause is not compared.
InvalidateAnyCause(w, id, provenance) ==
    /\ Begin(w, Op("invalidate_provenance", id, provenance), "probe_accounts")
    /\ accounts' = [accounts EXCEPT ![id] = NoCause]
    /\ settledAccounts' = settledAccounts \ {id}
    /\ UNCHANGED <<flags, blocked_groups, global_block, memberships, locals,
                   settledGroups, settledAll>>
    /\ Witness

(* Removes the block only when its cause still carries this provenance. *)
InvalidateProvenance(w, id, provenance) ==
    /\ LET matches == accounts[id] = provenance
       IN  /\ Begin(w, Op("invalidate_provenance", id, provenance),
                    IF matches THEN "probe_accounts" ELSE "unlock")
           /\ accounts' = IF matches THEN [accounts EXCEPT ![id] = NoCause]
                                     ELSE accounts
           /\ settledAccounts' = IF matches THEN settledAccounts \ {id}
                                            ELSE settledAccounts
    /\ UNCHANGED <<flags, blocked_groups, global_block, memberships, locals,
                   settledGroups, settledAll>>
    /\ Witness

(* Overwrites a present cause; fails without inserting when there is none. *)
ReplaceReason(w, id, cause) ==
    /\ Begin(w, Op("replace_reason", id, cause), "unlock")
    /\ accounts' = IF accounts[id] = NoCause THEN accounts
                   ELSE [accounts EXCEPT ![id] = cause]
    /\ UNCHANGED <<flags, blocked_groups, global_block, memberships, locals,
                   history>>

BlockGroup(w, g, cause) ==
    /\ g # DEFAULT_ACCOUNT_GROUP
    /\ Begin(w, Op("block_group", g, cause), "store_groups")
    /\ blocked_groups' = InsertIfAbsent(blocked_groups, g, cause)
    /\ UNCHANGED <<flags, accounts, global_block, memberships, locals, history>>

UnblockGroup(w, g) ==
    /\ g # DEFAULT_ACCOUNT_GROUP
    /\ Begin(w, Op("unblock_group", g, NoCause), "probe_groups")
    /\ blocked_groups' = [blocked_groups EXCEPT ![g] = NoCause]
    /\ settledGroups' = settledGroups \ {g}
    /\ UNCHANGED <<flags, accounts, global_block, memberships, locals,
                   settledAccounts, settledAll>>
    /\ Witness

ReplaceGroupReason(w, g, cause) ==
    /\ g # DEFAULT_ACCOUNT_GROUP
    /\ Begin(w, Op("replace_group_reason", g, cause), "unlock")
    /\ blocked_groups' = IF blocked_groups[g] = NoCause THEN blocked_groups
                         ELSE [blocked_groups EXCEPT ![g] = cause]
    /\ UNCHANGED <<flags, accounts, global_block, memberships, locals, history>>

StoreAny(w) ==
    /\ Goto(w, "store_any",
            IF wop[w].kind = "block_account" THEN "unlock" ELSE "store_all")
    /\ any_flag' = TRUE
    /\ UNCHANGED <<all_flag, blocked_groups_any_flag, maps, memberships, locals,
                   history>>

StoreAll(w) ==
    /\ Goto(w, "store_all", "unlock")
    /\ all_flag' = TRUE
    /\ UNCHANGED <<any_flag, blocked_groups_any_flag, maps, memberships, locals,
                   history>>

ClearAll(w) ==
    /\ Goto(w, "clear_all", "probe_accounts")
    /\ all_flag' = FALSE
    /\ UNCHANGED <<any_flag, blocked_groups_any_flag, maps, memberships, locals,
                   history>>

AccountsEmpty == \A a \in Accounts : accounts[a] = NoCause

\* Mutant: a standing global block is forgotten.
ProbeEmptyOnly == AccountsEmpty

ProbeClear == AccountsEmpty /\ ~all_flag

(* is_empty of the per-account map, and all_flag; unblock_all has cleared  *)
(* all_flag one step before, so its probe of the map alone is the same.    *)
ProbeAccounts(w) ==
    /\ Goto(w, "probe_accounts", IF ProbeClear THEN "clear_any" ELSE "unlock")
    /\ UNCHANGED <<flags, maps, memberships, locals, history>>

ClearAny(w) ==
    /\ Goto(w, "clear_any", "unlock")
    /\ any_flag' = FALSE
    /\ UNCHANGED <<all_flag, blocked_groups_any_flag, maps, memberships, locals,
                   history>>

StoreGroups(w) ==
    /\ Goto(w, "store_groups", "unlock")
    /\ blocked_groups_any_flag' = TRUE
    /\ UNCHANGED <<any_flag, all_flag, maps, memberships, locals, history>>

GroupsEmpty == \A g \in Groups : blocked_groups[g] = NoCause

ProbeGroups(w) ==
    /\ Goto(w, "probe_groups", IF GroupsEmpty THEN "clear_groups" ELSE "unlock")
    /\ UNCHANGED <<flags, maps, memberships, locals, history>>

ClearGroups(w) ==
    /\ Goto(w, "clear_groups", "unlock")
    /\ blocked_groups_any_flag' = FALSE
    /\ UNCHANGED <<any_flag, all_flag, maps, memberships, locals, history>>

(* The call returns: from here on a block is settled. *)
Unlock(w) ==
    /\ wpc[w] = "unlock"
    /\ wpc' = [wpc EXCEPT ![w] = "idle"]
    /\ guard' = NoThread
    /\ settledAccounts' = IF wop[w].kind = "block_account"
                          THEN settledAccounts \cup {wop[w].target}
                          ELSE settledAccounts
    /\ settledGroups' = IF wop[w].kind = "block_group"
                        THEN settledGroups \cup {wop[w].target}
                        ELSE settledGroups
    /\ settledAll' = (settledAll \/ wop[w].kind \in
                                        {"block_all", "block_all_with_cause"})
    /\ wop' = [wop EXCEPT ![w] = NoOp]
    /\ UNCHANGED <<flags, maps, memberships, locals, held, covered>>

-----------------------------------------------------------------------------
(***************************************************************************)
(* The group registry: a registration is all-or-nothing under its own      *)
(* exclusive guard, so for group_of, which takes it shared, it is one step.*)
(***************************************************************************)
RegisterGroup(S, g) ==
    /\ g # DEFAULT_ACCOUNT_GROUP
    /\ \A a \in S : memberships[a] = NoGroup
    /\ memberships' = [a \in Accounts |-> IF a \in S THEN g ELSE memberships[a]]
    /\ UNCHANGED <<guard, flags, maps, wpc, wop, locals, settled>>
    /\ Witness

UnregisterGroup(S, g) ==
    /\ g # DEFAULT_ACCOUNT_GROUP
    /\ \A a \in S : memberships[a] = g
    /\ memberships' = [a \in Accounts |-> IF a \in S THEN NoGroup
                                                     ELSE memberships[a]]
    /\ UNCHANGED <<guard, flags, maps, wpc, wop, locals, settled>>
    /\ Witness

(* The account is retired; its block goes by an unblock_account of its own. *)
RetireAccount(a) ==
    /\ memberships' = [memberships EXCEPT ![a] = NoGroup]
    /\ UNCHANGED <<guard, flags, maps, wpc, wop, locals, settled>>
    /\ Witness

-----------------------------------------------------------------------------
(***************************************************************************)
(* check / is_blocked (with_blocking_cause): one shared read per step.     *)
(***************************************************************************)
CallCheck(c, a) ==
    /\ cpc[c] = "idle"
    /\ cpc' = [cpc EXCEPT ![c] = "load_all"]
    /\ caccount' = [caccount EXCEPT ![c] = a]
    /\ LET now == SourcesOf(a, settledAccounts, settledGroups, settledAll,
                            memberships)
       IN  /\ held' = [held EXCEPT ![c] = now]
           /\ covered' = [covered EXCEPT ![c] = (now # {})]
    /\ UNCHANGED <<guard, flags, maps, memberships, wpc, wop, all_blocking,
                   account_blocking, group_blocking, cgroup, verdict, settled>>

Continue(c, next) ==
    /\ cpc' = [cpc EXCEPT ![c] = next]
    /\ UNCHANGED <<caccount, verdict, held, covered>>

Return(c, v) ==
    /\ cpc' = [cpc EXCEPT ![c] = "done"]
    /\ verdict' = [verdict EXCEPT ![c] = v]
    /\ UNCHANGED <<caccount, held, covered>>

Shared == <<guard, flags, maps, memberships, wpc, wop, settled>>

LoadAll(c) ==
    /\ cpc[c] = "load_all"
    /\ all_blocking' = [all_blocking EXCEPT ![c] = all_flag]
    /\ account_blocking' = [account_blocking EXCEPT ![c] = all_flag]
    /\ Continue(c, IF all_flag THEN "load_groups" ELSE "load_any")
    /\ UNCHANGED <<Shared, group_blocking, cgroup>>

LoadAny(c) ==
    /\ cpc[c] = "load_any"
    /\ account_blocking' = [account_blocking EXCEPT ![c] = any_flag]
    /\ Continue(c, "load_groups")
    /\ UNCHANGED <<Shared, all_blocking, group_blocking, cgroup>>

(* Loads the third flag, then leaves at once when nothing is blocked, or   *)
(* when something is but the account cannot be identified.                 *)
LoadGroups(c) ==
    /\ cpc[c] = "load_groups"
    /\ group_blocking' = [group_blocking EXCEPT ![c] = blocked_groups_any_flag]
    /\ IF ~account_blocking[c] /\ ~blocked_groups_any_flag
       THEN Return(c, "admit")
       ELSE IF caccount[c] = NoAccount
       THEN Return(c, "unverifiable")
       ELSE Continue(c, IF account_blocking[c] THEN "accounts" ELSE "group_of")
    /\ UNCHANGED <<Shared, all_blocking, account_blocking, cgroup>>

(* What is left once the per-account and the group lookups found nothing.  *)
GlobalOrAdmit(c) ==
    IF all_blocking[c] THEN Continue(c, "global") ELSE Return(c, "admit")

LookupAccounts(c) ==
    /\ cpc[c] = "accounts"
    /\ IF accounts[caccount[c]] # NoCause THEN Return(c, "specific")
       ELSE IF group_blocking[c] THEN Continue(c, "group_of")
       ELSE GlobalOrAdmit(c)
    /\ UNCHANGED <<Shared, all_blocking, account_blocking, group_blocking, cgroup>>

GroupOf(c) ==
    /\ cpc[c] = "group_of"
    /\ cgroup' = [cgroup EXCEPT ![c] = memberships[caccount[c]]]
    /\ IF memberships[caccount[c]] # NoGroup THEN Continue(c, "blocked_groups")
       ELSE GlobalOrAdmit(c)
    /\ UNCHANGED <<Shared, all_blocking, account_blocking, group_blocking>>

LookupGroups(c) ==
    /\ cpc[c] = "blocked_groups"
    /\ IF blocked_groups[cgroup[c]] # NoCause THEN Return(c, "specific")
       ELSE GlobalOrAdmit(c)
    /\ UNCHANGED <<Shared, all_blocking, account_blocking, group_blocking, cgroup>>

(* all_blocking was loaded at the start: the answer is a reject even when  *)
(* the global block has been lifted since, then with the generic text.     *)
LookupGlobal(c) ==
    /\ cpc[c] = "global"
    /\ Return(c, IF global_block # NoCause THEN "specific" ELSE "generic")
    /\ UNCHANGED <<Shared, all_blocking, account_blocking, group_blocking, cgroup>>

(* The caller is done with the answer; the check's locals go out of scope. *)
Finish(c) ==
    /\ cpc[c] = "done"
    /\ cpc' = [cpc EXCEPT ![c] = "idle"]
    /\ caccount' = [caccount EXCEPT ![c] = NoAccount]
    /\ all_blocking' = [all_blocking EXCEPT ![c] = FALSE]
    /\ account_blocking' = [account_blocking EXCEPT ![c] = FALSE]
    /\ group_blocking' = [group_blocking EXCEPT ![c] = FALSE]
    /\ cgroup' = [cgroup EXCEPT ![c] = NoGroup]
    /\ verdict' = [verdict EXCEPT ![c] = "none"]
    /\ held' = [held EXCEPT ![c] = {}]
    /\ covered' = [covered EXCEPT ![c] = FALSE]
    /\ UNCHANGED Shared

-----------------------------------------------------------------------------
MutatorNext(w) ==
    \/ \E id \in Accounts :
          \/ \E cause \in Causes : BlockAccount(w, id, cause)
          \/ \E cause \in OperatorCauses : ReplaceReason(w, id, cause)
          \/ \E token \in Tokens : InvalidateProvenance(w, id, token)
          \/ UnblockAccount(w, id)
    \/ \E cause \in OperatorCauses : BlockAllWithCause(w, cause)
    \/ BlockAll(w)
    \/ UnblockAll(w)
    \/ \E g \in Groups :
          \/ \E cause \in OperatorCauses : \/ BlockGroup(w, g, cause)
                                           \/ ReplaceGroupReason(w, g, cause)
          \/ UnblockGroup(w, g)
    \/ StoreAny(w) \/ StoreAll(w) \/ ClearAll(w) \/ ProbeAccounts(w)
    \/ ClearAny(w) \/ StoreGroups(w) \/ ProbeGroups(w) \/ ClearGroups(w)
    \/ Unlock(w)

CheckerNext(c) ==
    \/ \E a \in Accounts \cup {NoAccount} : CallCheck(c, a)
    \/ LoadAll(c) \/ LoadAny(c) \/ LoadGroups(c) \/ LookupAccounts(c)
    \/ GroupOf(c) \/ LookupGroups(c) \/ LookupGlobal(c) \/ Finish(c)

RegistryNext ==
    \/ \E S \in SUBSET Accounts, g \in Groups :
          S # {} /\ (RegisterGroup(S, g) \/ UnregisterGroup(S, g))
    \/ \E a \in Accounts : RetireAccount(a)

Next ==
    \/ \E w \in Mutators : MutatorNext(w)
    \/ \E c \in Checkers : CheckerNext(c)
    \/ RegistryNext

Spec == Init /\ [][Next]_vars

-----------------------------------------------------------------------------
(* Type correctness of the maps, the flags, the threads and the history.   *)
TypeOK ==
    /\ guard \in Mutators \cup {NoThread}
    /\ any_flag \in BOOLEAN /\ all_flag \in BOOLEAN
    /\ blocked_groups_any_flag \in BOOLEAN
    /\ accounts \in [Accounts -> Causes \cup {NoCause}]
    /\ blocked_groups \in [Groups -> Causes \cup {NoCause}]
    /\ global_block \in Causes \cup {NoCause}
    /\ memberships \in [Accounts -> Groups \cup {NoGroup}]
    /\ wpc \in [Mutators -> MutatorSteps]
    /\ wop \in [Mutators -> [kind : Kinds, target : Targets,
                             cause : Causes \cup {NoCause}]]
    /\ cpc \in [Checkers -> CheckSteps]
    /\ caccount \in [Checkers -> Accounts \cup {NoAccount}]
    /\ all_blocking \in [Checkers -> BOOLEAN]
    /\ account_blocking \in [Checkers -> BOOLEAN]
    /\ group_blocking \in [Checkers -> BOOLEAN]
    /\ cgroup \in [Checkers -> Groups \cup {NoGroup}]
    /\ verdict \in [Checkers -> Verdicts]
    /\ settledAccounts \in SUBSET Accounts
    /\ settledGroups \in SUBSET Groups
    /\ settledAll \in BOOLEAN
    /\ held \in [Checkers -> SUBSET SourceKinds]
    /\ covered \in [Checkers -> BOOLEAN]

(***************************************************************************)
(* The doc comments of any_flag, all_flag and blocked_groups_any_flag:     *)
(* between operations a flag is up exactly when there is something it      *)
(* announces, so blocking is never invisible to the fast path and the      *)
(* all-clear fast path is always restored.                                 *)
(***************************************************************************)
FlagsExact ==
    guard = NoThread =>
        /\ any_flag <=> (~AccountsEmpty \/ all_flag)
        /\ blocked_groups_any_flag <=> ~GroupsEmpty
        /\ global_block # NoCause => all_flag
        /\ all_flag <=> settledAll

(***************************************************************************)
(* A block that was in place when check began, and that nobody began to    *)
(* lift before check returned, is never missed, however the check's reads  *)
(* interleave with the blocking and unblocking of everything else.         *)
(***************************************************************************)
NoMissedBlock ==
    \A c \in Checkers : verdict[c] = "admit" => held[c] = {}

(***************************************************************************)
(* A cause once recorded for an account stays its cause until an operator  *)
(* replaces or lifts it, or the assertion that raised it is rolled back:   *)
(* a later cause never overwrites it and a rolled-back assertion never     *)
(* lifts a block that is no longer its own.                                *)
(***************************************************************************)
KeepsCauses ==
    \A a \in Accounts :
        (accounts[a] # NoCause /\ accounts'[a] # accounts[a]) =>
            /\ guard' \in Mutators
            /\ wop'[guard'].target = a
            /\ \/ wop'[guard'].kind \in {"unblock_account", "replace_reason"}
               \/ /\ wop'[guard'].kind = "invalidate_provenance"
                  /\ accounts[a] = wop'[guard'].cause
                  /\ accounts[a] \in Tokens

CauseOwnership == [][KeepsCauses]_vars

(***************************************************************************)
(* What the doc comment of BlockedAccounts suggests of a check in flight:  *)
(* it "observes completed writes" and "may still act on the old state", so *)
(* an account that is blocked at every instant between the call and the    *)
(* return is rejected.  The code does not give this when one block takes   *)
(* over from another during the check.                                     *)
(***************************************************************************)
ActsOnSomeState ==
    \A c \in Checkers : verdict[c] = "admit" => ~covered[c]
=============================================================================
