--------------------------- MODULE HoldingsIndex ---------------------------
(***************************************************************************)
(* The holdings store and its index by account                             *)
(* (crates/openpit/src/pretrade/holdings/store.rs over storage/storage.rs).*)
(*                                                                         *)
(* A slot is created or removed in one access to the holdings storage; the *)
(* index follows in a second one, in which the slot is looked up again.    *)
(* The lookup takes the holdings lock only for itself, so slots come and   *)
(* go between the lookup and the write it decides.  A call that neither    *)
(* creates nor removes a slot does not reach the index and is left out.    *)
(***************************************************************************)

CONSTANTS
    Callers,     \* threads that use the store
    Keys,        \* (account, asset) pairs
    AccountOf,   \* the account of a key
    NoCaller

ASSUME IndexAssumption == NoCaller \notin Callers

VARIABLES
    slots,       \* keys with a slot in the holdings storage
    creator,     \* [Keys -> Callers]: who inserted the slot that is there
    entries,     \* accounts with an entry in the index
    listed,      \* keys the index lists
    holder,      \* the caller inside the closure on an account's entry
    step,        \* [Callers -> program point]
    key,         \* [Callers -> key of the current call]
    found        \* [Callers -> what the lookup inside the closure saw]

indexVars == <<slots, creator, entries, listed, holder, step, key, found>>

AccountIds == {AccountOf[k] : k \in Keys}

IndexInit ==
    /\ slots = {} /\ entries = {} /\ listed = {}
    /\ creator \in [Keys -> Callers]
    /\ holder = [a \in AccountIds |-> NoCaller]
    /\ step = [t \in Callers |-> "idle"]
    /\ key \in [Callers -> Keys]
    /\ found = [t \in Callers |-> FALSE]

Empty(a) == \A k \in listed : AccountOf[k] # a

-----------------------------------------------------------------------------
(* with_mut, with_mut_or_insert and ..._prune_new_if_zero, on a miss and   *)
(* when the new slot stays: neither failed nor, in the pruning variant,    *)
(* left zero.  Otherwise the storage is as before and nothing is indexed.  *)
CreateSlot(t, k) ==
    /\ step[t] = "idle" /\ k \notin slots
    /\ slots' = slots \cup {k}
    /\ creator' = [creator EXCEPT ![k] = t]
    /\ step' = [step EXCEPT ![t] = "created"]
    /\ key' = [key EXCEPT ![t] = k]
    /\ UNCHANGED <<entries, listed, holder, found>>

(* remove, remove_if and remove_if_zero: the test and the removal are one  *)
(* access.                                                                 *)
RemoveSlot(t, k) ==
    /\ step[t] = "idle" /\ k \in slots
    /\ slots' = slots \ {k}
    /\ step' = [step EXCEPT ![t] = "removed"]
    /\ key' = [key EXCEPT ![t] = k]
    /\ UNCHANGED <<creator, entries, listed, holder, found>>

-----------------------------------------------------------------------------
(* The closure of an index access begins: it has the account's entry to    *)
(* itself and looks the slot up.                                           *)
LookUp(t, next) ==
    /\ holder[AccountOf[key[t]]] = NoCaller
    /\ holder' = [holder EXCEPT ![AccountOf[key[t]]] = t]
    /\ found' = [found EXCEPT ![t] = key[t] \in slots]
    /\ step' = [step EXCEPT ![t] = next]
    /\ UNCHANGED <<slots, creator, entries, listed, key>>

Leave(t, next) ==
    /\ holder' = [holder EXCEPT ![AccountOf[key[t]]] = NoCaller]
    /\ step' = [step EXCEPT ![t] = next]
    /\ UNCHANGED <<slots, creator, key, found>>

(* Mutant: the index lists the slot without looking it up again. *)
ListAlways(t) == TRUE

(* index_created_slot: whether the closure lists the slot. *)
Lists(t) == found[t]

(* Mutant: the index drops the slot without looking it up again. *)
DropAlways(t) == TRUE

(* unindex_removed_slot: whether the closure drops the slot. *)
Drops(t) == ~found[t]

BeginListing(t) == step[t] = "created" /\ LookUp(t, "listing")

(* index_created_slot: a new entry that stays empty is pruned at once.     *)
IndexCreated(t) ==
    /\ step[t] = "listing"
    /\ \/ /\ Lists(t)
          /\ listed' = listed \cup {key[t]}
          /\ entries' = entries \cup {AccountOf[key[t]]}
       \/ ~Lists(t) /\ UNCHANGED <<listed, entries>>
    /\ Leave(t, "idle")

BeginDropping(t) ==
    /\ step[t] = "removed" /\ AccountOf[key[t]] \in entries
    /\ LookUp(t, "dropping")

(* with_mut_if_present: nothing to do without an entry.                    *)
NothingIndexed(t) ==
    LET a == AccountOf[key[t]] IN
    /\ step[t] = "removed" /\ a \notin entries /\ holder[a] = NoCaller
    /\ step' = [step EXCEPT ![t] = "idle"]
    /\ UNCHANGED <<slots, creator, entries, listed, holder, key, found>>

(* unindex_removed_slot: an entry left empty is removed in another access. *)
UnindexRemoved(t) ==
    LET rest == IF Drops(t) THEN listed \ {key[t]} ELSE listed
        used == \E k \in rest : AccountOf[k] = AccountOf[key[t]]
    IN  /\ step[t] = "dropping"
        /\ listed' = rest
        /\ Leave(t, IF used THEN "idle" ELSE "pruning")
        /\ UNCHANGED entries

(* index.remove_if(is_empty): the entry may have been filled meanwhile.    *)
PruneEntry(t) ==
    LET a == AccountOf[key[t]] IN
    /\ step[t] = "pruning" /\ holder[a] = NoCaller
    /\ entries' = IF Empty(a) THEN entries \ {a} ELSE entries
    /\ step' = [step EXCEPT ![t] = "idle"]
    /\ UNCHANGED <<slots, creator, listed, holder, key, found>>

IndexNext ==
    \E t \in Callers :
        \/ \E k \in Keys : CreateSlot(t, k) \/ RemoveSlot(t, k)
        \/ BeginListing(t) \/ IndexCreated(t)
        \/ BeginDropping(t) \/ NothingIndexed(t) \/ UnindexRemoved(t)
        \/ PruneEntry(t)

IndexSpec == IndexInit /\ [][IndexNext]_indexVars

-----------------------------------------------------------------------------
Returned(t, k) == step[t] = "idle" \/ key[t] # k

(* "A slot is listed once its creating call has returned" (store.rs:80),   *)
(* although removals and creations of the same key overlap: a slot that is *)
(* not listed is one its creator is still about to list.                   *)
ListedOnceCreated ==
    \A k \in slots : Returned(creator[k], k) => k \in listed

(* "The index is exact at quiescence, and no empty account set survives"   *)
(* (store.rs:81-82).                                                       *)
ExactAtRest ==
    (\A t \in Callers : step[t] = "idle") =>
        /\ listed = slots
        /\ entries = {AccountOf[k] : k \in listed}

-----------------------------------------------------------------------------
(* The inductive invariant behind both. *)
IndexSteps == {"idle", "created", "listing", "removed", "dropping", "pruning"}

IndexTypeOK ==
    /\ slots \subseteq Keys /\ listed \subseteq Keys
    /\ entries \subseteq AccountIds
    /\ creator \in [Keys -> Callers]
    /\ holder \in [AccountIds -> Callers \cup {NoCaller}]
    /\ step \in [Callers -> IndexSteps]
    /\ key \in [Callers -> Keys]
    /\ found \in [Callers -> BOOLEAN]

(* One caller inside the closure on an entry, and the entry knows it.      *)
Inside(t) == step[t] \in {"listing", "dropping"}
EntryHeld ==
    /\ \A t \in Callers : Inside(t) => holder[AccountOf[key[t]]] = t
    /\ \A a \in AccountIds : holder[a] # NoCaller =>
          Inside(holder[a]) /\ AccountOf[key[holder[a]]] = a

(* A slot that is not listed is one its creator will list.                 *)
WillList(t, k) ==
    key[t] = k /\ (step[t] = "created" \/ (step[t] = "listing" /\ found[t]))
SlotsListed == \A k \in slots : k \in listed \/ WillList(creator[k], k)

(* A slot somebody drops has been created since, by a call that still has  *)
(* to enter the closure.                                                   *)
DropsOldSlot ==
    \A t \in Callers :
        step[t] = "dropping" /\ ~found[t] /\ key[t] \in slots =>
            step[creator[key[t]]] = "created" /\ key[creator[key[t]]] = key[t]

(* A key without a slot that is listed, or about to be, is one somebody    *)
(* will drop.                                                              *)
WillDrop(t, k) ==
    key[t] = k /\ (step[t] = "removed" \/ (step[t] = "dropping" /\ ~found[t]))
StaleDropped ==
    \A k \in Keys \ slots :
        k \in listed \/ (\E t \in Callers : step[t] = "listing" /\ found[t] /\ key[t] = k)
            => \E r \in Callers : WillDrop(r, k)

(* An entry is there for what is listed, and an empty one will be pruned.  *)
EntriesUsed ==
    /\ \A k \in listed : AccountOf[k] \in entries
    /\ \A a \in entries : Empty(a) =>
          \E t \in Callers : step[t] = "pruning" /\ AccountOf[key[t]] = a

IndexInv ==
    /\ IndexTypeOK /\ EntryHeld /\ SlotsListed /\ DropsOldSlot
    /\ StaleDropped /\ EntriesUsed
=============================================================================
