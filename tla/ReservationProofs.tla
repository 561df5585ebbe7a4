--------------------------- MODULE ReservationProofs ---------------------------
(***************************************************************************)
(* What a reservation holds and how its handle is resolved.                *)
(*                                                                         *)
(* The index of the holdings store follows the store, for any number of    *)
(* callers, accounts and assets: IndexInv is inductive, and it implies     *)
(* what store.rs promises of account_assets.  Then the amounts of a slot:  *)
(* no order spends funds that another order has reserved, the books of a   *)
(* slot balance against its live orders, and a bounded position stays      *)
(* within its limit.                                                       *)
(*                                                                         *)
(* The asynchronous handle, for every number of readers and finalizers:    *)
(* its invariant, one native resolution, reads that no finalizer disturbs, *)
(* and the abstract access specification it implements.  Then the chain,   *)
(* for plans of any length: its handles, its error and its Finally.        *)
(***************************************************************************)
EXTENDS Holdings, HoldingsIndex, AsyncHandle, Chain,
        SequenceTheorems, FiniteSetTheorems, WellFoundedInduction, TLAPS

LEMMA InitInv == IndexInit => IndexInv
  BY DEF IndexInit, IndexInv, IndexTypeOK, EntryHeld, Inside, SlotsListed, DropsOldSlot,
         StaleDropped, EntriesUsed, Empty, AccountIds, IndexSteps

LEMMA Accounts == ASSUME IndexTypeOK, NEW t \in Callers PROVE AccountOf[key[t]] \in AccountIds
  BY DEF IndexTypeOK, AccountIds

LEMMA Stutter == IndexInv /\ UNCHANGED indexVars => IndexInv'
  BY DEF indexVars, IndexInv, IndexTypeOK, EntryHeld, Inside, SlotsListed, WillList, DropsOldSlot,
         StaleDropped, WillDrop, EntriesUsed, Empty

(* Both ends of a call to the holdings storage. *)
LEMMA CreateInv ==
  ASSUME IndexInv, NEW t \in Callers, NEW k \in Keys, CreateSlot(t, k)
  PROVE  IndexInv'
PROOF
  <1> USE DEF CreateSlot
  <1>t. IndexTypeOK /\ AccountOf[key[t]] \in AccountIds
    BY Accounts DEF IndexInv
  <1>1. IndexTypeOK'
    BY <1>t DEF IndexTypeOK, IndexSteps, AccountIds
  <1>2. EntryHeld'
    BY <1>t, IndexAssumption DEF IndexInv, IndexTypeOK, EntryHeld, Inside
  <1>3. SlotsListed'
    BY <1>t DEF IndexInv, IndexTypeOK, SlotsListed, WillList
  <1>4. DropsOldSlot'
    BY <1>t DEF IndexInv, IndexTypeOK, DropsOldSlot
  <1>5. StaleDropped'
    <2> SUFFICES ASSUME NEW j \in Keys \ slots',
                        (j \in listed \/ \E u \in Callers :
                           step[u] = "listing" /\ found[u] /\ key[u] = j)'
                 PROVE  \E r \in Callers : WillDrop(r, j)'
      BY DEF StaleDropped
    <2>1. PICK r \in Callers : WillDrop(r, j)
      BY <1>t DEF IndexInv, IndexTypeOK, StaleDropped
    <2>2. r # t
      BY <2>1 DEF WillDrop
    <2> QED BY <1>t, <2>1, <2>2 DEF WillDrop, IndexTypeOK
  <1>6. EntriesUsed'
    BY <1>t DEF IndexInv, IndexTypeOK, EntriesUsed, Empty
  <1> QED BY <1>1, <1>2, <1>3, <1>4, <1>5, <1>6 DEF IndexInv

LEMMA RemoveInv ==
  ASSUME IndexInv, NEW t \in Callers, NEW k \in Keys, RemoveSlot(t, k)
  PROVE  IndexInv'
PROOF
  <1> USE DEF RemoveSlot
  <1>t. IndexTypeOK /\ AccountOf[key[t]] \in AccountIds
    BY Accounts DEF IndexInv
  <1>1. IndexTypeOK'
    BY <1>t DEF IndexTypeOK, IndexSteps, AccountIds
  <1>2. EntryHeld'
    BY <1>t, IndexAssumption DEF IndexInv, IndexTypeOK, EntryHeld, Inside
  <1>3. SlotsListed'
    BY <1>t DEF IndexInv, IndexTypeOK, SlotsListed, WillList
  <1>4. DropsOldSlot'
    BY <1>t DEF IndexInv, IndexTypeOK, DropsOldSlot
  <1>5. StaleDropped'
    <2> SUFFICES ASSUME NEW j \in Keys \ slots',
                        (j \in listed \/ \E u \in Callers :
                           step[u] = "listing" /\ found[u] /\ key[u] = j)'
                 PROVE  \E r \in Callers : WillDrop(r, j)'
      BY DEF StaleDropped
    <2>1. CASE j = k
      BY <1>t, <2>1 DEF WillDrop, IndexTypeOK
    <2>2. CASE j # k
      <3>1. PICK r \in Callers : WillDrop(r, j)
        BY <1>t, <2>2 DEF IndexInv, IndexTypeOK, StaleDropped
      <3>2. r # t
        BY <3>1 DEF WillDrop
      <3> QED BY <1>t, <3>1, <3>2 DEF WillDrop, IndexTypeOK
    <2> QED BY <2>1, <2>2
  <1>6. EntriesUsed'
    BY <1>t DEF IndexInv, IndexTypeOK, EntriesUsed, Empty
  <1> QED BY <1>1, <1>2, <1>3, <1>4, <1>5, <1>6 DEF IndexInv

(* The two ways into the closure. *)
LEMMA BeginListingInv ==
  ASSUME IndexInv, NEW t \in Callers, BeginListing(t)
  PROVE  IndexInv'
PROOF
  <1> USE DEF BeginListing, LookUp
  <1>t. IndexTypeOK /\ AccountOf[key[t]] \in AccountIds
    BY Accounts DEF IndexInv
  <1>1. IndexTypeOK'
    BY <1>t DEF IndexTypeOK, IndexSteps
  <1>2. EntryHeld'
    BY <1>t, IndexAssumption DEF IndexInv, IndexTypeOK, EntryHeld, Inside
  <1>3. SlotsListed'
    <2> SUFFICES ASSUME NEW k \in slots, k \notin listed
                 PROVE  WillList(creator[k], k)'
      BY DEF SlotsListed
    <2>1. creator[k] \in Callers /\ WillList(creator[k], k)
      BY <1>t DEF IndexInv, SlotsListed, IndexTypeOK
    <2>2. CASE creator[k] = t
      <3>1. key[t] = k
        BY <2>1, <2>2 DEF WillList
      <3>2. found'[t] = TRUE
        BY <1>t, <3>1 DEF IndexTypeOK
      <3> QED BY <1>t, <2>2, <3>1, <3>2 DEF WillList, IndexTypeOK
    <2>3. CASE creator[k] # t
      BY <1>t, <2>1, <2>3 DEF WillList, IndexTypeOK
    <2> QED BY <2>2, <2>3
  <1>4. DropsOldSlot'
    BY <1>t, IndexAssumption DEF IndexInv, IndexTypeOK, DropsOldSlot, EntryHeld, Inside
  <1>5. StaleDropped'
    <2> SUFFICES ASSUME NEW j \in Keys \ slots',
                        (j \in listed \/ \E u \in Callers :
                           step[u] = "listing" /\ found[u] /\ key[u] = j)'
                 PROVE  \E r \in Callers : WillDrop(r, j)'
      BY DEF StaleDropped
    <2>1. PICK r \in Callers : WillDrop(r, j)
      BY <1>t DEF IndexInv, IndexTypeOK, StaleDropped
    <2>2. r # t
      BY <2>1 DEF WillDrop
    <2> QED BY <1>t, <2>1, <2>2 DEF WillDrop, IndexTypeOK
  <1>6. EntriesUsed'
    BY <1>t DEF IndexInv, IndexTypeOK, EntriesUsed, Empty
  <1> QED BY <1>1, <1>2, <1>3, <1>4, <1>5, <1>6 DEF IndexInv

LEMMA BeginDroppingInv ==
  ASSUME IndexInv, NEW t \in Callers, BeginDropping(t)
  PROVE  IndexInv'
PROOF
  <1> USE DEF BeginDropping, LookUp
  <1>t. IndexTypeOK /\ AccountOf[key[t]] \in AccountIds
    BY Accounts DEF IndexInv
  <1>1. IndexTypeOK'
    BY <1>t DEF IndexTypeOK, IndexSteps
  <1>2. EntryHeld'
    BY <1>t, IndexAssumption DEF IndexInv, IndexTypeOK, EntryHeld, Inside
  <1>3. SlotsListed'
    BY <1>t DEF IndexInv, IndexTypeOK, SlotsListed, WillList
  <1>4. DropsOldSlot'
    BY <1>t DEF IndexInv, IndexTypeOK, DropsOldSlot
  <1>5. StaleDropped'
    <2> SUFFICES ASSUME NEW j \in Keys \ slots',
                        (j \in listed \/ \E u \in Callers :
                           step[u] = "listing" /\ found[u] /\ key[u] = j)'
                 PROVE  \E r \in Callers : WillDrop(r, j)'
      BY DEF StaleDropped
    <2>1. PICK r \in Callers : WillDrop(r, j)
      BY <1>t DEF IndexInv, IndexTypeOK, StaleDropped
    <2> QED BY <1>t, <2>1 DEF WillDrop, IndexTypeOK
  <1>6. EntriesUsed'
    BY <1>t DEF IndexInv, IndexTypeOK, EntriesUsed, Empty
  <1> QED BY <1>1, <1>2, <1>3, <1>4, <1>5, <1>6 DEF IndexInv

(* The closure of index_created_slot. *)
LEMMA IndexCreatedInv ==
  ASSUME IndexInv, NEW t \in Callers, IndexCreated(t)
  PROVE  IndexInv'
PROOF
  <1> USE DEF IndexCreated, Leave, Lists
  <1>t. IndexTypeOK /\ AccountOf[key[t]] \in AccountIds
    BY Accounts DEF IndexInv
  <1>1. IndexTypeOK'
    BY <1>t DEF IndexTypeOK, IndexSteps, AccountIds
  <1>2. EntryHeld'
    BY <1>t, IndexAssumption DEF IndexInv, IndexTypeOK, EntryHeld, Inside
  <1>3. SlotsListed'
    BY <1>t DEF IndexInv, IndexTypeOK, SlotsListed, WillList
  <1>4. DropsOldSlot'
    BY <1>t DEF IndexInv, IndexTypeOK, DropsOldSlot
  <1>5. StaleDropped'
    <2> SUFFICES ASSUME NEW j \in Keys \ slots',
                        (j \in listed \/ \E u \in Callers :
                           step[u] = "listing" /\ found[u] /\ key[u] = j)'
                 PROVE  \E r \in Callers : WillDrop(r, j)'
      BY DEF StaleDropped
    <2>1. PICK r \in Callers : WillDrop(r, j)
      BY <1>t DEF IndexInv, IndexTypeOK, StaleDropped
    <2>2. r # t
      BY <2>1 DEF WillDrop
    <2> QED BY <1>t, <2>1, <2>2 DEF WillDrop, IndexTypeOK
  <1>6. EntriesUsed'
    <2>1. /\ \A a \in entries' : a \in entries \/ (a = AccountOf[key[t]] /\ key[t] \in listed')
          /\ \A j \in listed' : j \in listed \/ AccountOf[j] \in entries'
          /\ entries \subseteq entries' /\ listed \subseteq listed'
      BY Zenon
    <2>2. \A u \in Callers : step[u] = "pruning" => step'[u] = "pruning"
      BY <1>t DEF IndexTypeOK
    <2> QED BY <1>t, <2>1, <2>2 DEF IndexInv, IndexTypeOK, EntriesUsed, Empty
  <1> QED BY <1>1, <1>2, <1>3, <1>4, <1>5, <1>6 DEF IndexInv

(* The three ways unindex_removed_slot goes on. *)
LEMMA NothingIndexedInv ==
  ASSUME IndexInv, NEW t \in Callers, NothingIndexed(t)
  PROVE  IndexInv'
PROOF
  <1> USE DEF NothingIndexed
  <1>t. IndexTypeOK /\ AccountOf[key[t]] \in AccountIds
    BY Accounts DEF IndexInv
  <1>1. IndexTypeOK'
    BY <1>t DEF IndexTypeOK, IndexSteps
  <1>2. EntryHeld'
    BY <1>t, IndexAssumption DEF IndexInv, IndexTypeOK, EntryHeld, Inside
  <1>3. SlotsListed'
    BY <1>t DEF IndexInv, IndexTypeOK, SlotsListed, WillList
  <1>4. DropsOldSlot'
    BY <1>t DEF IndexInv, IndexTypeOK, DropsOldSlot
  <1>5. StaleDropped'
    <2> SUFFICES ASSUME NEW j \in Keys \ slots',
                        (j \in listed \/ \E u \in Callers :
                           step[u] = "listing" /\ found[u] /\ key[u] = j)'
                 PROVE  \E r \in Callers : WillDrop(r, j)'
      BY DEF StaleDropped
    <2>1. j \in listed \/ \E u \in Callers : step[u] = "listing" /\ found[u] /\ key[u] = j
      BY <1>t DEF IndexTypeOK
    <2>2. j # key[t]
      BY <2>1, IndexAssumption DEF IndexInv, EntriesUsed, EntryHeld, Inside
    <2>3. PICK r \in Callers : WillDrop(r, j)
      BY <2>1 DEF IndexInv, StaleDropped
    <2> QED BY <1>t, <2>2, <2>3 DEF WillDrop, IndexTypeOK
  <1>6. EntriesUsed'
    BY <1>t DEF IndexInv, IndexTypeOK, EntriesUsed, Empty
  <1> QED BY <1>1, <1>2, <1>3, <1>4, <1>5, <1>6 DEF IndexInv

LEMMA UnindexRemovedInv ==
  ASSUME IndexInv, NEW t \in Callers, UnindexRemoved(t)
  PROVE  IndexInv'
PROOF
  <1> USE DEF UnindexRemoved, Leave, Drops
  <1>t. IndexTypeOK /\ AccountOf[key[t]] \in AccountIds
    BY Accounts DEF IndexInv
  <1>1. IndexTypeOK'
    BY <1>t DEF IndexTypeOK, IndexSteps
  <1>2. EntryHeld'
    BY <1>t, IndexAssumption DEF IndexInv, IndexTypeOK, EntryHeld, Inside
  <1>a. \A j \in listed : j \in listed' \/ (j = key[t] /\ ~found[t])
    OBVIOUS
  <1>3. SlotsListed'
    BY <1>t, <1>a DEF IndexInv, IndexTypeOK, SlotsListed, WillList, DropsOldSlot
  <1>4. DropsOldSlot'
    BY <1>t DEF IndexInv, IndexTypeOK, DropsOldSlot
  <1>5. StaleDropped'
    <2> SUFFICES ASSUME NEW j \in Keys \ slots',
                        (j \in listed \/ \E u \in Callers :
                           step[u] = "listing" /\ found[u] /\ key[u] = j)'
                 PROVE  \E r \in Callers : WillDrop(r, j)'
      BY DEF StaleDropped
    <2>1. j \in listed' \/ \E u \in Callers : step[u] = "listing" /\ found[u] /\ key[u] = j
      BY <1>t DEF IndexTypeOK
    <2>2. ~(j = key[t] /\ ~found[t])
      BY <2>1, <1>t DEF IndexInv, EntryHeld, Inside
    <2>3. PICK r \in Callers : WillDrop(r, j)
      BY <2>1 DEF IndexInv, StaleDropped
    <2>4. r # t
      BY <2>2, <2>3 DEF WillDrop
    <2> QED BY <1>t, <2>3, <2>4 DEF WillDrop, IndexTypeOK
  <1>6. EntriesUsed'
    <2> SUFFICES ASSUME NEW a \in entries, Empty(a)'
                 PROVE  \E u \in Callers : (step[u] = "pruning" /\ AccountOf[key[u]] = a)'
      BY DEF IndexInv, EntriesUsed
    <2>1. CASE a = AccountOf[key[t]]
      BY <1>t, <2>1 DEF Empty, IndexTypeOK
    <2>2. CASE a # AccountOf[key[t]]
      <3>1. Empty(a)
        BY <2>2 DEF Empty
      <3> QED BY <1>t, <2>2, <3>1 DEF IndexInv, EntriesUsed, IndexTypeOK
    <2> QED BY <2>1, <2>2
  <1> QED BY <1>1, <1>2, <1>3, <1>4, <1>5, <1>6 DEF IndexInv

LEMMA PruneEntryInv ==
  ASSUME IndexInv, NEW t \in Callers, PruneEntry(t)
  PROVE  IndexInv'
PROOF
  <1> USE DEF PruneEntry
  <1>t. IndexTypeOK /\ AccountOf[key[t]] \in AccountIds
    BY Accounts DEF IndexInv
  <1>1. IndexTypeOK'
    BY <1>t DEF IndexTypeOK, IndexSteps
  <1>2. EntryHeld'
    BY <1>t, IndexAssumption DEF IndexInv, IndexTypeOK, EntryHeld, Inside
  <1>3. SlotsListed'
    BY <1>t DEF IndexInv, IndexTypeOK, SlotsListed, WillList
  <1>4. DropsOldSlot'
    BY <1>t DEF IndexInv, IndexTypeOK, DropsOldSlot
  <1>5. StaleDropped'
    <2> SUFFICES ASSUME NEW j \in Keys \ slots',
                        (j \in listed \/ \E u \in Callers :
                           step[u] = "listing" /\ found[u] /\ key[u] = j)'
                 PROVE  \E r \in Callers : WillDrop(r, j)'
      BY DEF StaleDropped
    <2>1. PICK r \in Callers : WillDrop(r, j)
      BY <1>t DEF IndexInv, IndexTypeOK, StaleDropped
    <2>2. r # t
      BY <2>1 DEF WillDrop
    <2> QED BY <1>t, <2>1, <2>2 DEF WillDrop, IndexTypeOK
  <1>6. EntriesUsed'
    <2>1. \A j \in listed : AccountOf[j] \in entries'
      BY DEF IndexInv, EntriesUsed, Empty
    <2> SUFFICES ASSUME NEW a \in entries', Empty(a)
                 PROVE  \E u \in Callers : (step[u] = "pruning" /\ AccountOf[key[u]] = a)'
      BY <2>1 DEF EntriesUsed, Empty
    <2>2. a # AccountOf[key[t]] /\ a \in entries
      OBVIOUS
    <2> QED BY <1>t, <2>2 DEF IndexInv, EntriesUsed, IndexTypeOK
  <1> QED BY <1>1, <1>2, <1>3, <1>4, <1>5, <1>6 DEF IndexInv

(* IndexInv holds of every reachable state of the store. *)
THEOREM Invariance == IndexSpec => []IndexInv
PROOF
  <1>1. IndexInv /\ [IndexNext]_indexVars => IndexInv'
    BY Stutter, CreateInv, RemoveInv, BeginListingInv, IndexCreatedInv, BeginDroppingInv,
       NothingIndexedInv, UnindexRemovedInv, PruneEntryInv DEF IndexNext
  <1> QED BY InitInv, <1>1, PTL DEF IndexSpec

-----------------------------------------------------------------------------
(* "A slot is listed once its creating call has returned" (store.rs:80),   *)
(* however creations and removals of a key overlap.                        *)
THEOREM Listed == IndexSpec => []ListedOnceCreated
PROOF
  <1>1. IndexInv => ListedOnceCreated
    BY DEF IndexInv, SlotsListed, WillList, ListedOnceCreated, Returned
  <1> QED BY Invariance, <1>1, PTL

(* "The index is exact at quiescence, and no empty account set survives"   *)
(* (store.rs:81-82).                                                       *)
THEOREM Exact == IndexSpec => []ExactAtRest
PROOF
  <1>1. IndexInv => ExactAtRest
    <2> SUFFICES ASSUME IndexInv, \A t \in Callers : step[t] = "idle"
                 PROVE  listed = slots /\ entries = {AccountOf[k] : k \in listed}
      BY DEF ExactAtRest
    <2>1. \A k \in slots : k \in listed
      BY DEF IndexInv, IndexTypeOK, SlotsListed, WillList
    <2>2. \A k \in listed : k \in slots
      BY DEF IndexInv, IndexTypeOK, StaleDropped, WillDrop
    <2>3. \A a \in entries : \E k \in listed : AccountOf[k] = a
      BY DEF IndexInv, EntriesUsed, Empty
    <2> QED BY <2>1, <2>2, <2>3 DEF IndexInv, EntriesUsed
  <1> QED BY Invariance, <1>1, PTL

(***************************************************************************)
(* The amounts of a slot.                                                  *)
(***************************************************************************)

LEMMA NonNegative ==
  ASSUME NEW x \in Int
  PROVE  non_negative(x) \in Nat /\ (x >= 0 => non_negative(x) = x) /\ (x < 0 => non_negative(x) = 0)
  BY DEF non_negative, Max

LEMMA SlotIs ==
  ASSUME NEW available \in Int, NEW held \in Int, NEW incoming \in Int
  PROVE  /\ Slot(available, held, incoming) \in Amounts
         /\ Slot(available, held, incoming)["available"] = available
         /\ Slot(available, held, incoming)["held"] = held
         /\ Slot(available, held, incoming)["incoming"] = incoming
  BY DEF Slot, Amounts, Fields

LEMMA PlusIs ==
  ASSUME NEW h \in Amounts, NEW d \in Amounts
  PROVE  /\ Plus(h, d) \in Amounts /\ Minus(h, d) \in Amounts
         /\ Plus(h, d)["available"] = h["available"] + d["available"]
         /\ Minus(h, d)["available"] = h["available"] - d["available"]
         /\ h["available"] \in Int /\ d["available"] \in Int /\ h["held"] \in Int
  BY DEF Plus, Minus, Amounts, Fields

\* What an order of a quantity at a lock price reserves.
LEMMA ReservedIs ==
  ASSUME NEW side \in {"buy", "sell"}, NEW q \in Nat, NEW price \in Int, NEW a \in Assets
  PROVE  /\ Reserved(side, q, price, a) \in [held : Nat, incoming : Nat]
         /\ price * q \in Int
         /\ a = "settlement" => Reserved(side, q, price, a).held
                                  = non_negative(IF side = "buy" THEN price * q ELSE -(price * q))
         /\ a = "underlying" => Reserved(side, q, price, a).held = IF side = "buy" THEN 0 ELSE q
<1>1. price * q \in Int /\ -(price * q) \in Int
  OBVIOUS
<1> DEFINE n == price * q
<1>2. non_negative(n) \in Nat /\ non_negative(-n) \in Nat
  BY <1>1, NonNegative
<1>3. CASE side = "buy" /\ a = "settlement"
  <2>1. Reserved(side, q, price, a) = [held |-> non_negative(n), incoming |-> 0]
    BY <1>3 DEF Reserved
  <2> HIDE DEF n
  <2> QED BY <1>1, <1>2, <1>3, <2>1 DEF n
<1>4. CASE side = "buy" /\ a = "underlying"
  <2>1. Reserved(side, q, price, a) = [held |-> 0, incoming |-> q]
    BY <1>4 DEF Reserved
  <2> QED BY <1>1, <1>4, <2>1
<1>5. CASE side = "sell" /\ a = "underlying"
  <2>1. Reserved(side, q, price, a) = [held |-> q, incoming |-> 0]
    BY <1>5 DEF Reserved
  <2> QED BY <1>1, <1>5, <2>1
<1>6. CASE side = "sell" /\ a = "settlement"
  <2>1. Reserved(side, q, price, a)
          = [held |-> non_negative(-n), incoming |-> non_negative(n)]
    BY <1>6 DEF Reserved
  <2> HIDE DEF n
  <2> QED BY <1>1, <1>2, <1>6, <2>1 DEF n
<1> QED BY <1>3, <1>4, <1>5, <1>6 DEF Assets

\* A trade at the lock price or better gives available nothing to pay.
LEMMA TradeDelta ==
  ASSUME NEW side \in {"buy", "sell"}, NEW q \in Nat, NEW lock \in Int, NEW better \in Int,
         NEW price, price = IF side = "buy" THEN lock - better ELSE lock + better,
         NEW a \in Assets
  PROVE  /\ SettleDelta(side, q, lock, price, a) \in Amounts
         /\ better >= 0 => SettleDelta(side, q, lock, price, a)["available"] >= 0
<1> DEFINE r == Reserved(side, q, lock, a)
           flow == Flow(side, q, price, a)
           n == lock * q
           gain == better * q
<1>1. /\ r \in [held : Nat, incoming : Nat] /\ n \in Int /\ gain \in Int
      /\ a = "settlement" => r.held = non_negative(IF side = "buy" THEN n ELSE -n)
      /\ a = "underlying" => r.held = IF side = "buy" THEN 0 ELSE q
  BY ReservedIs
<1>2. better >= 0 => gain >= 0
  BY DEF gain
<1>3. price * q = IF side = "buy" THEN n - gain ELSE n + gain
  OBVIOUS
<1>4. flow = IF a = "underlying" THEN IF side = "buy" THEN q ELSE -q
             ELSE IF side = "buy" THEN -(n - gain) ELSE n + gain
  <2>1. CASE side = "buy"
    <3>1. flow = IF a = "underlying" THEN 1 * q ELSE -1 * price * q
      BY <2>1 DEF Flow
    <3>2. -1 * price * q = -(price * q) /\ 1 * q = q
      BY <2>1
    <3> QED BY <1>3, <2>1, <3>1, <3>2
  <2>2. CASE side = "sell"
    <3>1. flow = IF a = "underlying" THEN (-1) * q ELSE -(-1) * price * q
      BY <2>2 DEF Flow
    <3>2. -(-1) * price * q = price * q /\ (-1) * q = -q
      BY <2>2
    <3> QED BY <1>3, <2>2, <3>1, <3>2
  <2> QED BY <2>1, <2>2
<1>5. flow \in Int
  <2> HIDE DEF n, gain
  <2> QED BY <1>1, <1>4
<1>6. SettleDelta(side, q, lock, price, a) = Slot(r.held + flow, -r.held, -r.incoming)
  BY DEF SettleDelta
<1> HIDE DEF r, flow, n, gain
<1>7. r.held + flow \in Int /\ -r.held \in Int /\ -r.incoming \in Int
  BY <1>1, <1>5
<1>8. better >= 0 => r.held + flow >= 0
  <2>1. CASE a = "underlying"
    BY <1>1, <1>4, <2>1
  <2>2. CASE a = "settlement"
    <3>1. non_negative(n) >= n /\ non_negative(-n) >= -n /\ non_negative(n) \in Nat
          /\ non_negative(-n) \in Nat
      BY <1>1, NonNegative
    <3> QED BY <1>1, <1>2, <1>4, <2>2, <3>1
  <2> QED BY <2>1, <2>2 DEF Assets
<1> QED BY <1>6, <1>7, <1>8, SlotIs

LEMMA SetupBounds ==
  ASSUME SpendTypeOK
  PROVE  /\ Quantities \subseteq Nat /\ Prices \subseteq Int /\ Improvements \subseteq Int
         /\ Fees \subseteq Int /\ MaxAmount \in Nat /\ setup.orders \subseteq Orders
  BY BoundsAssumption DEF SpendTypeOK, Quantities, Prices, Improvements, Fees, MaxAmount

\* One leg of a report.
LEMMA LegIs ==
  ASSUME NEW part \in {"fill", "release"}, NEW a \in Assets, NEW delta \in Amounts,
         Sheltered => delta["available"] >= 0
  PROVE  Leg(part, a, delta) \in Moves
  BY DEF Leg, Moves

(* The parts of a report: the trade, its fee, and the release.             *)
Trade(order, filled, price) ==
  LET sides == LegOrder(order.side)
  IN  [n \in 1 .. 2 |-> Leg("fill", sides[n],
          SettleDelta(order.side, filled, order.price, price, sides[n]))]
Charge(fee) == <<Leg("fill", "settlement", Slot(fee, 0, 0))>>
Release(order, left) ==
  LET ends == <<"underlying", "settlement">>
  IN  [n \in 1 .. 2 |-> Leg("release", ends[n],
          ReleaseDelta(order.side, left, order.price, ends[n]))]

LEMMA ReportParts ==
  ASSUME NEW order, NEW filled, NEW price, NEW fee, NEW final
  PROVE  ReportLegs(order, filled, price, fee, final) =
            (IF filled > 0 THEN Trade(order, filled, price) ELSE <<>>)
            \o (IF fee # 0 THEN Charge(fee) ELSE <<>>)
            \o (IF final /\ order.left - filled > 0 THEN Release(order, order.left - filled) ELSE <<>>)
  BY DEF ReportLegs, Trade, Charge, Release

\* Of the legs of a report, none takes from available in the sheltered case.
LEMMA PartsAre ==
  ASSUME SpendTypeOK, NEW order, order.side \in {"buy", "sell"}, order.left \in Nat,
         order.price \in Int, NEW filled \in 0 .. order.left, NEW better \in Improvements,
         NEW fee \in Fees,
         NEW price, price = IF order.side = "buy" THEN order.price - better
                                                  ELSE order.price + better
  PROVE  /\ Trade(order, filled, price) \in Seq(Moves) /\ Charge(fee) \in Seq(Moves)
         /\ Release(order, order.left - filled) \in Seq(Moves)
<1> DEFINE sides == LegOrder(order.side)
           left == order.left - filled
           ends == <<"underlying", "settlement">>
           trade == [n \in 1 .. 2 |-> Leg("fill", sides[n],
                        SettleDelta(order.side, filled, order.price, price, sides[n]))]
           charge == <<Leg("fill", "settlement", Slot(fee, 0, 0))>>
           release == [n \in 1 .. 2 |-> Leg("release", ends[n],
                          ReleaseDelta(order.side, left, order.price, ends[n]))]
<1>1. /\ better \in Int /\ fee \in Int /\ filled \in Nat /\ left \in Nat
      /\ Sheltered => better >= 0 /\ fee >= 0
  BY SetupBounds DEF Sheltered
<1>2. \A n \in 1 .. 2 : sides[n] \in Assets /\ ends[n] \in Assets
  BY DEF LegOrder, Assets
<1>3. trade \in Seq(Moves)
  <2>1. ASSUME NEW n \in 1 .. 2 PROVE trade[n] \in Moves
    <3> DEFINE a == sides[n]
               d == SettleDelta(order.side, filled, order.price, price, a)
    <3>1. a \in Assets
      BY <1>2
    <3> HIDE DEF a
    <3>2. d \in Amounts /\ (better >= 0 => d["available"] >= 0)
      BY <1>1, <3>1, TradeDelta
    <3> HIDE DEF d
    <3>3. Leg("fill", a, d) \in Moves
      BY <1>1, <3>1, <3>2, LegIs
    <3> QED BY <3>3 DEF a, d
  <2> HIDE DEF sides
  <2> QED BY <2>1
<1>4. charge \in Seq(Moves)
  <2> DEFINE d == Slot(fee, 0, 0)
  <2>1. d \in Amounts /\ d["available"] = fee
    BY <1>1, SlotIs
  <2> HIDE DEF d
  <2>2. Leg("fill", "settlement", d) \in Moves
    BY <1>1, <2>1, LegIs DEF Assets
  <2> QED BY <2>2 DEF d
<1>5. release \in Seq(Moves)
  <2>1. ASSUME NEW n \in 1 .. 2 PROVE release[n] \in Moves
    <3> DEFINE a == ends[n]
               r == Reserved(order.side, left, order.price, a)
               d == ReleaseDelta(order.side, left, order.price, a)
    <3>1. a \in Assets
      BY <1>2
    <3> HIDE DEF a, left
    <3>2. r \in [held : Nat, incoming : Nat]
      BY <1>1, <3>1, ReservedIs
    <3>3. d = Slot(r.held, -r.held, -r.incoming)
      BY DEF ReleaseDelta
    <3> HIDE DEF r, d
    <3> DEFINE x == r.held
               y == -r.held
               z == -r.incoming
    <3>a. x \in Nat /\ x \in Int /\ y \in Int /\ z \in Int /\ d = Slot(x, y, z)
      BY <3>2, <3>3
    <3> HIDE DEF x, y, z
    <3>b. Slot(x, y, z) \in Amounts /\ Slot(x, y, z)["available"] = x
      BY <3>a, SlotIs, SMTT(60)
    <3>4. d \in Amounts /\ d["available"] >= 0
      BY <3>a, <3>b
    <3>5. Leg("release", a, d) \in Moves
      BY <3>1, <3>4, LegIs
    <3> QED BY <3>5 DEF a, d
  <2> HIDE DEF ends
  <2> QED BY <2>1
<1> QED BY <1>3, <1>4, <1>5 DEF Trade, Charge, Release

LEMMA ReportLegsAre ==
  ASSUME SpendTypeOK, NEW order, order.side \in {"buy", "sell"}, order.left \in Nat,
         order.price \in Int, NEW filled \in 0 .. order.left, NEW better \in Improvements,
         NEW fee \in Fees, NEW final \in BOOLEAN,
         NEW price, price = IF order.side = "buy" THEN order.price - better
                                                  ELSE order.price + better
  PROVE  ReportLegs(order, filled, price, fee, final) \in Seq(Moves)
<1> DEFINE A == IF filled > 0 THEN Trade(order, filled, price) ELSE <<>>
           B == IF fee # 0 THEN Charge(fee) ELSE <<>>
           D == IF final /\ order.left - filled > 0 THEN Release(order, order.left - filled)
                                                    ELSE <<>>
<1>1. A \in Seq(Moves) /\ B \in Seq(Moves) /\ D \in Seq(Moves)
  BY PartsAre
<1>2. ReportLegs(order, filled, price, fee, final) = A \o B \o D
  BY ReportParts
<1> HIDE DEF A, B, D
<1>3. A \o B \in Seq(Moves)
  BY <1>1, ConcatProperties
<1>4. A \o B \o D \in Seq(Moves)
  BY <1>1, <1>3, ConcatProperties
<1> QED BY <1>2, <1>4

LEMMA ReleasesAre ==
  ASSUME NEW legs \in Seq(Moves)
  PROVE  Releases(legs) \in Seq(Moves)
<1> DEFINE others == {n \in DOMAIN legs : legs[n].part # "release"}
           k == Cardinality(others)
<1>1. DOMAIN legs = 1 .. Len(legs) /\ Len(legs) \in Nat
  OBVIOUS
<1>2. k \in Nat
  <2>1. IsFiniteSet(1 .. Len(legs)) /\ others \subseteq 1 .. Len(legs)
    BY <1>1, FS_Interval
  <2> QED BY <2>1, FS_Subset, FS_CardinalityType
<1>3. Releases(legs) = SubSeq(legs, k + 1, Len(legs))
  BY DEF Releases
<1> HIDE DEF k
<1> QED BY <1>1, <1>2, <1>3

(***************************************************************************)
(* No step of an order takes what is not there.                            *)
(***************************************************************************)

Phases == {"new", "reserving", "open", "rolling_back", "reporting", "closed"}
OrderRecords == [phase : Phases, side : {"buy", "sell"}, left : Nat, price : Int,
                 final : BOOLEAN, reports : Nat]

LEMMA SameSetup ==
  ASSUME setup' = setup
  PROVE  Moves' = Moves /\ Sheltered' = Sheltered
  BY DEF Moves, Sheltered, LimitMode, AdjustRequests, Improvements, Fees

LEMMA OrderFacts ==
  ASSUME SpendInv, NEW o \in Orders
  PROVE  /\ orders[o] \in OrderRecords /\ undo[o] \in Seq(Holds)
         /\ todo[o] \in Seq(Holds) \cup Seq(Moves)
         /\ orders[o].phase = "reserving" => todo[o] \in Seq(Holds)
         /\ orders[o].phase = "reporting" => todo[o] \in Seq(Moves)
         /\ \A a \in Assets : holdings[a] \in Amounts
  BY DEF SpendInv, SpendTypeOK, OrderRecords, Phases

\* A step of one order: its record, what it has to do and to undo, and one
\* slot, whose available is not overdrawn.
LEMMA OrderStep ==
  ASSUME SpendInv, setup' = setup, NEW o \in Orders, NEW r \in OrderRecords, NEW do, NEW back,
         orders' = [orders EXCEPT ![o] = r], todo' = [todo EXCEPT ![o] = do],
         undo' = [undo EXCEPT ![o] = back], back \in Seq(Holds),
         do \in Seq(Holds) \cup Seq(Moves),
         r.phase = "reserving" => do \in Seq(Holds),
         r.phase = "reporting" => do \in Seq(Moves),
         batches' = batches, holdings' \in [Assets -> Amounts],
         Sheltered => \A a \in Assets : holdings'[a]["available"] >= 0
  PROVE  SpendInv'
<1>1. SpendTypeOK
  BY DEF SpendInv
<1>2. /\ orders' \in [Orders -> OrderRecords] /\ undo' \in [Orders -> Seq(Holds)]
      /\ todo' \in [Orders -> Seq(Holds) \cup Seq(Moves)]
  BY <1>1 DEF SpendTypeOK, OrderRecords, Phases
<1>3. SpendTypeOK'
  BY <1>1, <1>2, SameSetup DEF SpendTypeOK, OrderRecords, Phases
<1>4. ASSUME NEW p \in Orders
      PROVE  /\ orders'[p].phase = "reserving" => todo'[p] \in Seq(Holds)
             /\ orders'[p].phase = "reporting" => todo'[p] \in Seq(Moves)
  <2>1. CASE p = o
    BY <1>1, <2>1 DEF SpendTypeOK
  <2>2. CASE p # o
    <3>1. orders'[p] = orders[p] /\ todo'[p] = todo[p]
      BY <1>1, <2>2 DEF SpendTypeOK
    <3> QED BY <3>1, OrderFacts
  <2> QED BY <2>1, <2>2
<1> QED BY <1>3, <1>4, SameSetup DEF SpendInv

LEMMA SlotTaken ==
  ASSUME SpendInv, NEW a \in Assets, NEW new \in Amounts,
         holdings' = [holdings EXCEPT ![a] = new], Sheltered => new["available"] >= 0
  PROVE  /\ holdings' \in [Assets -> Amounts]
         /\ Sheltered => \A b \in Assets : holdings'[b]["available"] >= 0
<1>1. holdings \in [Assets -> Amounts]
  BY DEF SpendInv, SpendTypeOK
<1> QED BY <1>1 DEF SpendInv

LEMMA SlotsAlone ==
  ASSUME SpendInv, holdings' = holdings
  PROVE  /\ holdings' \in [Assets -> Amounts]
         /\ Sheltered => \A b \in Assets : holdings'[b]["available"] >= 0
  BY DEF SpendInv, SpendTypeOK

LEMMA ReserveSpends ==
  ASSUME SpendInv, setup' = setup, NEW o \in Orders, Reserve(o)
  PROVE  SpendInv'
<1>1. SpendTypeOK /\ UNCHANGED <<holdings, undo, batches>>
  BY DEF SpendInv, Reserve
<1>2. PICK side \in Sides, q \in Quantities, price \in Prices :
         /\ orders' = [orders EXCEPT ![o] = [phase |-> "reserving", side |-> side, left |-> q,
                          price |-> price, final |-> FALSE, reports |-> 0]]
         /\ todo' = [todo EXCEPT ![o] = [n \in 1 .. 2 |->
                        [asset |-> LegOrder(side)[n],
                         leg |-> Reserved(side, q, price, LegOrder(side)[n])]]]
  BY ZenonT(60) DEF Reserve
<1>3. side \in {"buy", "sell"} /\ q \in Nat /\ price \in Int
  BY <1>1, SetupBounds, BoundsAssumption
<1> DEFINE r == [phase |-> "reserving", side |-> side, left |-> q, price |-> price,
                 final |-> FALSE, reports |-> 0]
           do == [n \in 1 .. 2 |-> [asset |-> LegOrder(side)[n],
                                    leg |-> Reserved(side, q, price, LegOrder(side)[n])]]
<1>4. r \in OrderRecords /\ r.phase = "reserving"
  BY <1>3 DEF OrderRecords, Phases
<1>5. do \in Seq(Holds)
  <2>1. ASSUME NEW n \in 1 .. 2 PROVE do[n] \in Holds
    <3>1. LegOrder(side)[n] \in Assets
      BY DEF LegOrder, Assets
    <3>2. Reserved(side, q, price, LegOrder(side)[n]) \in [held : Nat, incoming : Nat]
      BY <1>3, <3>1, ReservedIs
    <3> QED BY <3>1, <3>2 DEF Holds
  <2>2. do = [n \in 1 .. 2 |-> do[n]]
    OBVIOUS
  <2> HIDE DEF do
  <2> QED BY <2>1, <2>2
<1>6. orders' = [orders EXCEPT ![o] = r] /\ todo' = [todo EXCEPT ![o] = do]
  BY <1>2
<1> HIDE DEF r, do
<1>7. undo' = [undo EXCEPT ![o] = undo[o]] /\ undo[o] \in Seq(Holds)
  BY <1>1 DEF SpendTypeOK
<1> QED BY <1>1, <1>4, <1>5, <1>6, <1>7, SlotsAlone, OrderStep

LEMMA FirstAndRest ==
  ASSUME NEW S, NEW s \in Seq(S), s # <<>>
  PROVE  Head(s) \in S /\ Tail(s) \in Seq(S)
  OBVIOUS

LEMMA HoldMoves ==
  ASSUME NEW leg \in [held : Nat, incoming : Nat], NEW h \in Amounts
  PROVE  /\ Plus(h, HoldDelta(leg)) \in Amounts /\ Minus(h, HoldDelta(leg)) \in Amounts
         /\ Plus(h, HoldDelta(leg))["available"] = h["available"] - leg.held
         /\ Minus(h, HoldDelta(leg))["available"] = h["available"] + leg.held
<1> DEFINE x == -leg.held
           y == leg.held
           z == leg.incoming
           d == HoldDelta(leg)
<1>1. x \in Int /\ y \in Int /\ z \in Int /\ x = -y /\ d = Slot(x, y, z)
  BY DEF HoldDelta
<1>2. y = leg.held
  OBVIOUS
<1> HIDE DEF x, y, z
<1>3. d \in Amounts /\ d["available"] = -y
  BY <1>1, SlotIs
<1> HIDE DEF d
<1>4. /\ Plus(h, d) \in Amounts /\ Minus(h, d) \in Amounts
      /\ Plus(h, d)["available"] = h["available"] + d["available"]
      /\ Minus(h, d)["available"] = h["available"] - d["available"] /\ h["available"] \in Int
  BY <1>3, PlusIs
<1>5. /\ Plus(h, d)["available"] = h["available"] - leg.held
      /\ Minus(h, d)["available"] = h["available"] + leg.held
  BY <1>1, <1>2, <1>3, <1>4
<1> QED BY <1>4, <1>5 DEF d

\* An enforced hold never takes more than is available.
LEMMA HoldCovered ==
  ASSUME NEW h \in Amounts, NEW amount \in Nat, Sheltered, hold_with_mode(h, amount),
         h["available"] >= 0
  PROVE  amount <= h["available"]
<1>1. h["available"] \in Int /\ h["held"] \in Int
  BY PlusIs
<1>2. amount # 0 => amount <= Spendable(h)
  BY DEF hold_with_mode, Sheltered
<1>3. Spendable(h) <= h["available"] /\ Spendable(h) \in Int
  BY <1>1 DEF Spendable
<1> QED BY <1>1, <1>2, <1>3

LEMMA Rephased ==
  ASSUME NEW r \in OrderRecords, NEW p \in Phases, NEW left \in Nat
  PROVE  /\ [r EXCEPT !.phase = p] \in OrderRecords /\ [r EXCEPT !.phase = p].phase = p
         /\ [r EXCEPT !.phase = p, !.left = left] \in OrderRecords
         /\ [r EXCEPT !.phase = p, !.left = left].phase = p
  BY DEF OrderRecords

LEMMA ReserveLegSpends ==
  ASSUME SpendInv, setup' = setup, NEW o \in Orders, ReserveLeg(o)
  PROVE  SpendInv'
<1> DEFINE m == Head(todo[o])
           a == m.asset
           leg == m.leg
           new == Plus(holdings[a], HoldDelta(leg))
           rest == Tail(todo[o])
           taken == <<m>> \o undo[o]
           r == orders[o]
           back == [orders[o] EXCEPT !.phase = "rolling_back"]
<1>1. /\ SpendTypeOK /\ batches' = batches /\ todo[o] \in Seq(Holds) /\ todo[o] # <<>>
      /\ r \in OrderRecords /\ r.phase = "reserving" /\ undo[o] \in Seq(Holds)
  BY OrderFacts DEF SpendInv, ReserveLeg
<1>2. m \in Holds /\ rest \in Seq(Holds)
  BY <1>1, FirstAndRest
<1>3. \/ UNCHANGED <<holdings, undo, orders>> /\ todo' = [todo EXCEPT ![o] = rest]
      \/ /\ hold_with_mode(holdings[a], leg.held) /\ holdings' = [holdings EXCEPT ![a] = new]
         /\ undo' = [undo EXCEPT ![o] = taken] /\ todo' = [todo EXCEPT ![o] = rest]
         /\ UNCHANGED orders
      \/ /\ UNCHANGED <<holdings, undo>> /\ todo' = [todo EXCEPT ![o] = <<>>]
         /\ orders' = [orders EXCEPT ![o] = back]
  BY <1>1 DEF ReserveLeg, SpendTypeOK
<1>4. r = orders[o] /\ orders = [orders EXCEPT ![o] = r] /\ undo = [undo EXCEPT ![o] = undo[o]]
  BY <1>1 DEF SpendTypeOK
<1>5. /\ back \in OrderRecords /\ back.phase = "rolling_back"
      /\ <<>> \in Seq(Holds) /\ taken \in Seq(Holds)
  <2>1. "rolling_back" \in Phases /\ 0 \in Nat
    BY DEF Phases
  <2>2. <<m>> \in Seq(Holds)
    BY <1>2
  <2>3. taken \in Seq(Holds)
    BY <1>1, <2>2, ConcatProperties
  <2>4. back \in OrderRecords /\ back.phase = "rolling_back"
    <3>1. orders[o] \in OrderRecords
      BY <1>1
    <3> DEFINE q == orders[o]
    <3> HIDE DEF q
    <3>2. q \in OrderRecords
      BY <3>1 DEF q
    <3>3. /\ [q EXCEPT !.phase = "rolling_back"] \in OrderRecords
          /\ [q EXCEPT !.phase = "rolling_back"].phase = "rolling_back"
      BY <2>1, <3>2, Rephased
    <3> QED BY <3>3 DEF q
  <2> HIDE DEF taken, back
  <2> QED BY <2>3, <2>4
<1>6. CASE UNCHANGED <<holdings, undo, orders>> /\ todo' = [todo EXCEPT ![o] = rest]
  <2> HIDE DEF rest, r
  <2> QED BY <1>1, <1>2, <1>4, <1>6, SlotsAlone, OrderStep
<1>7. CASE /\ UNCHANGED <<holdings, undo>> /\ todo' = [todo EXCEPT ![o] = <<>>]
           /\ orders' = [orders EXCEPT ![o] = back]
  <2> HIDE DEF back
  <2> QED BY <1>1, <1>4, <1>5, <1>7, SlotsAlone, OrderStep
<1>8. CASE /\ hold_with_mode(holdings[a], leg.held) /\ holdings' = [holdings EXCEPT ![a] = new]
           /\ undo' = [undo EXCEPT ![o] = taken] /\ todo' = [todo EXCEPT ![o] = rest]
           /\ UNCHANGED orders
  <2> DEFINE h == holdings[a]
  <2>1. a \in Assets /\ leg \in [held : Nat, incoming : Nat]
    BY <1>2 DEF Holds
  <2>2. h \in Amounts /\ h["available"] \in Int
    BY <1>1, <2>1 DEF SpendTypeOK, Amounts, Fields
  <2>3. Sheltered => h["available"] >= 0
    BY <2>1 DEF SpendInv
  <2>4. hold_with_mode(h, leg.held) /\ leg.held \in Nat
    BY <1>8, <2>1
  <2> HIDE DEF h, leg, a
  <2>5. /\ Plus(h, HoldDelta(leg)) \in Amounts
        /\ Plus(h, HoldDelta(leg))["available"] = h["available"] - leg.held
    BY <2>1, <2>2, HoldMoves
  <2> DEFINE amount == leg.held
  <2> HIDE DEF amount
  <2>6. Sheltered => amount <= h["available"]
    <3>1. hold_with_mode(h, amount) /\ amount \in Nat
      BY <2>4 DEF amount
    <3> QED BY <2>2, <2>3, <3>1, HoldCovered
  <2>7. Sheltered => Plus(h, HoldDelta(leg))["available"] >= 0
    BY <2>2, <2>4, <2>5, <2>6 DEF amount
  <2>8. new \in Amounts /\ (Sheltered => new["available"] >= 0)
    BY <2>5, <2>7 DEF h
  <2> HIDE DEF new
  <2>9. /\ holdings' \in [Assets -> Amounts]
        /\ Sheltered => \A b \in Assets : holdings'[b]["available"] >= 0
    BY <1>8, <2>1, <2>8, SlotTaken
  <2> HIDE DEF taken, rest, r, m
  <2> QED BY <1>1, <1>2, <1>4, <1>5, <1>8, <2>9, OrderStep
<1> QED BY <1>3, <1>6, <1>7, <1>8

LEMMA CommitSpends ==
  ASSUME SpendInv, setup' = setup, NEW o \in Orders, Commit(o)
  PROVE  SpendInv'
<1>1. /\ SpendTypeOK /\ UNCHANGED <<holdings, todo, batches>> /\ orders[o] \in OrderRecords
      /\ undo[o] \in Seq(Holds) /\ todo[o] \in Seq(Holds) \cup Seq(Moves)
  BY OrderFacts DEF SpendInv, Commit
<1>2. PICK phase \in {"open", "rolling_back"} : orders' = [orders EXCEPT ![o].phase = phase]
  BY DEF Commit
<1> DEFINE r == [orders[o] EXCEPT !.phase = phase]
           back == IF orders'[o].phase = "open" THEN <<>> ELSE undo[o]
<1>3. orders' = [orders EXCEPT ![o] = r] /\ phase \in Phases /\ 0 \in Nat
  BY <1>1, <1>2 DEF SpendTypeOK, Phases
<1>4. r \in OrderRecords /\ r.phase = phase
  BY <1>1, <1>3, Rephased
<1>5. back \in Seq(Holds) /\ undo' = [undo EXCEPT ![o] = back]
  <2>1. undo \in [Orders -> Seq(Holds)] /\ <<>> \in Seq(Holds)
    BY <1>1 DEF SpendTypeOK
  <2>2. undo' = IF orders'[o].phase = "open" THEN [undo EXCEPT ![o] = <<>>] ELSE undo
    BY DEF Commit
  <2>3. CASE orders'[o].phase = "open"
    BY <2>1, <2>2, <2>3
  <2>4. CASE orders'[o].phase # "open"
    BY <1>1, <2>1, <2>2, <2>4
  <2> QED BY <2>3, <2>4
<1>6. todo' = [todo EXCEPT ![o] = todo[o]]
  BY <1>1 DEF SpendTypeOK
<1>7. r.phase # "reserving" /\ r.phase # "reporting"
  BY <1>4
<1> HIDE DEF r, back
<1> QED BY <1>1, <1>3, <1>4, <1>5, <1>6, <1>7, SlotsAlone, OrderStep

LEMMA RollbackLegSpends ==
  ASSUME SpendInv, setup' = setup, NEW o \in Orders, RollbackLeg(o)
  PROVE  SpendInv'
<1> DEFINE q == orders[o]
           end == [q EXCEPT !.phase = "closed", !.left = 0]
           m == Head(undo[o])
           a == m.asset
           leg == m.leg
           new == Minus(holdings[a], HoldDelta(leg))
           rest == Tail(undo[o])
<1>1. /\ SpendTypeOK /\ UNCHANGED <<todo, batches>> /\ q \in OrderRecords
      /\ q.phase = "rolling_back" /\ undo[o] \in Seq(Holds)
      /\ todo[o] \in Seq(Holds) \cup Seq(Moves)
  BY OrderFacts DEF SpendInv, RollbackLeg
<1>2. todo' = [todo EXCEPT ![o] = todo[o]] /\ orders = [orders EXCEPT ![o] = q]
      /\ undo = [undo EXCEPT ![o] = undo[o]] /\ q = orders[o]
  BY <1>1 DEF SpendTypeOK
<1>3. CASE undo[o] = <<>>
  <2>1. UNCHANGED <<holdings, undo>> /\ orders' = [orders EXCEPT ![o] = end]
    BY <1>1, <1>3 DEF RollbackLeg, SpendTypeOK
  <2> HIDE DEF q
  <2>2. "closed" \in Phases /\ 0 \in Nat
    BY DEF Phases
  <2>3. end \in OrderRecords /\ end.phase = "closed"
    BY <1>1, <2>2, Rephased
  <2> HIDE DEF end
  <2> QED BY <1>1, <1>2, <2>1, <2>3, SlotsAlone, OrderStep
<1>4. CASE undo[o] # <<>>
  <2>1. /\ undo' = [undo EXCEPT ![o] = rest] /\ UNCHANGED orders
        /\ holdings' = [holdings EXCEPT ![a] = new] \/ holdings' = holdings
    BY <1>1, <1>4 DEF RollbackLeg, UndoLeg, SpendTypeOK
  <2>2. m \in Holds /\ rest \in Seq(Holds)
    BY <1>1, <1>4, FirstAndRest
  <2>3. a \in Assets /\ leg \in [held : Nat, incoming : Nat] /\ leg.held \in Nat
    BY <2>2 DEF Holds
  <2> DEFINE h == holdings[a]
  <2>4. h \in Amounts /\ h["available"] \in Int /\ (Sheltered => h["available"] >= 0)
    BY <1>1, <2>3 DEF SpendTypeOK, SpendInv, Amounts, Fields
  <2> HIDE DEF h, leg, a
  <2>5. /\ Minus(h, HoldDelta(leg)) \in Amounts
        /\ Minus(h, HoldDelta(leg))["available"] = h["available"] + leg.held
    BY <2>3, <2>4, HoldMoves
  <2>6. new \in Amounts /\ (Sheltered => new["available"] >= 0)
    BY <2>3, <2>4, <2>5 DEF h
  <2> HIDE DEF new
  <2>7. /\ holdings' \in [Assets -> Amounts]
        /\ Sheltered => \A b \in Assets : holdings'[b]["available"] >= 0
    BY <2>1, <2>3, <2>6, SlotTaken, SlotsAlone
  <2>8. orders' = [orders EXCEPT ![o] = q] /\ q.phase # "reserving" /\ q.phase # "reporting"
    BY <1>1, <1>2, <2>1
  <2> HIDE DEF q, rest, m
  <2> QED BY <1>1, <1>2, <2>1, <2>2, <2>7, <2>8, OrderStep
<1> QED BY <1>3, <1>4

LEMMA ReportSpends ==
  ASSUME SpendInv, setup' = setup, NEW o \in Orders, Report(o)
  PROVE  SpendInv'
<1> DEFINE q == orders[o]
           Price(better) == IF q.side = "buy" THEN q.price - better ELSE q.price + better
           Legs(filled, better, fee, final) ==
               ReportLegs(q, filled, Price(better), fee, final)
<1>1. /\ SpendTypeOK /\ UNCHANGED <<holdings, undo, batches>> /\ q \in OrderRecords
      /\ undo[o] \in Seq(Holds)
  BY OrderFacts DEF SpendInv, Report
<1>2. PICK filled \in 0 .. q.left, better \in Improvements, fee \in Fees, final \in BOOLEAN :
         /\ orders' = [orders EXCEPT ![o].phase = "reporting", ![o].left = @ - filled,
                          ![o].final = final, ![o].reports = @ + 1]
         /\ todo' = [todo EXCEPT ![o] =
                        IF Price(better) * filled \in -MaxAmount .. MaxAmount
                        THEN Legs(filled, better, fee, final)
                        ELSE Releases(Legs(filled, better, fee, final))]
  <2>1. PICK filled \in 0 .. orders[o].left, improvement \in Improvements,
             fee \in Fees, final \in BOOLEAN :
          LET order == orders[o]
              price == IF order.side = "buy" THEN order.price - improvement
                                             ELSE order.price + improvement
              fits == price * filled \in -MaxAmount .. MaxAmount
              legs == ReportLegs(order, filled, price, fee, final)
          IN  /\ filled > 0 \/ fee # 0 \/ final
              /\ final \/ filled < order.left
              /\ filled = 0 => improvement = Min(Improvements)
              /\ orders' = [orders EXCEPT ![o].phase = "reporting",
                                ![o].left = @ - filled, ![o].final = final,
                                ![o].reports = @ + 1]
              /\ todo' = [todo EXCEPT ![o] =
                             IF fits THEN legs ELSE Releases(legs)]
              /\ blocked' = (blocked \/ ~fits)
              /\ base' = [a \in Assets |-> Plus(base[a],
                            Slot(Flow(order.side, filled, price, a) +
                                    (IF a = "settlement" THEN fee ELSE 0), 0, 0))]
    BY Zenon DEF Report
  <2> QED BY <2>1
<1> DEFINE r == [q EXCEPT !.phase = "reporting", !.left = @ - filled, !.final = final,
                          !.reports = @ + 1]
           legs == Legs(filled, better, fee, final)
<1>3. orders' = [orders EXCEPT ![o] = r] /\ undo' = [undo EXCEPT ![o] = undo[o]]
  BY <1>1, <1>2 DEF SpendTypeOK
<1>4. q.left \in Nat /\ q.side \in {"buy", "sell"} /\ q.price \in Int /\ q.reports \in Nat
  BY <1>1 DEF OrderRecords
<1> HIDE DEF q
<1>5. q.left - filled \in Nat /\ q.reports + 1 \in Nat /\ "reporting" \in Phases
  BY <1>4 DEF Phases
<1>6. r \in OrderRecords /\ r.phase = "reporting"
  BY <1>1, <1>5 DEF OrderRecords
<1>7. legs \in Seq(Moves)
  <2> DEFINE price == Price(better)
  <2>1. price = IF q.side = "buy" THEN q.price - better ELSE q.price + better
    OBVIOUS
  <2> HIDE DEF price
  <2>2. ReportLegs(q, filled, price, fee, final) \in Seq(Moves)
    BY <1>1, <1>2, <1>4, <2>1, ReportLegsAre
  <2> QED BY <2>2 DEF price
<1>8. \/ todo' = [todo EXCEPT ![o] = legs]
      \/ todo' = [todo EXCEPT ![o] = Releases(legs)]
  <2> HIDE DEF Price, Legs
  <2>1. CASE Price(better) * filled \in -MaxAmount .. MaxAmount
    BY <1>2, <2>1
  <2>2. CASE ~(Price(better) * filled \in -MaxAmount .. MaxAmount)
    BY <1>2, <2>2
  <2> QED BY <2>1, <2>2
<1> HIDE DEF legs, r
<1>9. Releases(legs) \in Seq(Moves)
  BY <1>7, ReleasesAre
<1>10. PICK do \in Seq(Moves) : todo' = [todo EXCEPT ![o] = do]
  BY <1>7, <1>8, <1>9
<1> QED BY <1>1, <1>3, <1>6, <1>10, SlotsAlone, OrderStep

LEMMA ReportLegSpends ==
  ASSUME SpendInv, setup' = setup, NEW o \in Orders, ReportLeg(o)
  PROVE  SpendInv'
<1> DEFINE q == orders[o]
           m == Head(todo[o])
           a == m.asset
           d == m.delta
           new == Plus(holdings[a], d)
           rest == Tail(todo[o])
           last == Releases(todo[o])
<1>1. /\ SpendTypeOK /\ UNCHANGED <<orders, undo, batches>> /\ q \in OrderRecords
      /\ todo[o] \in Seq(Moves) /\ todo[o] # <<>> /\ undo[o] \in Seq(Holds)
  BY OrderFacts DEF SpendInv, ReportLeg
<1>2. orders' = [orders EXCEPT ![o] = q] /\ undo' = [undo EXCEPT ![o] = undo[o]]
      /\ q.phase = "reporting"
  BY <1>1 DEF SpendTypeOK, ReportLeg
<1>3. \/ holdings' = [holdings EXCEPT ![a] = new] /\ todo' = [todo EXCEPT ![o] = rest]
      \/ /\ holdings' = holdings
         /\ todo' = [todo EXCEPT ![o] = <<>>] \/ todo' = [todo EXCEPT ![o] = last]
  BY <1>1 DEF ReportLeg, SpendTypeOK
<1>4. m \in Moves /\ rest \in Seq(Moves) /\ last \in Seq(Moves) /\ <<>> \in Seq(Moves)
  <2>1. m \in Moves /\ rest \in Seq(Moves)
    BY <1>1, FirstAndRest
  <2>2. last \in Seq(Moves)
    BY <1>1, ReleasesAre
  <2> HIDE DEF m, rest, last
  <2> QED BY <2>1, <2>2
<1> HIDE DEF m, rest, last, q
<1>5. PICK do \in Seq(Moves) : todo' = [todo EXCEPT ![o] = do]
  BY <1>3, <1>4
<1>6. a \in Assets /\ d \in Amounts /\ (Sheltered => d["available"] >= 0)
  BY <1>4 DEF Moves
<1> DEFINE h == holdings[a]
<1>7. h \in Amounts /\ (Sheltered => h["available"] >= 0)
  BY <1>1, <1>6 DEF SpendTypeOK, SpendInv
<1> HIDE DEF h, d, a
<1>8. /\ Plus(h, d) \in Amounts /\ h["available"] \in Int /\ d["available"] \in Int
      /\ Plus(h, d)["available"] = h["available"] + d["available"]
  BY <1>6, <1>7, PlusIs
<1>9. new \in Amounts /\ (Sheltered => new["available"] >= 0)
  BY <1>6, <1>7, <1>8 DEF h
<1> HIDE DEF new
<1>10. /\ holdings' \in [Assets -> Amounts]
       /\ Sheltered => \A b \in Assets : holdings'[b]["available"] >= 0
  BY <1>3, <1>6, <1>9, SlotTaken, SlotsAlone
<1> QED BY <1>1, <1>2, <1>5, <1>10, OrderStep

LEMMA ReportDoneSpends ==
  ASSUME SpendInv, setup' = setup, NEW o \in Orders, ReportDone(o)
  PROVE  SpendInv'
<1> DEFINE q == orders[o]
           phase == IF q.final THEN "closed" ELSE "open"
           left == IF q.final THEN 0 ELSE q.left
           r == [q EXCEPT !.phase = phase, !.left = left]
<1>1. /\ SpendTypeOK /\ UNCHANGED <<holdings, todo, undo, batches>> /\ q \in OrderRecords
      /\ undo[o] \in Seq(Holds) /\ todo[o] \in Seq(Holds) \cup Seq(Moves)
  BY OrderFacts DEF SpendInv, ReportDone
<1>2. /\ orders' = [orders EXCEPT ![o] = r] /\ undo' = [undo EXCEPT ![o] = undo[o]]
      /\ todo' = [todo EXCEPT ![o] = todo[o]]
  BY <1>1 DEF SpendTypeOK, ReportDone
<1> HIDE DEF q
<1>3. phase \in Phases /\ left \in Nat /\ phase # "reserving" /\ phase # "reporting"
  BY <1>1 DEF Phases, OrderRecords
<1> HIDE DEF phase, left
<1>4. r \in OrderRecords /\ r.phase = phase
  BY <1>1, <1>3, Rephased
<1>5. r.phase # "reserving" /\ r.phase # "reporting"
  BY <1>3, <1>4
<1> HIDE DEF r
<1> QED BY <1>1, <1>2, <1>4, <1>5, SlotsAlone, OrderStep

\* A step of one batch.  In the sheltered case there is none.
LEMMA BatchStep ==
  ASSUME SpendInv, setup' = setup, NEW b \in Adjusters, ~Sheltered,
         NEW r \in [phase : {"idle", "applied", "done"}, asset : Assets, delta : Amounts],
         batches' = [batches EXCEPT ![b] = r], UNCHANGED <<orders, todo, undo>>,
         holdings' \in [Assets -> Amounts]
  PROVE  SpendInv'
<1>1. SpendTypeOK
  BY DEF SpendInv
<1>2. SpendTypeOK'
  BY <1>1, SameSetup DEF SpendTypeOK
<1>3. \A o \in Orders : /\ orders'[o].phase = "reserving" => todo'[o] \in Seq(Holds)
                        /\ orders'[o].phase = "reporting" => todo'[o] \in Seq(Moves)
  BY OrderFacts
<1> QED BY <1>2, <1>3, SameSetup DEF SpendInv

LEMMA BatchFacts ==
  ASSUME SpendInv, NEW b \in Adjusters, batches[b].phase = "applied"
  PROVE  ~Sheltered
  BY DEF SpendInv

LEMMA AdjustSpends ==
  ASSUME SpendInv, setup' = setup, NEW b \in Adjusters, Adjust(b)
  PROVE  SpendInv'
<1> DEFINE New(a, request) == [f \in Fields |-> Adjusted(request[f], holdings[a][f])]
           Delta(a, request) == Minus(New(a, request), holdings[a])
<1>1. SpendTypeOK /\ UNCHANGED <<orders, todo, undo>>
  BY DEF SpendInv, Adjust
<1>2. PICK a \in Assets, request \in AdjustRequests :
         /\ InRange(New(a, request)) /\ InRange(Delta(a, request))
         /\ holdings' = [holdings EXCEPT ![a] = New(a, request)]
         /\ batches' = [batches EXCEPT ![b] = [phase |-> "applied", asset |-> a,
                                               delta |-> Delta(a, request)]]
  BY Zenon DEF Adjust
<1> DEFINE new == New(a, request)
           delta == Delta(a, request)
           r == [phase |-> "applied", asset |-> a, delta |-> delta]
<1>3. ~Sheltered
  BY <1>2 DEF Sheltered
<1>4. new = [f \in Fields |-> new[f]] /\ delta = [f \in Fields |-> delta[f]]
  BY DEF Minus
<1>5. InRange(new) /\ InRange(delta) /\ holdings' = [holdings EXCEPT ![a] = new]
      /\ batches' = [batches EXCEPT ![b] = r]
  BY <1>2
<1> HIDE DEF new, delta
<1>6. -MaxAmount .. MaxAmount \subseteq Int
  BY <1>1, SetupBounds
<1>7. new \in Amounts /\ delta \in Amounts
  BY <1>4, <1>5, <1>6 DEF InRange, Amounts
<1>8. holdings' \in [Assets -> Amounts]
  BY <1>1, <1>5, <1>7 DEF SpendTypeOK
<1>9. r \in [phase : {"idle", "applied", "done"}, asset : Assets, delta : Amounts]
  BY <1>7
<1> HIDE DEF r
<1> QED BY <1>1, <1>3, <1>5, <1>8, <1>9, BatchStep

LEMMA AdjustCommitSpends ==
  ASSUME SpendInv, setup' = setup, NEW b \in Adjusters, AdjustCommit(b)
  PROVE  SpendInv'
<1> DEFINE r == [batches[b] EXCEPT !.phase = "done"]
<1>1. SpendTypeOK /\ UNCHANGED <<orders, todo, undo, holdings>> /\ ~Sheltered
  BY BatchFacts DEF SpendInv, AdjustCommit
<1>2. r \in [phase : {"idle", "applied", "done"}, asset : Assets, delta : Amounts]
  BY <1>1 DEF SpendTypeOK
<1>3. batches' = [batches EXCEPT ![b] = r]
  BY <1>1 DEF SpendTypeOK, AdjustCommit
<1> HIDE DEF r
<1> QED BY <1>1, <1>2, <1>3, SlotsAlone, BatchStep

LEMMA AdjustRollbackSpends ==
  ASSUME SpendInv, setup' = setup, NEW b \in Adjusters, AdjustRollback(b)
  PROVE  SpendInv'
<1> DEFINE r == [batches[b] EXCEPT !.phase = "done"]
           a == batches[b].asset
           d == batches[b].delta
           new == Minus(holdings[a], d)
<1>1. SpendTypeOK /\ UNCHANGED <<orders, todo, undo>> /\ ~Sheltered
  BY BatchFacts DEF SpendInv, AdjustRollback
<1>2. /\ r \in [phase : {"idle", "applied", "done"}, asset : Assets, delta : Amounts]
      /\ a \in Assets /\ d \in Amounts
  BY <1>1 DEF SpendTypeOK
<1>3. /\ batches' = [batches EXCEPT ![b] = r]
      /\ holdings' = [holdings EXCEPT ![a] = new] \/ holdings' = holdings
  BY <1>1 DEF SpendTypeOK, AdjustRollback
<1> HIDE DEF r, a, d
<1>4. holdings[a] \in Amounts /\ holdings \in [Assets -> Amounts]
  BY <1>1, <1>2 DEF SpendTypeOK
<1>5. new \in Amounts
  <2> DEFINE h == holdings[a]
  <2>1. h \in Amounts
    BY <1>4
  <2> HIDE DEF h
  <2>2. Minus(h, d) \in Amounts
    BY <1>2, <2>1, PlusIs
  <2> QED BY <2>2 DEF h
<1> HIDE DEF new
<1>6. holdings' \in [Assets -> Amounts]
  BY <1>2, <1>3, <1>4, <1>5
<1> QED BY <1>1, <1>2, <1>3, <1>6, BatchStep

\* SpendInv holds from the start and every step keeps it.
LEMMA SpendInit ==
  ASSUME Init
  PROVE  SpendInv
<1>1. setup \in Setups /\ setup.funds \in Nat
  BY BoundsAssumption DEF Init
<1> DEFINE x == setup.funds
<1>2. x \in Int /\ x >= 0 /\ 0 \in Int
  BY <1>1
<1> HIDE DEF x
<1>3. Slot(x, 0, 0) \in Amounts /\ Slot(x, 0, 0)["available"] = x
      /\ Slot(0, 0, 0) \in Amounts
  BY <1>2, SlotIs
<1>4. holdings \in [Assets -> Amounts] /\ \A a \in Assets : holdings[a]["available"] >= 0
  <2>1. holdings = [a \in Assets |-> Slot(x, 0, 0)]
    BY DEF Init, x
  <2> QED BY <1>2, <1>3, <2>1
<1>5. /\ orders \in [Orders -> OrderRecords] /\ \A o \in Orders : orders[o].phase = "new"
  BY DEF Init, NewOrder, OrderRecords, Phases
<1>6. todo \in [Orders -> Seq(Holds) \cup Seq(Moves)] /\ undo \in [Orders -> Seq(Holds)]
  <2>1. <<>> \in Seq(Holds)
    OBVIOUS
  <2> QED BY <2>1 DEF Init
<1>7. /\ batches \in [Adjusters -> [phase : {"idle", "applied", "done"}, asset : Assets,
                                    delta : Amounts]]
      /\ \A b \in Adjusters : batches[b].phase = "idle"
  BY <1>3 DEF Init, IdleBatch, Assets
<1>8. SpendTypeOK
  BY <1>1, <1>4, <1>5, <1>6, <1>7 DEF SpendTypeOK, OrderRecords, Phases
<1>9. \A o \in Orders : orders[o].phase # "reserving" /\ orders[o].phase # "reporting"
  BY <1>5
<1> QED BY <1>4, <1>7, <1>8, <1>9 DEF SpendInv

LEMMA SpendStep ==
  ASSUME SpendInv, [Next]_vars
  PROVE  SpendInv'
<1>1. CASE UNCHANGED vars
  <2>1. setup' = setup /\ UNCHANGED <<holdings, orders, todo, undo, batches>>
    BY <1>1 DEF vars
  <2>2. SpendTypeOK'
    BY <2>1, SameSetup DEF SpendInv, SpendTypeOK
  <2> QED BY <2>1, <2>2, SameSetup DEF SpendInv
<1>2. CASE Next
  <2>1. setup' = setup /\ setup.orders \subseteq Orders
    BY <1>2, SetupBounds DEF Next, SpendInv
  <2>2. ASSUME NEW o \in setup.orders,
               \/ Reserve(o) \/ ReserveLeg(o) \/ Commit(o) \/ RollbackLeg(o)
               \/ Report(o) \/ ReportLeg(o) \/ ReportDone(o)
        PROVE  SpendInv'
    BY <2>1, <2>2, ReserveSpends, ReserveLegSpends, CommitSpends, RollbackLegSpends,
       ReportSpends, ReportLegSpends, ReportDoneSpends
  <2>3. ASSUME NEW b \in Adjusters, Adjust(b) \/ AdjustCommit(b) \/ AdjustRollback(b)
        PROVE  SpendInv'
    BY <2>1, <2>3, AdjustSpends, AdjustCommitSpends, AdjustRollbackSpends
  <2> QED BY <1>2, <2>2, <2>3 DEF Next, Steps
<1> QED BY <1>1, <1>2

\* Funds are reserved once (rollback.rs:321-323): where limits are enforced,
\* nothing but the orders moves the balances and no order trades worse than
\* its lock, available never falls below zero, however the legs of any number
\* of reservations, rollbacks and reports interleave.
THEOREM FundsReservedOnce == Spec => []NoDoubleSpend
<1>1. SpendInv => NoDoubleSpend
  BY DEF SpendInv, NoDoubleSpend, Sheltered
<1> QED BY <1>1, SpendInit, SpendStep, PTL DEF Spec

-----------------------------------------------------------------------------
(* Sums over a finite set of orders, by induction over the set's size.     *)

\* A set of natural numbers has a least element.
LEMMA LeastNat ==
  ASSUME NEW T, T \subseteq Nat, T # {}
  PROVE  \E x \in T : \A y \in T : x <= y
<1> DEFINE R == {ss \in Nat \X Nat : ss[1] < ss[2]}
<1>1. IsWellFoundedOn(R, Nat)
  BY NatLessThanWellFounded, Zenon DEF OpToRel
<1>2. ASSUME NEW x \in Nat, NEW y \in Nat, y < x PROVE <<y, x>> \in R
  <2>1. <<y, x>> \in Nat \X Nat /\ <<y, x>>[1] < <<y, x>>[2]
    BY <1>2
  <2> QED BY <2>1, Zenon DEF R
<1> HIDE DEF R
<1>3. PICK x \in T : \A y \in T : ~(<<y, x>> \in R)
  BY <1>1, WFMin, Zenon
<1>4. \A y \in T : ~(y < x)
  BY <1>2, <1>3
<1> QED BY <1>3, <1>4

\* Induction over a finite set, for a property given as the set of sets that
\* have it: from all smaller subsets, and by adding one element.
LEMMA SmallerFirst ==
  ASSUME NEW S, IsFiniteSet(S), NEW P,
         \A T \in SUBSET S : (\A U \in SUBSET T : U # T => U \in P) => T \in P
  PROVE  S \in P
<1> DEFINE N == {n \in Nat : \E T \in SUBSET S : T \notin P /\ Cardinality(T) = n}
<1>1. \A T \in SUBSET S : IsFiniteSet(T) /\ Cardinality(T) \in Nat
  BY FS_Subset, FS_CardinalityType
<1> SUFFICES ASSUME S \notin P PROVE FALSE
  OBVIOUS
<1>2. N # {} /\ N \subseteq Nat
  BY <1>1
<1>3. PICK n \in N : \A m \in N : n <= m
  BY <1>2, LeastNat
<1>4. PICK T \in SUBSET S : T \notin P /\ Cardinality(T) = n
  BY <1>3
<1>5. PICK U \in SUBSET T : U # T /\ U \notin P
  BY <1>4
<1>6. Cardinality(U) < n /\ U \in SUBSET S
  BY <1>1, <1>4, <1>5, FS_Subset
<1> QED BY <1>1, <1>3, <1>5, <1>6

\* A finite set is reached from the empty one, an element at a time.
LEMMA OneByOne ==
  ASSUME NEW S, IsFiniteSet(S), NEW P, {} \in P,
         \A T \in SUBSET S, x \in S : T \in P /\ x \notin T => T \cup {x} \in P
  PROVE  S \in P
<1>1. ASSUME NEW T \in SUBSET S, \A U \in SUBSET T : U # T => U \in P PROVE T \in P
  <2>1. CASE T = {}
    BY <2>1
  <2>2. CASE T # {}
    <3>1. PICK x \in T : TRUE
      BY <2>2
    <3>2. T \ {x} \in P /\ (T \ {x}) \cup {x} = T
      BY <1>1, <3>1
    <3> QED BY <3>1, <3>2
  <2> QED BY <2>1, <2>2
<1> QED BY <1>1, SmallerFirst

\* f sums g over the subsets of S.
Sums(f, g, S) ==
  /\ f \in [SUBSET S -> Int] /\ f[{}] = 0
  /\ \A T \in SUBSET S : \A x \in T : f[T] = g[x] + f[T \ {x}]

\* A function that sums g over every subset of a finite set exists.
LEMMA SumsExist ==
  ASSUME NEW S, IsFiniteSet(S), NEW g, \A x \in S : g[x] \in Int
  PROVE  \E f : Sums(f, g, S)
<1> DEFINE P == {T \in SUBSET S : \E f : Sums(f, g, T)}
<1>1. {} \in P
  <2>1. Sums([T \in SUBSET {} |-> 0], g, {})
    BY DEF Sums
  <2> QED BY <2>1
<1>2. ASSUME NEW T \in SUBSET S, NEW y \in S, T \in P, y \notin T
      PROVE  T \cup {y} \in P
  <2>1. PICK f : Sums(f, g, T)
    BY <1>2
  <2> DEFINE U == T \cup {y}
             h == [V \in SUBSET U |-> IF y \in V THEN g[y] + f[V \ {y}] ELSE f[V]]
  <2>2. \A V \in SUBSET U : /\ V \ {y} \in SUBSET T /\ (y \notin V => V \in SUBSET T)
                            /\ h[V] = IF y \in V THEN g[y] + f[V \ {y}] ELSE f[V]
    OBVIOUS
  <2>3. h \in [SUBSET U -> Int] /\ h[{}] = 0
    BY <2>1, <2>2, <1>2 DEF Sums
  <2>4. ASSUME NEW V \in SUBSET U, NEW x \in V PROVE h[V] = g[x] + h[V \ {x}]
    <3>0. V \ {x} \in SUBSET U /\ V \ {y} \in SUBSET T
      OBVIOUS
    <3>1. CASE x = y
      <4>1. h[V] = g[y] + f[V \ {y}] /\ h[V \ {x}] = f[V \ {x}]
        BY <2>2, <2>4, <3>0, <3>1
      <4> QED BY <4>1, <3>1
    <3>2. CASE x # y /\ y \notin V
      <4>1. h[V] = f[V] /\ h[V \ {x}] = f[V \ {x}] /\ V \in SUBSET T
        BY <2>2, <2>4, <3>0, <3>2
      <4> QED BY <4>1, <2>1, <2>4 DEF Sums
    <3>3. CASE x # y /\ y \in V
      <4>1. h[V] = g[y] + f[V \ {y}] /\ h[V \ {x}] = g[y] + f[(V \ {x}) \ {y}]
        BY <2>2, <2>4, <3>0, <3>3
      <4>2. (V \ {x}) \ {y} = (V \ {y}) \ {x} /\ x \in V \ {y}
        BY <3>3, <2>4
      <4>3. f[V \ {y}] = g[x] + f[(V \ {y}) \ {x}]
        BY <2>1, <3>0, <4>2 DEF Sums
      <4>4. g[x] \in Int /\ g[y] \in Int /\ f[(V \ {y}) \ {x}] \in Int
        <5>1. x \in S /\ (V \ {y}) \ {x} \in SUBSET T
          BY <1>2, <3>0, <3>3
        <5> QED BY <5>1, <2>1 DEF Sums
      <4>5. h[V \ {x}] = g[y] + f[(V \ {y}) \ {x}]
        BY <4>1, <4>2
      <4>6. h[V] = g[y] + (g[x] + f[(V \ {y}) \ {x}])
        BY <4>1, <4>3
      <4> HIDE DEF h
      <4> QED BY ONLY <4>4, <4>5, <4>6
    <3> QED BY <3>1, <3>2, <3>3
  <2> HIDE DEF h
  <2>5. Sums(h, g, U)
    BY <2>3, <2>4 DEF Sums
  <2>6. U \in SUBSET S
    BY <1>2
  <2> QED BY <2>5, <2>6
<1> HIDE DEF P
<1>3. S \in P
  BY <1>1, <1>2, OneByOne
<1> QED BY <1>3 DEF P


\* What the fold of the community modules computes: it takes the elements in
\* an order of its own, which does not matter.
LEMMA SumIs ==
  ASSUME NEW S, IsFiniteSet(S), NEW g, NEW f, Sums(f, g, S)
  PROVE  SumFunctionOnSet(g, S) = f[S]
<1> DEFINE first(s) == CHOOSE x \in s : TRUE
           Iter(r) == r = [s \in SUBSET S |->
                             IF s = {} THEN 0 ELSE g[first(s)] + r[s \ {first(s)}]]
           iter == CHOOSE r : Iter(r)
<1>1. SumFunctionOnSet(g, S) = iter[S]
  BY DEF SumFunctionOnSet, FoldFunctionOnSet, MapThenFoldSet
<1>2. Iter(f)
  <2>1. ASSUME NEW s \in SUBSET S
        PROVE  f[s] = IF s = {} THEN 0 ELSE g[first(s)] + f[s \ {first(s)}]
    <3>1. CASE s = {}
      BY <3>1 DEF Sums
    <3>2. CASE s # {}
      <4>1. first(s) \in s
        BY <3>2
      <4> HIDE DEF first
      <4> QED BY <3>2, <4>1 DEF Sums
    <3> QED BY <3>1, <3>2
  <2> HIDE DEF first
  <2> QED BY <2>1 DEF Sums
<1>3. Iter(iter)
  <2> HIDE DEF Iter
  <2> QED BY <1>2, Zenon
<1> DEFINE P == {T \in SUBSET S : iter[T] = f[T]}
<1>4. ASSUME NEW T \in SUBSET S, \A U \in SUBSET T : U # T => U \in P PROVE T \in P
  <2>1. iter[T] = IF T = {} THEN 0 ELSE g[first(T)] + iter[T \ {first(T)}]
    <3> HIDE DEF first, iter
    <3> QED BY <1>3
  <2>2. CASE T = {}
    BY <2>1, <2>2 DEF Sums
  <2>3. CASE T # {}
    <3>1. first(T) \in T
      BY <2>3
    <3> HIDE DEF first, iter
    <3> QED BY <1>4, <2>1, <2>3, <3>1 DEF Sums
  <2> QED BY <2>2, <2>3
<1> HIDE DEF P
<1>5. S \in P
  BY <1>4, SmallerFirst
<1> QED BY <1>1, <1>5 DEF P

\* The sum of nothing, and what one element adds.
LEMMA SumSplit ==
  ASSUME NEW S, IsFiniteSet(S), NEW g, \A x \in S : g[x] \in Int
  PROVE  /\ SumFunctionOnSet(g, S) \in Int
         /\ S = {} => SumFunctionOnSet(g, S) = 0
         /\ \A x \in S : SumFunctionOnSet(g, S) = g[x] + SumFunctionOnSet(g, S \ {x})
<1>1. PICK f : Sums(f, g, S)
  BY SumsExist
<1>2. SumFunctionOnSet(g, S) = f[S]
  BY <1>1, SumIs
<1>3. ASSUME NEW x \in S PROVE SumFunctionOnSet(g, S \ {x}) = f[S \ {x}]
  <2> DEFINE h == [T \in SUBSET (S \ {x}) |-> f[T]]
  <2>1. Sums(h, g, S \ {x})
    BY <1>1 DEF Sums
  <2>2. IsFiniteSet(S \ {x})
    BY FS_Subset
  <2>3. h[S \ {x}] = f[S \ {x}]
    OBVIOUS
  <2> HIDE DEF h
  <2> QED BY <2>1, <2>2, <2>3, SumIs
<1> QED BY <1>1, <1>2, <1>3 DEF Sums

\* Two functions that agree on a set have the same sum over it.
LEMMA SumSame ==
  ASSUME NEW S, IsFiniteSet(S), NEW g, NEW h, \A x \in S : g[x] \in Int /\ h[x] = g[x]
  PROVE  SumFunctionOnSet(h, S) = SumFunctionOnSet(g, S)
<1>1. PICK f : Sums(f, g, S)
  BY SumsExist
<1>2. Sums(f, h, S)
  BY <1>1 DEF Sums
<1> QED BY <1>1, <1>2, SumIs

\* What a change of one value does to a sum.
LEMMA SumChange ==
  ASSUME NEW S, IsFiniteSet(S), NEW g, NEW h, NEW x \in S,
         \A y \in S : g[y] \in Int /\ h[y] \in Int, \A y \in S \ {x} : h[y] = g[y]
  PROVE  SumFunctionOnSet(h, S) = SumFunctionOnSet(g, S) - g[x] + h[x]
<1>1. IsFiniteSet(S \ {x})
  BY FS_Subset
<1>2. SumFunctionOnSet(h, S \ {x}) = SumFunctionOnSet(g, S \ {x})
  BY <1>1, SumSame
<1>3. SumFunctionOnSet(g, S \ {x}) \in Int
  BY <1>1, SumSplit
<1>4. /\ SumFunctionOnSet(g, S) = g[x] + SumFunctionOnSet(g, S \ {x})
      /\ SumFunctionOnSet(h, S) = h[x] + SumFunctionOnSet(h, S \ {x})
  BY SumSplit
<1>5. g[x] \in Int /\ h[x] \in Int
  OBVIOUS
<1> QED BY ONLY <1>2, <1>3, <1>4, <1>5

\* A sum is no less than one that is pointwise smaller.
LEMMA SumMonotone ==
  ASSUME NEW S, IsFiniteSet(S), NEW g, NEW h, \A x \in S : g[x] \in Int /\ h[x] \in Int /\ g[x] <= h[x]
  PROVE  SumFunctionOnSet(g, S) <= SumFunctionOnSet(h, S)
<1> DEFINE P == {T \in SUBSET S : SumFunctionOnSet(g, T) <= SumFunctionOnSet(h, T)}
<1>0. \A T \in SUBSET S : IsFiniteSet(T)
  BY FS_Subset
<1>1. {} \in P
  <2>1. SumFunctionOnSet(g, {}) = 0 /\ SumFunctionOnSet(h, {}) = 0
    BY FS_EmptySet, SumSplit
  <2> QED BY <2>1
<1>2. ASSUME NEW T \in SUBSET S, NEW x \in S, T \in P, x \notin T PROVE T \cup {x} \in P
  <2>1. IsFiniteSet(T \cup {x}) /\ (T \cup {x}) \ {x} = T /\ IsFiniteSet(T)
    BY <1>0, <1>2
  <2>2. \A y \in T \cup {x} : g[y] \in Int /\ h[y] \in Int
    BY <1>2
  <2>3. /\ SumFunctionOnSet(g, T \cup {x}) = g[x] + SumFunctionOnSet(g, (T \cup {x}) \ {x})
        /\ SumFunctionOnSet(h, T \cup {x}) = h[x] + SumFunctionOnSet(h, (T \cup {x}) \ {x})
        /\ SumFunctionOnSet(g, T) \in Int /\ SumFunctionOnSet(h, T) \in Int
    BY <2>1, <2>2, SumSplit
  <2>4. SumFunctionOnSet(g, T) <= SumFunctionOnSet(h, T)
    BY <1>2
  <2>5. /\ SumFunctionOnSet(g, T \cup {x}) = g[x] + SumFunctionOnSet(g, T)
        /\ SumFunctionOnSet(h, T \cup {x}) = h[x] + SumFunctionOnSet(h, T)
        /\ g[x] \in Int /\ h[x] \in Int /\ g[x] <= h[x]
    BY <2>1, <2>3
  <2>6. SumFunctionOnSet(g, T \cup {x}) <= SumFunctionOnSet(h, T \cup {x})
    BY ONLY <2>3, <2>4, <2>5
  <2> QED BY <1>2, <2>6
<1> HIDE DEF P
<1>3. S \in P
  BY <1>1, <1>2, OneByOne
<1> QED BY <1>3 DEF P

\* A sum of what is not negative is no less than any part of it.
LEMMA SumCovers ==
  ASSUME NEW S, IsFiniteSet(S), NEW g, \A x \in S : g[x] \in Nat
  PROVE  /\ SumFunctionOnSet(g, S) >= 0
         /\ \A x \in S : SumFunctionOnSet(g, S) >= g[x]
<1>1. ASSUME NEW T \in SUBSET S PROVE SumFunctionOnSet(g, T) >= 0 /\ SumFunctionOnSet(g, T) \in Int
  <2>1. IsFiniteSet(T)
    BY FS_Subset
  <2> DEFINE P == {U \in SUBSET T : SumFunctionOnSet(g, U) >= 0}
  <2>2. {} \in P
    BY FS_EmptySet, SumSplit
  <2>3. ASSUME NEW U \in SUBSET T, NEW x \in T, U \in P, x \notin U PROVE U \cup {x} \in P
    <3>1. IsFiniteSet(U \cup {x}) /\ (U \cup {x}) \ {x} = U /\ IsFiniteSet(U)
      BY <2>1, <2>3, FS_Subset
    <3>2. \A y \in U \cup {x} : g[y] \in Int
      BY <2>3
    <3>3. /\ SumFunctionOnSet(g, U \cup {x}) = g[x] + SumFunctionOnSet(g, (U \cup {x}) \ {x})
          /\ SumFunctionOnSet(g, U) \in Int
      BY <3>1, <3>2, SumSplit
    <3>4. SumFunctionOnSet(g, U \cup {x}) >= 0
      BY <2>3, <3>1, <3>3
    <3> QED BY <2>3, <3>4
  <2> HIDE DEF P
  <2>4. T \in P
    BY <2>1, <2>2, <2>3, OneByOne
  <2> QED BY <2>1, <2>4, SumSplit DEF P
<1>2. ASSUME NEW x \in S PROVE SumFunctionOnSet(g, S) >= g[x]
  <2>1. SumFunctionOnSet(g, S \ {x}) >= 0 /\ SumFunctionOnSet(g, S \ {x}) \in Int
    BY <1>1
  <2>2. SumFunctionOnSet(g, S) = g[x] + SumFunctionOnSet(g, S \ {x})
    BY SumSplit
  <2> QED BY <2>1, <2>2
<1> QED BY <1>1, <1>2

\* A sum of zeros.
LEMMA SumOfNothing ==
  ASSUME NEW S, IsFiniteSet(S), NEW g, \A x \in S : g[x] = 0
  PROVE  SumFunctionOnSet(g, S) = 0
<1> DEFINE P == {U \in SUBSET S : SumFunctionOnSet(g, U) = 0}
<1>1. {} \in P
  BY FS_EmptySet, SumSplit
<1>2. ASSUME NEW U \in SUBSET S, NEW x \in S, U \in P, x \notin U PROVE U \cup {x} \in P
  <2>1. IsFiniteSet(U \cup {x}) /\ (U \cup {x}) \ {x} = U
    BY <1>2, FS_Subset
  <2>2. \A y \in U \cup {x} : g[y] \in Int
    BY <1>2
  <2>3. SumFunctionOnSet(g, U \cup {x}) = g[x] + SumFunctionOnSet(g, (U \cup {x}) \ {x})
    BY <2>1, <2>2, SumSplit
  <2>4. SumFunctionOnSet(g, U \cup {x}) = 0
    BY <1>2, <2>1, <2>3
  <2> QED BY <1>2, <2>4
<1> HIDE DEF P
<1>3. S \in P
  BY <1>1, <1>2, OneByOne
<1> QED BY <1>3 DEF P

-----------------------------------------------------------------------------
(* The books of a slot: what it holds is what its orders' shares add up to.*)

\* The sums and differences of slots, field by field.
LEMMA PlusAt ==
  ASSUME NEW h \in Amounts, NEW d \in Amounts, NEW f \in Fields
  PROVE  /\ Plus(h, d)[f] = h[f] + d[f] /\ Minus(h, d)[f] = h[f] - d[f]
         /\ h[f] \in Int /\ d[f] \in Int
  BY DEF Plus, Minus, Amounts

\* What a leg moves in each field.
LEMMA HoldDeltaIs ==
  ASSUME NEW leg \in [held : Nat, incoming : Nat]
  PROVE  /\ HoldDelta(leg) \in Amounts /\ HoldDelta(leg)["available"] = -leg.held
         /\ HoldDelta(leg)["held"] = leg.held /\ HoldDelta(leg)["incoming"] = leg.incoming
<1>1. -leg.held \in Int /\ leg.held \in Int /\ leg.incoming \in Int
  OBVIOUS
<1> QED BY <1>1, SlotIs DEF HoldDelta

\* An order of two quantities reserves what an order of each would.
LEMMA NonNegativeAdds ==
  ASSUME NEW x \in Int, NEW y \in Int, (x >= 0 /\ y >= 0) \/ (x <= 0 /\ y <= 0)
  PROVE  non_negative(x + y) = non_negative(x) + non_negative(y)
<1>1. x + y \in Int
  OBVIOUS
<1>2. CASE x >= 0 /\ y >= 0
  BY <1>1, <1>2, NonNegative
<1>3. CASE x <= 0 /\ y <= 0
  <2>1. ASSUME NEW z \in Int, z <= 0 PROVE non_negative(z) = 0
    BY <2>1, NonNegative
  <2> QED BY <1>1, <1>3, <2>1
<1> QED BY <1>2, <1>3

LEMMA ReservedAdds ==
  ASSUME NEW side \in {"buy", "sell"}, NEW x \in Nat, NEW y \in Nat, NEW price \in Int, NEW a \in Assets
  PROVE  /\ Reserved(side, x + y, price, a).held
              = Reserved(side, x, price, a).held + Reserved(side, y, price, a).held
         /\ Reserved(side, x + y, price, a).incoming
              = Reserved(side, x, price, a).incoming + Reserved(side, y, price, a).incoming
<1> DEFINE X == price * x
           Y == price * y
<1>1. price * (x + y) = X + Y /\ -(price * (x + y)) = (-X) + (-Y)
  OBVIOUS
<1>2. X \in Int /\ Y \in Int /\ ((X >= 0 /\ Y >= 0) \/ (X <= 0 /\ Y <= 0))
  <2>1. CASE price >= 0
    BY <2>1
  <2>2. CASE price < 0
    BY <2>2
  <2> QED BY <2>1, <2>2
<1> HIDE DEF X, Y
<1>3. /\ non_negative(X + Y) = non_negative(X) + non_negative(Y)
      /\ non_negative((-X) + (-Y)) = non_negative(-X) + non_negative(-Y)
  <2>1. -X \in Int /\ -Y \in Int /\ ((-X >= 0 /\ -Y >= 0) \/ (-X <= 0 /\ -Y <= 0))
    BY <1>2
  <2> QED BY <1>2, <2>1, NonNegativeAdds
<1>4. ASSUME NEW q, NEW N, N = price * q
      PROVE  Reserved(side, q, price, a) =
                IF a = "underlying"
                THEN IF side = "buy" THEN [held |-> 0, incoming |-> q] ELSE [held |-> q, incoming |-> 0]
                ELSE IF side = "buy" THEN [held |-> non_negative(N), incoming |-> 0]
                     ELSE [held |-> non_negative(-N), incoming |-> non_negative(N)]
  <2>1. a \in {"underlying", "settlement"}
    BY DEF Assets
  <2> QED BY <1>4, <2>1 DEF Reserved
<1>5. /\ Reserved(side, x, price, a) =
                IF a = "underlying"
                THEN IF side = "buy" THEN [held |-> 0, incoming |-> x] ELSE [held |-> x, incoming |-> 0]
                ELSE IF side = "buy" THEN [held |-> non_negative(X), incoming |-> 0]
                     ELSE [held |-> non_negative(-X), incoming |-> non_negative(X)]
      /\ Reserved(side, y, price, a) =
                IF a = "underlying"
                THEN IF side = "buy" THEN [held |-> 0, incoming |-> y] ELSE [held |-> y, incoming |-> 0]
                ELSE IF side = "buy" THEN [held |-> non_negative(Y), incoming |-> 0]
                     ELSE [held |-> non_negative(-Y), incoming |-> non_negative(Y)]
      /\ Reserved(side, x + y, price, a) =
                IF a = "underlying"
                THEN IF side = "buy" THEN [held |-> 0, incoming |-> x + y] ELSE [held |-> x + y, incoming |-> 0]
                ELSE IF side = "buy" THEN [held |-> non_negative(X + Y), incoming |-> 0]
                     ELSE [held |-> non_negative((-X) + (-Y)), incoming |-> non_negative(X + Y)]
  <2>1. X = price * x /\ Y = price * y
    BY DEF X, Y
  <2>2. X + Y = price * (x + y) /\ -(X + Y) = (-X) + (-Y)
    BY <1>1, <1>2
  <2> QED BY <1>4, <2>1, <2>2
<1>6. CASE a = "underlying"
  BY <1>5, <1>6
<1>7. CASE a # "underlying"
  BY <1>3, <1>5, <1>7
<1> QED BY <1>6, <1>7

\* What an order has reserved in full, typed and split.
LEMMA HoldsAdd ==
  ASSUME NEW side \in {"buy", "sell"}, NEW x \in Nat, NEW y \in Nat, NEW z, z = x + y,
         NEW price \in Int, NEW a \in Assets, NEW f \in Fields
  PROVE  /\ HoldDelta(Reserved(side, x, price, a))[f] \in Int
         /\ HoldDelta(Reserved(side, z, price, a))[f]
              = HoldDelta(Reserved(side, x, price, a))[f] + HoldDelta(Reserved(side, y, price, a))[f]
         /\ f # "available" => HoldDelta(Reserved(side, x, price, a))[f] >= 0
<1> DEFINE R(q) == Reserved(side, q, price, a)
<1>1. x + y \in Nat
  OBVIOUS
<1>2. R(x) \in [held : Nat, incoming : Nat] /\ R(y) \in [held : Nat, incoming : Nat]
      /\ R(x + y) \in [held : Nat, incoming : Nat]
  BY <1>1, ReservedIs
<1>3. R(x + y).held = R(x).held + R(y).held /\ R(x + y).incoming = R(x).incoming + R(y).incoming
  BY ReservedAdds
<1> HIDE DEF R
<1>4. f = "available" \/ f = "held" \/ f = "incoming"
  BY DEF Fields
<1>5. HoldDelta(R(x))[f] = (IF f = "available" THEN -R(x).held ELSE IF f = "held" THEN R(x).held ELSE R(x).incoming)
  BY <1>2, <1>4, HoldDeltaIs
<1>6. HoldDelta(R(y))[f] = (IF f = "available" THEN -R(y).held ELSE IF f = "held" THEN R(y).held ELSE R(y).incoming)
  BY <1>2, <1>4, HoldDeltaIs
<1>7. HoldDelta(R(x + y))[f] = (IF f = "available" THEN -R(x + y).held ELSE IF f = "held" THEN R(x + y).held ELSE R(x + y).incoming)
  BY <1>2, <1>4, HoldDeltaIs
<1>8. R(x).held \in Nat /\ R(x).incoming \in Nat /\ R(y).held \in Nat /\ R(y).incoming \in Nat
  BY <1>2
<1>9. /\ HoldDelta(R(x))[f] \in Int /\ HoldDelta(R(x + y))[f] = HoldDelta(R(x))[f] + HoldDelta(R(y))[f]
      /\ f # "available" => HoldDelta(R(x))[f] >= 0
  BY ONLY <1>3, <1>5, <1>6, <1>7, <1>8
<1> QED BY <1>9 DEF R

LEMMA HoldsIs ==
  ASSUME NEW side \in {"buy", "sell"}, NEW x \in Nat, NEW price \in Int, NEW a \in Assets, NEW f \in Fields
  PROVE  /\ HoldDelta(Reserved(side, x, price, a))[f] \in Int
         /\ x = 0 => HoldDelta(Reserved(side, x, price, a))[f] = 0
         /\ f # "available" => HoldDelta(Reserved(side, x, price, a))[f] >= 0
<1> DEFINE h == HoldDelta(Reserved(side, x, price, a))[f]
<1>1. x + x \in Nat /\ (x = 0 => x + x = x)
  OBVIOUS
<1>2. h \in Int /\ (f # "available" => h >= 0)
  BY <1>1, HoldsAdd
<1>3. x = 0 => h = h + h
  BY <1>1, HoldsAdd
<1> HIDE DEF h
<1>4. x = 0 => h = 0
  BY <1>2, <1>3
<1> QED BY <1>2, <1>4 DEF h

(***************************************************************************)
(* Lists of legs: what they hold or move, when one is taken off or put on. *)
(***************************************************************************)
LEMMA HoldAtIs ==
  ASSUME NEW s \in Seq(Holds), NEW k \in Nat, NEW a \in Assets, NEW f \in Fields
  PROVE  HoldAt(s, k, a, f) \in Int /\ (f # "available" => HoldAt(s, k, a, f) >= 0)
<1>1. CASE k \in DOMAIN s
  <2>1. s[k].leg \in [held : Nat, incoming : Nat]
    <3>1. s[k] \in Holds
      BY <1>1
    <3> QED BY <3>1, Zenon DEF Holds
  <2>2. HoldDelta(s[k].leg)[f] \in Int /\ (f # "available" => HoldDelta(s[k].leg)[f] >= 0)
    <3>1. f = "available" \/ f = "held" \/ f = "incoming"
      BY DEF Fields
    <3>2. s[k].leg.held \in Nat /\ s[k].leg.incoming \in Nat
      BY <2>1
    <3> QED BY <2>1, <3>1, <3>2, HoldDeltaIs
  <2> QED BY <2>2 DEF HoldAt
<1>2. CASE k \notin DOMAIN s
  BY <1>2 DEF HoldAt
<1> QED BY <1>1, <1>2

LEMMA HoldingIs ==
  ASSUME NEW s \in Seq(Holds), NEW a \in Assets, NEW f \in Fields
  PROVE  /\ Holding(s, a, f) \in Int /\ (f # "available" => Holding(s, a, f) >= 0)
         /\ s = <<>> => Holding(s, a, f) = 0
<1>1. /\ HoldAt(s, 1, a, f) \in Int /\ HoldAt(s, 2, a, f) \in Int
      /\ f # "available" => HoldAt(s, 1, a, f) >= 0 /\ HoldAt(s, 2, a, f) >= 0
  BY HoldAtIs
<1>2. s = <<>> => HoldAt(s, 1, a, f) = 0 /\ HoldAt(s, 2, a, f) = 0
  BY DEF HoldAt
<1> QED BY <1>1, <1>2 DEF Holding

\* A leg of a reservation is done: the others remain.
LEMMA HoldingTail ==
  ASSUME NEW s \in Seq(Holds), s # <<>>, Len(s) <= 2, NEW a \in Assets, NEW f \in Fields
  PROVE  /\ Holding(s, a, f) = Holding(Tail(s), a, f)
              + (IF Head(s).asset = a THEN HoldDelta(Head(s).leg)[f] ELSE 0)
         /\ HoldDelta(Head(s).leg)[f] \in Int
<1>1. /\ Tail(s) \in Seq(Holds) /\ Len(Tail(s)) = Len(s) - 1 /\ Head(s) = s[1]
      /\ \A k \in 1 .. Len(Tail(s)) : Tail(s)[k] = s[k + 1]
      /\ DOMAIN s = 1 .. Len(s) /\ DOMAIN Tail(s) = 1 .. Len(Tail(s)) /\ Len(s) \in 1 .. 2
  <2>1. /\ Tail(s) \in Seq(Holds) /\ Len(Tail(s)) = Len(s) - 1 /\ Head(s) = s[1]
        /\ \A k \in 1 .. Len(Tail(s)) : Tail(s)[k] = s[k + 1]
    BY HeadTailProperties
  <2>2. /\ DOMAIN s = 1 .. Len(s) /\ DOMAIN Tail(s) = 1 .. Len(Tail(s))
        /\ Len(s) \in Nat /\ Len(s) # 0
    BY <2>1
  <2>3. Len(s) \in 1 .. 2
    BY ONLY <2>2, Len(s) <= 2
  <2> QED BY <2>1, <2>2, <2>3
<1>2. HoldAt(Tail(s), 1, a, f) = HoldAt(s, 2, a, f)
  BY <1>1 DEF HoldAt
<1>3. HoldAt(Tail(s), 2, a, f) = 0
  BY <1>1 DEF HoldAt
<1>4. HoldAt(s, 1, a, f) = IF Head(s).asset = a THEN HoldDelta(Head(s).leg)[f] ELSE 0
  BY <1>1 DEF HoldAt
<1>5. HoldAt(s, 1, a, f) \in Int /\ HoldAt(s, 2, a, f) \in Int
  BY HoldAtIs
<1>6. HoldDelta(Head(s).leg)[f] \in Int
  <2>1. Head(s).leg \in [held : Nat, incoming : Nat] /\ Head(s).asset \in Assets
    <3>1. Head(s) \in Holds
      BY <1>1
    <3> QED BY <3>1, Zenon DEF Holds
  <2> QED BY <2>1, HoldDeltaIs, PlusAt
<1> QED BY <1>2, <1>3, <1>4, <1>5, <1>6 DEF Holding

LEMMA HoldingOneMore ==
  ASSUME NEW s \in Seq(Holds), NEW h \in Holds, Len(s) <= 1, NEW a \in Assets, NEW f \in Fields
  PROVE  /\ <<h>> \o s \in Seq(Holds) /\ Len(<<h>> \o s) = Len(s) + 1
         /\ Holding(<<h>> \o s, a, f) = Holding(s, a, f)
              + (IF h.asset = a THEN HoldDelta(h.leg)[f] ELSE 0)
<1> DEFINE t == <<h>> \o s
<1>1. t \in Seq(Holds) /\ Len(t) = Len(s) + 1 /\ Len(s) \in Nat
  BY ConcatProperties
<1>2. t # <<>> /\ Len(t) <= 2
  BY <1>1
<1>3. Head(t) = h /\ Tail(t) = s
  OBVIOUS
<1> HIDE DEF t
<1>4. Holding(t, a, f) = Holding(Tail(t), a, f)
              + (IF Head(t).asset = a THEN HoldDelta(Head(t).leg)[f] ELSE 0)
  BY <1>1, <1>2, HoldingTail
<1>5. Holding(t, a, f) = Holding(s, a, f) + (IF h.asset = a THEN HoldDelta(h.leg)[f] ELSE 0)
  BY <1>3, <1>4
<1> QED BY <1>1, <1>5 DEF t

LEMMA MoveAtIs ==
  ASSUME NEW s \in Seq(Moves), NEW k \in Nat, NEW a \in Assets, NEW f \in Fields
  PROVE  MoveAt(s, k, a, f) \in Int
<1>1. CASE k \in DOMAIN s
  <2>1. s[k].delta \in Amounts
    BY <1>1 DEF Moves
  <2> QED BY <2>1 DEF MoveAt, Amounts
<1>2. CASE k \notin DOMAIN s
  BY <1>2 DEF MoveAt
<1> QED BY <1>1, <1>2

LEMMA MovingIs ==
  ASSUME NEW s \in Seq(Moves), NEW a \in Assets, NEW f \in Fields
  PROVE  Moving(s, a, f) \in Int /\ (s = <<>> => Moving(s, a, f) = 0)
<1>1. /\ MoveAt(s, 1, a, f) \in Int /\ MoveAt(s, 2, a, f) \in Int /\ MoveAt(s, 3, a, f) \in Int
      /\ MoveAt(s, 4, a, f) \in Int /\ MoveAt(s, 5, a, f) \in Int
  BY MoveAtIs
<1>2. s = <<>> => \A k \in Nat : MoveAt(s, k, a, f) = 0
  BY DEF MoveAt
<1> QED BY <1>1, <1>2 DEF Moving

\* A leg of a report is done: the others remain.
LEMMA MovingTail ==
  ASSUME NEW s \in Seq(Moves), s # <<>>, Len(s) <= 5, NEW a \in Assets, NEW f \in Fields
  PROVE  /\ Moving(s, a, f) = Moving(Tail(s), a, f)
              + (IF Head(s).asset = a THEN Head(s).delta[f] ELSE 0)
         /\ Head(s).delta \in Amounts /\ Tail(s) \in Seq(Moves)
<1>1. /\ Tail(s) \in Seq(Moves) /\ Len(Tail(s)) = Len(s) - 1 /\ Head(s) = s[1]
      /\ \A k \in 1 .. Len(Tail(s)) : Tail(s)[k] = s[k + 1]
      /\ DOMAIN s = 1 .. Len(s) /\ DOMAIN Tail(s) = 1 .. Len(Tail(s)) /\ Len(s) \in 1 .. 5
  <2>1. /\ Tail(s) \in Seq(Moves) /\ Len(Tail(s)) = Len(s) - 1 /\ Head(s) = s[1]
        /\ \A k \in 1 .. Len(Tail(s)) : Tail(s)[k] = s[k + 1]
    BY HeadTailProperties
  <2>2. /\ DOMAIN s = 1 .. Len(s) /\ DOMAIN Tail(s) = 1 .. Len(Tail(s))
        /\ Len(s) \in Nat /\ Len(s) # 0
    BY <2>1
  <2>3. Len(s) \in 1 .. 5
    BY ONLY <2>2, Len(s) <= 5
  <2> QED BY <2>1, <2>2, <2>3
<1>2. \A k \in 1 .. 4 : MoveAt(Tail(s), k, a, f) = MoveAt(s, k + 1, a, f)
  BY <1>1 DEF MoveAt
<1>3. MoveAt(Tail(s), 5, a, f) = 0
  BY <1>1 DEF MoveAt
<1>4. MoveAt(s, 1, a, f) = IF Head(s).asset = a THEN Head(s).delta[f] ELSE 0
  BY <1>1 DEF MoveAt
<1>5. /\ MoveAt(s, 1, a, f) \in Int /\ MoveAt(s, 2, a, f) \in Int /\ MoveAt(s, 3, a, f) \in Int
      /\ MoveAt(s, 4, a, f) \in Int /\ MoveAt(s, 5, a, f) \in Int
  BY MoveAtIs
<1>6. Head(s).delta \in Amounts
  BY <1>1 DEF Moves
<1>7. /\ MoveAt(Tail(s), 1, a, f) = MoveAt(s, 2, a, f) /\ MoveAt(Tail(s), 2, a, f) = MoveAt(s, 3, a, f)
      /\ MoveAt(Tail(s), 3, a, f) = MoveAt(s, 4, a, f) /\ MoveAt(Tail(s), 4, a, f) = MoveAt(s, 5, a, f)
  BY <1>2
<1>8. Moving(s, a, f) = Moving(Tail(s), a, f) + MoveAt(s, 1, a, f)
  BY <1>3, <1>5, <1>7 DEF Moving
<1> QED BY <1>1, <1>4, <1>6, <1>8

\* A list of legs one after another moves what its parts move.
LEMMA MovingBoth ==
  ASSUME NEW s \in Seq(Moves), NEW t \in Seq(Moves), Len(s) + Len(t) <= 5, NEW a \in Assets, NEW f \in Fields
  PROVE  /\ s \o t \in Seq(Moves) /\ Len(s \o t) = Len(s) + Len(t)
         /\ Moving(s \o t, a, f) = Moving(s, a, f) + Moving(t, a, f)
<1> DEFINE u == s \o t
           A(k) == MoveAt(s, k, a, f)
           B(k) == MoveAt(t, k, a, f)
           C(k) == MoveAt(u, k, a, f)
<1>1. /\ u \in Seq(Moves) /\ Len(u) = Len(s) + Len(t) /\ Len(s) \in Nat /\ Len(t) \in Nat
      /\ \A k \in 1 .. Len(u) : u[k] = IF k <= Len(s) THEN s[k] ELSE t[k - Len(s)]
      /\ DOMAIN s = 1 .. Len(s) /\ DOMAIN t = 1 .. Len(t) /\ DOMAIN u = 1 .. Len(u)
  BY ConcatProperties
<1> HIDE DEF u
<1>2. \A k \in 1 .. 5 : C(k) = IF k <= Len(s) THEN A(k) ELSE B(k - Len(s))
  BY <1>1 DEF MoveAt
<1>3. \A k \in Nat : A(k) \in Int /\ B(k) \in Int
  BY MoveAtIs
<1>4. (\A k \in Nat : k > Len(s) => A(k) = 0) /\ (\A k \in Nat : k > Len(t) => B(k) = 0)
  BY <1>1 DEF MoveAt
<1> HIDE DEF A, B, C
<1>5. Len(s) = 0 \/ Len(s) = 1 \/ Len(s) = 2 \/ Len(s) = 3 \/ Len(s) = 4 \/ Len(s) = 5
  <2>1. ASSUME NEW x \in Nat, NEW y \in Nat, x + y <= 5
        PROVE  x = 0 \/ x = 1 \/ x = 2 \/ x = 3 \/ x = 4 \/ x = 5
    BY ONLY <2>1
  <2>2. Len(s) \in Nat /\ Len(t) \in Nat /\ Len(s) + Len(t) <= 5
    BY <1>1
  <2> QED BY ONLY <2>1, <2>2
<1>6. C(1) + C(2) + C(3) + C(4) + C(5) = (A(1) + A(2) + A(3) + A(4) + A(5)) + (B(1) + B(2) + B(3) + B(4) + B(5))
  <2>1. /\ A(1) \in Int /\ A(2) \in Int /\ A(3) \in Int /\ A(4) \in Int /\ A(5) \in Int
        /\ B(1) \in Int /\ B(2) \in Int /\ B(3) \in Int /\ B(4) \in Int /\ B(5) \in Int
    BY <1>3
  <2>2. CASE Len(s) = 0
    <3>1. A(1) = 0 /\ A(2) = 0 /\ A(3) = 0 /\ A(4) = 0 /\ A(5) = 0
      BY <1>4, <2>2
    <3>2. C(1) = B(1) /\ C(2) = B(2) /\ C(3) = B(3) /\ C(4) = B(4) /\ C(5) = B(5)
      BY <1>2, <2>2
    <3> QED BY ONLY <2>1, <3>1, <3>2
  <2>3. CASE Len(s) = 1
    <3>1. A(2) = 0 /\ A(3) = 0 /\ A(4) = 0 /\ A(5) = 0 /\ B(5) = 0
      BY <1>1, <1>4, <2>3
    <3>2. C(1) = A(1) /\ C(2) = B(1) /\ C(3) = B(2) /\ C(4) = B(3) /\ C(5) = B(4)
      BY <1>2, <2>3
    <3> QED BY ONLY <2>1, <3>1, <3>2, SMTT(60)
  <2>4. CASE Len(s) = 2
    <3>1. A(3) = 0 /\ A(4) = 0 /\ A(5) = 0 /\ B(4) = 0 /\ B(5) = 0
      BY <1>1, <1>4, <2>4
    <3>2. C(1) = A(1) /\ C(2) = A(2) /\ C(3) = B(1) /\ C(4) = B(2) /\ C(5) = B(3)
      BY <1>2, <2>4
    <3> QED BY ONLY <2>1, <3>1, <3>2
  <2>5. CASE Len(s) = 3
    <3>1. A(4) = 0 /\ A(5) = 0 /\ B(3) = 0 /\ B(4) = 0 /\ B(5) = 0
      BY <1>1, <1>4, <2>5
    <3>2. C(1) = A(1) /\ C(2) = A(2) /\ C(3) = A(3) /\ C(4) = B(1) /\ C(5) = B(2)
      BY <1>2, <2>5
    <3> QED BY ONLY <2>1, <3>1, <3>2
  <2>6. CASE Len(s) = 4
    <3>1. A(5) = 0 /\ B(2) = 0 /\ B(3) = 0 /\ B(4) = 0 /\ B(5) = 0
      BY <1>1, <1>4, <2>6
    <3>2. C(1) = A(1) /\ C(2) = A(2) /\ C(3) = A(3) /\ C(4) = A(4) /\ C(5) = B(1)
      BY <1>2, <2>6
    <3> QED BY ONLY <2>1, <3>1, <3>2
  <2>7. CASE Len(s) = 5
    <3>1. B(1) = 0 /\ B(2) = 0 /\ B(3) = 0 /\ B(4) = 0 /\ B(5) = 0
      BY <1>1, <1>4, <2>7
    <3>2. C(1) = A(1) /\ C(2) = A(2) /\ C(3) = A(3) /\ C(4) = A(4) /\ C(5) = A(5)
      BY <1>2, <2>7
    <3> QED BY ONLY <2>1, <3>1, <3>2
  <2> QED BY <1>5, <2>2, <2>3, <2>4, <2>5, <2>6, <2>7
<1> QED BY <1>1, <1>6 DEF A, B, C, u, Moving

\* Two legs of different assets move what each of them does.
LEMMA MovingPair ==
  ASSUME NEW t \in Seq(Moves), Len(t) = 2, t[1].asset # t[2].asset, NEW d \in [Assets -> Amounts],
         t[1].asset \in Assets, t[2].asset \in Assets,
         t[1].delta = d[t[1].asset], t[2].delta = d[t[2].asset], NEW a \in Assets, NEW f \in Fields
  PROVE  Moving(t, a, f) = d[a][f]
<1>1. DOMAIN t = 1 .. 2
  OBVIOUS
<1>2. MoveAt(t, 3, a, f) = 0 /\ MoveAt(t, 4, a, f) = 0 /\ MoveAt(t, 5, a, f) = 0
  BY <1>1 DEF MoveAt
<1>3. /\ MoveAt(t, 1, a, f) = IF t[1].asset = a THEN d[a][f] ELSE 0
      /\ MoveAt(t, 2, a, f) = IF t[2].asset = a THEN d[a][f] ELSE 0
  BY <1>1 DEF MoveAt
<1>4. (t[1].asset = a /\ t[2].asset # a) \/ (t[1].asset # a /\ t[2].asset = a)
  BY DEF Assets
<1>5. d[a][f] \in Int
  BY PlusAt
<1> QED BY <1>2, <1>3, <1>4, <1>5 DEF Moving

\* What a trade and a release move is what they no longer reserve, and the
\* flow of the trade.
LEMMA FlowIs ==
  ASSUME NEW side \in {"buy", "sell"}, NEW q \in Nat, NEW price \in Int, NEW a \in Assets
  PROVE  /\ Flow(side, q, price, a) \in Int /\ (q = 0 => Flow(side, q, price, a) = 0)
         /\ a = "underlying" => Flow(side, q, price, a) = IF side = "buy" THEN q ELSE -q
<1>1. CASE side = "buy"
  <2>1. Flow(side, q, price, a) = IF a = "underlying" THEN 1 * q ELSE -1 * price * q
    BY <1>1 DEF Flow
  <2>2. 1 * q = q /\ -1 * price * q \in Int /\ (q = 0 => -1 * price * q = 0)
    OBVIOUS
  <2> QED BY <1>1, <2>1, <2>2
<1>2. CASE side = "sell"
  <2>1. Flow(side, q, price, a) = IF a = "underlying" THEN (-1) * q ELSE -(-1) * price * q
    BY <1>2 DEF Flow
  <2>2. (-1) * q = -q /\ -(-1) * price * q \in Int /\ (q = 0 => -(-1) * price * q = 0)
    OBVIOUS
  <2> QED BY <1>2, <2>1, <2>2
<1> QED BY <1>1, <1>2

LEMMA SettleIs ==
  ASSUME NEW side \in {"buy", "sell"}, NEW q \in Nat, NEW lock \in Int, NEW price \in Int,
         NEW a \in Assets, NEW f \in Fields
  PROVE  /\ SettleDelta(side, q, lock, price, a) \in Amounts
         /\ ReleaseDelta(side, q, lock, a) \in Amounts
         /\ SettleDelta(side, q, lock, price, a)[f] =
              -HoldDelta(Reserved(side, q, lock, a))[f]
                + (IF f = "available" THEN Flow(side, q, price, a) ELSE 0)
         /\ ReleaseDelta(side, q, lock, a)[f] = -HoldDelta(Reserved(side, q, lock, a))[f]
         /\ a = "underlying" => /\ Settles(SettleDelta(side, q, lock, price, a))
                                /\ Settles(ReleaseDelta(side, q, lock, a))
<1> DEFINE r == Reserved(side, q, lock, a)
           flow == Flow(side, q, price, a)
           x == r.held + flow
           y == -r.held
           z == -r.incoming
           w == r.held
<1>1. r \in [held : Nat, incoming : Nat] /\ flow \in Int
  BY ReservedIs, FlowIs
<1>2. SettleDelta(side, q, lock, price, a) = Slot(x, y, z) /\ ReleaseDelta(side, q, lock, a) = Slot(w, y, z)
  BY DEF SettleDelta, ReleaseDelta
<1>3. /\ a = "underlying" => r = IF side = "buy" THEN [held |-> 0, incoming |-> q]
                                                ELSE [held |-> q, incoming |-> 0]
      /\ a = "underlying" => flow = IF side = "buy" THEN q ELSE -q
  BY FlowIs DEF Reserved
<1> HIDE DEF r, flow
<1>4. /\ x \in Int /\ y \in Int /\ z \in Int /\ w \in Int /\ x = flow - y /\ w = -y
      /\ HoldDelta(r)["available"] = y /\ HoldDelta(r)["held"] = -y /\ HoldDelta(r)["incoming"] = -z
  <2>1. r.held \in Nat /\ r.incoming \in Nat
    BY <1>1
  <2> QED BY <1>1, <2>1, HoldDeltaIs
<1>5. a = "underlying" => /\ y <= 0 /\ z <= 0 /\ x >= 0 /\ w >= 0 /\ x + y + z <= 0 /\ w + y + z <= 0
  BY <1>1, <1>3
<1> HIDE DEF x, y, z, w
<1>6. /\ Slot(x, y, z) \in Amounts /\ Slot(x, y, z)["available"] = x /\ Slot(x, y, z)["held"] = y
      /\ Slot(x, y, z)["incoming"] = z
  BY <1>4, SlotIs
<1>7. /\ Slot(w, y, z) \in Amounts /\ Slot(w, y, z)["available"] = w /\ Slot(w, y, z)["held"] = y
      /\ Slot(w, y, z)["incoming"] = z
  BY <1>4, SlotIs
<1>8. f = "available" \/ f = "held" \/ f = "incoming"
  BY DEF Fields
<1>9. /\ Slot(x, y, z)[f] = -HoldDelta(r)[f] + (IF f = "available" THEN flow ELSE 0)
      /\ Slot(w, y, z)[f] = -HoldDelta(r)[f]
  BY <1>1, <1>4, <1>6, <1>7, <1>8
<1>10. a = "underlying" => Settles(Slot(x, y, z)) /\ Settles(Slot(w, y, z))
  BY <1>5, <1>6, <1>7 DEF Settles
<1> QED BY <1>2, <1>6, <1>7, <1>9, <1>10 DEF r, flow

LEMMA ReleaseIs ==
  ASSUME NEW side \in {"buy", "sell"}, NEW q \in Nat, NEW lock \in Int, NEW a \in Assets, NEW f \in Fields
  PROVE  ReleaseDelta(side, q, lock, a)[f] = -HoldDelta(Reserved(side, q, lock, a))[f]
<1>1. 0 \in Int
  OBVIOUS
<1> QED BY <1>1, SettleIs, ZenonT(60)

\* What the legs of a trade move, of a fee and of a release.
LEMMA TradeMoves ==
  ASSUME NEW order, order.side \in {"buy", "sell"}, order.price \in Int, NEW q \in Nat,
         NEW price \in Int, Trade(order, q, price) \in Seq(Moves), NEW a \in Assets, NEW f \in Fields
  PROVE  /\ Len(Trade(order, q, price)) = 2
         /\ \A k \in 1 .. 2 : Trade(order, q, price)[k].asset = "underlying" =>
                                 Settles(Trade(order, q, price)[k].delta)
         /\ Moving(Trade(order, q, price), a, f) =
              SettleDelta(order.side, q, order.price, price, a)[f]
<1> DEFINE sides == LegOrder(order.side)
           t == Trade(order, q, price)
           d == [b \in Assets |-> SettleDelta(order.side, q, order.price, price, b)]
<1>1. sides[1] \in Assets /\ sides[2] \in Assets /\ sides[1] # sides[2]
  BY DEF LegOrder, Assets
<1>2. d \in [Assets -> Amounts]
  BY SettleIs
<1>3. t = [n \in 1 .. 2 |-> Leg("fill", sides[n], SettleDelta(order.side, q, order.price, price, sides[n]))]
  BY DEF Trade
<1> HIDE DEF sides, t
<1>4. /\ t[1].asset = sides[1] /\ t[2].asset = sides[2] /\ Len(t) = 2
      /\ t[1].delta = d[sides[1]] /\ t[2].delta = d[sides[2]]
  BY <1>1, <1>3 DEF Leg
<1>5. d[a] = SettleDelta(order.side, q, order.price, price, a)
  OBVIOUS
<1>6. \A b \in Assets : b = "underlying" => Settles(d[b])
  BY SettleIs
<1> HIDE DEF d
<1>7. t \in Seq(Moves)
  BY DEF t
<1>8. Moving(t, a, f) = d[a][f]
  BY <1>1, <1>2, <1>4, <1>7, MovingPair
<1>9. \A k \in 1 .. 2 : t[k].asset = "underlying" => Settles(t[k].delta)
  BY <1>1, <1>4, <1>6
<1> QED BY <1>4, <1>5, <1>8, <1>9 DEF t

LEMMA ReleaseMoves ==
  ASSUME NEW order, order.side \in {"buy", "sell"}, order.price \in Int, NEW q \in Nat,
         Release(order, q) \in Seq(Moves), NEW a \in Assets, NEW f \in Fields
  PROVE  /\ Len(Release(order, q)) = 2
         /\ \A k \in 1 .. 2 : Release(order, q)[k].asset = "underlying" =>
                                 Settles(Release(order, q)[k].delta)
         /\ Moving(Release(order, q), a, f) = ReleaseDelta(order.side, q, order.price, a)[f]
<1> DEFINE ends == <<"underlying", "settlement">>
           t == Release(order, q)
           d == [b \in Assets |-> ReleaseDelta(order.side, q, order.price, b)]
<1>1. ends[1] \in Assets /\ ends[2] \in Assets /\ ends[1] # ends[2]
  BY DEF Assets
<1>2. d \in [Assets -> Amounts]
  BY SettleIs
<1>3. t = [n \in 1 .. 2 |-> Leg("release", ends[n], ReleaseDelta(order.side, q, order.price, ends[n]))]
  BY DEF Release
<1> HIDE DEF ends, t
<1>4. /\ t[1].asset = ends[1] /\ t[2].asset = ends[2] /\ Len(t) = 2
      /\ t[1].delta = d[ends[1]] /\ t[2].delta = d[ends[2]]
  BY <1>1, <1>3 DEF Leg
<1>5. d[a] = ReleaseDelta(order.side, q, order.price, a)
  OBVIOUS
<1>6. \A b \in Assets : b = "underlying" => Settles(d[b])
  BY SettleIs
<1> HIDE DEF d
<1>7. t \in Seq(Moves)
  BY DEF t
<1>8. Moving(t, a, f) = d[a][f]
  BY <1>1, <1>2, <1>4, <1>7, MovingPair
<1>9. \A k \in 1 .. 2 : t[k].asset = "underlying" => Settles(t[k].delta)
  BY <1>1, <1>4, <1>6
<1> QED BY <1>4, <1>5, <1>8, <1>9 DEF t

LEMMA ChargeMoves ==
  ASSUME NEW fee \in Int, NEW a \in Assets, NEW f \in Fields
  PROVE  /\ Len(Charge(fee)) = 1 /\ Charge(fee)[1].asset # "underlying"
         /\ Moving(Charge(fee), a, f) = IF a = "settlement" /\ f = "available" THEN fee ELSE 0
<1> DEFINE t == Charge(fee)
<1>1. /\ Len(t) = 1 /\ DOMAIN t = 1 .. 1 /\ t[1].asset = "settlement" /\ t[1].delta = Slot(fee, 0, 0)
  BY DEF Charge, Leg
<1>2. Slot(fee, 0, 0)[f] = IF f = "available" THEN fee ELSE 0
  <2>1. f = "available" \/ f = "held" \/ f = "incoming"
    BY DEF Fields
  <2> QED BY <2>1, SlotIs
<1> HIDE DEF t
<1>3. /\ MoveAt(t, 1, a, f) = IF a = "settlement" THEN Slot(fee, 0, 0)[f] ELSE 0
      /\ MoveAt(t, 2, a, f) = 0 /\ MoveAt(t, 3, a, f) = 0
      /\ MoveAt(t, 4, a, f) = 0 /\ MoveAt(t, 5, a, f) = 0
  BY <1>1 DEF MoveAt
<1>4. Moving(t, a, f) = IF a = "settlement" /\ f = "available" THEN fee ELSE 0
  BY <1>2, <1>3 DEF Moving
<1> QED BY <1>1, <1>4 DEF t

Settling(legs) == \A k \in DOMAIN legs : legs[k].asset = "underlying" => Settles(legs[k].delta)

LEMMA SettlingBoth ==
  ASSUME NEW s \in Seq(Moves), NEW t \in Seq(Moves), Settling(s), Settling(t)
  PROVE  Settling(s \o t)
<1> DEFINE u == s \o t
<1>1. /\ Len(u) = Len(s) + Len(t) /\ Len(s) \in Nat /\ Len(t) \in Nat
      /\ \A k \in 1 .. Len(u) : u[k] = IF k <= Len(s) THEN s[k] ELSE t[k - Len(s)]
      /\ DOMAIN s = 1 .. Len(s) /\ DOMAIN t = 1 .. Len(t) /\ DOMAIN u = 1 .. Len(u)
  BY ConcatProperties
<1> HIDE DEF u
<1>2. ASSUME NEW k \in DOMAIN u
      PROVE  (k \in DOMAIN s /\ u[k] = s[k]) \/ (k - Len(s) \in DOMAIN t /\ u[k] = t[k - Len(s)])
  BY <1>1
<1>3. Settling(u)
  BY <1>2 DEF Settling
<1> QED BY <1>3 DEF u

LEMMA MovingNothing ==
  ASSUME NEW a, NEW f
  PROVE  Moving(<<>>, a, f) = 0
<1>1. \A k \in Nat : MoveAt(<<>>, k, a, f) = 0
  BY DEF MoveAt
<1> QED BY <1>1 DEF Moving

\* The legs of a report: no more than five, and together they take the order
\* from what it had reserved to what it will have reserved.
LEMMA ReportMoves ==
  ASSUME SpendTypeOK, NEW order, order.side \in {"buy", "sell"}, order.left \in Nat,
         order.price \in Int, NEW filled \in 0 .. order.left, NEW better \in Improvements,
         NEW fee \in Fees, NEW final \in BOOLEAN,
         NEW price, price = IF order.side = "buy" THEN order.price - better
                                                  ELSE order.price + better,
         NEW legs, legs = ReportLegs(order, filled, price, fee, final),
         NEW a \in Assets, NEW f \in Fields
  PROVE  /\ Len(legs) <= 5 /\ Settling(legs)
         /\ Moving(legs, a, f) =
              (IF final THEN 0
               ELSE HoldDelta(Reserved(order.side, order.left - filled, order.price, a))[f])
              - HoldDelta(Reserved(order.side, order.left, order.price, a))[f]
              + (IF f = "available" THEN Flow(order.side, filled, price, a)
                                           + (IF a = "settlement" THEN fee ELSE 0) ELSE 0)
<1> DEFINE left == order.left - filled
           A == IF filled > 0 THEN Trade(order, filled, price) ELSE <<>>
           B == IF fee # 0 THEN Charge(fee) ELSE <<>>
           D == IF final /\ left > 0 THEN Release(order, left) ELSE <<>>
           hold(q) == HoldDelta(Reserved(order.side, q, order.price, a))[f]
           flow == Flow(order.side, filled, price, a)
<1>1. /\ better \in Int /\ fee \in Int /\ filled \in Nat /\ left \in Nat /\ price \in Int
      /\ order.left = filled + left
  BY SetupBounds
<1>2. /\ Trade(order, filled, price) \in Seq(Moves) /\ Charge(fee) \in Seq(Moves)
      /\ Release(order, left) \in Seq(Moves)
  BY PartsAre
<1>3. legs = A \o B \o D
  BY ReportParts
<1> HIDE DEF left
<1>4. /\ hold(filled) \in Int /\ hold(left) \in Int /\ hold(order.left) = hold(filled) + hold(left)
      /\ (filled = 0 => hold(filled) = 0) /\ (left = 0 => hold(left) = 0)
  <2>1. hold(order.left) = hold(filled) + hold(left)
    BY <1>1, HoldsAdd
  <2>2. hold(left) \in Int /\ hold(filled) \in Int
        /\ (filled = 0 => hold(filled) = 0) /\ (left = 0 => hold(left) = 0)
    BY <1>1, HoldsIs
  <2> QED BY <2>1, <2>2
<1>5. flow \in Int /\ (filled = 0 => flow = 0)
  BY <1>1, FlowIs
<1>6. /\ A \in Seq(Moves) /\ Settling(A) /\ Len(A) \in {0, 2}
      /\ Moving(A, a, f) = -hold(filled) + (IF f = "available" THEN flow ELSE 0)
  <2>1. CASE filled > 0
    <3> DEFINE t == Trade(order, filled, price)
    <3>1. /\ Len(t) = 2 /\ \A k \in 1 .. 2 : t[k].asset = "underlying" => Settles(t[k].delta)
          /\ Moving(t, a, f) = SettleDelta(order.side, filled, order.price, price, a)[f]
      BY <1>1, <1>2, TradeMoves, SMTT(60)
    <3>2. SettleDelta(order.side, filled, order.price, price, a)[f]
            = -hold(filled) + (IF f = "available" THEN flow ELSE 0)
      BY <1>1, SettleIs
    <3>3. t \in Seq(Moves) /\ DOMAIN t = 1 .. Len(t) /\ A = t
      BY <1>2, <2>1
    <3> HIDE DEF t, A
    <3>4. DOMAIN t = 1 .. 2
      BY <3>1, <3>3
    <3> QED BY <3>1, <3>2, <3>3, <3>4 DEF Settling
  <2>2. CASE ~(filled > 0)
    <3>1. A = <<>> /\ filled = 0
      BY <1>1, <2>2
    <3>2. Moving(<<>>, a, f) = 0
      BY MovingNothing
    <3>3. Settling(<<>>)
      BY DEF Settling
    <3> HIDE DEF A, hold, flow
    <3> QED BY <1>4, <1>5, <3>1, <3>2, <3>3
  <2> QED BY <2>1, <2>2
<1>7. /\ B \in Seq(Moves) /\ Settling(B) /\ Len(B) \in {0, 1}
      /\ Moving(B, a, f) = IF a = "settlement" /\ f = "available" THEN fee ELSE 0
  <2>1. CASE fee # 0
    <3>1. /\ Len(Charge(fee)) = 1 /\ Charge(fee)[1].asset # "underlying"
          /\ Moving(Charge(fee), a, f) = IF a = "settlement" /\ f = "available" THEN fee ELSE 0
      BY <1>1, ChargeMoves
    <3>2. DOMAIN Charge(fee) = 1 .. 1 /\ B = Charge(fee)
      BY <1>2, <2>1, <3>1
    <3> HIDE DEF B
    <3> QED BY <1>2, <3>1, <3>2 DEF Settling
  <2>2. CASE fee = 0
    <3>1. B = <<>>
      BY <2>2
    <3>2. Moving(<<>>, a, f) = 0
      BY MovingNothing
    <3>3. Settling(<<>>)
      BY DEF Settling
    <3> HIDE DEF B
    <3> QED BY <2>2, <3>1, <3>2, <3>3
  <2> QED BY <2>1, <2>2
<1>8. /\ D \in Seq(Moves) /\ Settling(D) /\ Len(D) \in {0, 2}
      /\ Moving(D, a, f) = IF final THEN -hold(left) ELSE 0
  <2>1. CASE final /\ left > 0
    <3> DEFINE t == Release(order, left)
    <3>1. /\ Len(t) = 2 /\ \A k \in 1 .. 2 : t[k].asset = "underlying" => Settles(t[k].delta)
          /\ Moving(t, a, f) = ReleaseDelta(order.side, left, order.price, a)[f]
      BY <1>1, <1>2, ReleaseMoves
    <3>2. ReleaseDelta(order.side, left, order.price, a)[f] = -hold(left)
      BY <1>1, ReleaseIs
    <3>3. t \in Seq(Moves) /\ DOMAIN t = 1 .. Len(t) /\ D = t
      BY <1>2, <2>1
    <3> HIDE DEF t, D
    <3>4. DOMAIN t = 1 .. 2
      BY <3>1, <3>3
    <3> QED BY <2>1, <3>1, <3>2, <3>3, <3>4 DEF Settling
  <2>2. CASE ~(final /\ left > 0)
    <3>1. D = <<>> /\ (final => left = 0)
      BY <1>1, <2>2
    <3>2. Moving(<<>>, a, f) = 0
      BY MovingNothing
    <3>3. Settling(<<>>)
      BY DEF Settling
    <3> HIDE DEF D, hold
    <3> QED BY <1>4, <3>1, <3>2, <3>3
  <2> QED BY <2>1, <2>2
<1> HIDE DEF A, B, D, hold, flow
<1>9. /\ A \o B \in Seq(Moves) /\ Len(A \o B) = Len(A) + Len(B)
      /\ Moving(A \o B, a, f) = Moving(A, a, f) + Moving(B, a, f)
  <2>1. Len(A) + Len(B) <= 5
    <3>1. Len(A) \in {0, 2} /\ Len(B) \in {0, 1}
      BY <1>6, <1>7
    <3>2. ASSUME NEW x \in {0, 2}, NEW y \in {0, 1} PROVE x + y <= 5
      BY ONLY <3>2
    <3> QED BY ONLY <3>1, <3>2
  <2> QED BY <1>6, <1>7, <2>1, MovingBoth, Zenon
<1>10. /\ Len(legs) = Len(A) + Len(B) + Len(D) /\ Len(legs) <= 5
       /\ Moving(legs, a, f) = Moving(A \o B, a, f) + Moving(D, a, f)
  <2>1. Len(A \o B) + Len(D) <= 5 /\ Len(A) + Len(B) + Len(D) <= 5
    <3>1. Len(A) \in {0, 2} /\ Len(B) \in {0, 1} /\ Len(D) \in {0, 2} /\ Len(A \o B) = Len(A) + Len(B)
      BY <1>6, <1>7, <1>8, <1>9
    <3>2. ASSUME NEW x \in {0, 2}, NEW y \in {0, 1}, NEW z \in {0, 2}
          PROVE  x + y + z <= 5
      BY ONLY <3>2
    <3>3. Len(A) + Len(B) + Len(D) <= 5
      BY ONLY <3>1, <3>2
    <3> QED BY ONLY <3>1, <3>3
  <2>2. /\ Len((A \o B) \o D) = Len(A \o B) + Len(D)
        /\ Moving((A \o B) \o D, a, f) = Moving(A \o B, a, f) + Moving(D, a, f)
    BY <1>8, <1>9, <2>1, MovingBoth, Zenon
  <2> QED BY <1>3, <1>9, <2>1, <2>2
<1>11. Settling(legs)
  <2>1. Settling(A \o B)
    BY <1>6, <1>7, SettlingBoth
  <2> QED BY <1>3, <1>8, <1>9, <2>1, SettlingBoth
<1>12. /\ Moving(A, a, f) = -hold(filled) + (IF f = "available" THEN flow ELSE 0)
       /\ Moving(B, a, f) = IF a = "settlement" /\ f = "available" THEN fee ELSE 0
       /\ Moving(D, a, f) = IF final THEN -hold(left) ELSE 0
       /\ Moving(legs, a, f) = (Moving(A, a, f) + Moving(B, a, f)) + Moving(D, a, f)
  BY <1>6, <1>7, <1>8, <1>9, <1>10
<1>13. Moving(legs, a, f) =
         (IF final THEN 0 ELSE hold(left)) - hold(order.left)
         + (IF f = "available" THEN flow + (IF a = "settlement" THEN fee ELSE 0) ELSE 0)
  <2>1. final \in BOOLEAN /\ fee \in Int /\ flow \in Int
    BY <1>1, <1>5
  <2> QED BY ONLY <1>4, <1>12, <2>1
<1> QED BY <1>10, <1>11, <1>13 DEF hold, left, flow

\* The releases at the end of a list: what is dropped only settles.
LEMMA ReleasesMove ==
  ASSUME NEW s \in Seq(Moves), Len(s) <= 5, Settling(s)
  PROVE  /\ Releases(s) \in Seq(Moves) /\ Len(Releases(s)) <= 5 /\ Settling(Releases(s))
         /\ \A f \in {"held", "incoming"} :
               Moving(Releases(s), "underlying", f) >= Moving(s, "underlying", f)
<1> DEFINE others == {n \in DOMAIN s : s[n].part # "release"}
           m == Cardinality(others)
           t == Releases(s)
<1>1. DOMAIN s = 1 .. Len(s) /\ Len(s) \in Nat
  OBVIOUS
<1>2. m \in Nat /\ m <= Len(s)
  <2>1. IsFiniteSet(1 .. Len(s)) /\ others \subseteq 1 .. Len(s) /\ Cardinality(1 .. Len(s)) = Len(s)
    <3>1. IsFiniteSet(1 .. Len(s)) /\ Cardinality(1 .. Len(s)) = Len(s)
      <4>1. 1 \in Int /\ Len(s) \in Int /\ (1 > Len(s) => Len(s) = 0) /\ Len(s) - 1 + 1 = Len(s)
        BY <1>1
      <4> QED BY ONLY <4>1, FS_Interval
    <3> QED BY <1>1, <3>1
  <2> QED BY <2>1, FS_Subset, FS_CardinalityType
<1>3. t = SubSeq(s, m + 1, Len(s))
  BY DEF Releases
<1>4. t \in Seq(Moves)
  BY ReleasesAre
<1> HIDE DEF m, t
<1>5. /\ Len(t) = Len(s) - m /\ DOMAIN t = 1 .. Len(t)
      /\ \A k \in 1 .. Len(t) : t[k] = s[m + k]
  <2>1. /\ m + 1 \in Int /\ Len(s) \in Int /\ m + 1 \in 1 .. Len(s) + 1
    BY <1>1, <1>2
  <2>2. /\ Len(SubSeq(s, m + 1, Len(s))) = (IF m + 1 <= Len(s) THEN Len(s) - (m + 1) + 1 ELSE 0)
        /\ \A k \in 1 .. Len(s) - (m + 1) + 1 : SubSeq(s, m + 1, Len(s))[k] = s[m + 1 + k - 1]
    BY <1>1, <2>1, SubSeqProperties
  <2>3. Len(t) = Len(s) - m
    <3>1. Len(t) = (IF m + 1 <= Len(s) THEN Len(s) - (m + 1) + 1 ELSE 0)
      BY <1>3, <2>2
    <3>2. ASSUME NEW x \in Nat, NEW y \in Nat, x <= y
          PROVE  (IF x + 1 <= y THEN y - (x + 1) + 1 ELSE 0) = y - x
      BY ONLY <3>2
    <3>3. (IF m + 1 <= Len(s) THEN Len(s) - (m + 1) + 1 ELSE 0) = Len(s) - m
      BY ONLY <1>1, <1>2, <3>2
    <3> QED BY ONLY <3>1, <3>3
  <2>4. ASSUME NEW k \in 1 .. Len(t) PROVE t[k] = s[m + k]
    <3>1. k \in 1 .. Len(s) - (m + 1) + 1 /\ m + 1 + k - 1 = m + k
      BY ONLY <1>1, <1>2, <2>3, <2>4
    <3>2. t[k] = s[m + 1 + k - 1]
      BY <1>3, <2>2, <3>1
    <3> QED BY <3>1, <3>2
  <2> QED BY <1>4, <2>3, <2>4
<1>6. Settling(t)
  <2>1. ASSUME NEW k \in 1 .. Len(t), t[k].asset = "underlying" PROVE Settles(t[k].delta)
    <3>1. Len(t) = Len(s) - m /\ t[k] = s[m + k]
      BY <1>5
    <3>2. m + k \in 1 .. Len(s)
      BY ONLY <1>1, <1>2, <2>1, <3>1
    <3>3. s[m + k].asset = "underlying" /\ m + k \in DOMAIN s
      BY ONLY <1>1, <2>1, <3>1, <3>2
    <3> QED BY <3>1, <3>3, Zenon DEF Settling
  <2> QED BY <1>5, <2>1, Zenon DEF Settling
<1>7. ASSUME NEW f \in {"held", "incoming"} PROVE Moving(t, "underlying", f) >= Moving(s, "underlying", f)
  <2> DEFINE A(k) == MoveAt(s, k, "underlying", f)
             B(k) == MoveAt(t, k, "underlying", f)
  <2>1. f \in Fields /\ "underlying" \in Assets
    BY DEF Fields, Assets
  <2>2. \A k \in Nat : A(k) \in Int /\ B(k) \in Int
    BY <1>4, <2>1, MoveAtIs
  <2>3. \A k \in Nat : A(k) <= 0
    BY DEF MoveAt, Settling, Settles
  <2>4. \A k \in 1 .. 5 : m + k <= 5 => B(k) = A(m + k)
    BY <1>1, <1>2, <1>5 DEF MoveAt
  <2>5. \A k \in 1 .. 5 : m + k > 5 => B(k) = 0
    BY <1>1, <1>2, <1>5 DEF MoveAt
  <2> HIDE DEF A, B
  <2>6. m = 0 \/ m = 1 \/ m = 2 \/ m = 3 \/ m = 4 \/ m = 5
    <3>1. ASSUME NEW x \in Nat, NEW y \in Nat, x <= y, y <= 5
          PROVE  x = 0 \/ x = 1 \/ x = 2 \/ x = 3 \/ x = 4 \/ x = 5
      BY ONLY <3>1
    <3>2. m \in Nat /\ Len(s) \in Nat /\ m <= Len(s) /\ Len(s) <= 5
      BY <1>1, <1>2
    <3> QED BY ONLY <3>1, <3>2
  <2>7. /\ A(1) \in Int /\ A(2) \in Int /\ A(3) \in Int /\ A(4) \in Int /\ A(5) \in Int
        /\ A(1) <= 0 /\ A(2) <= 0 /\ A(3) <= 0 /\ A(4) <= 0 /\ A(5) <= 0
    BY <2>2, <2>3
  <2>8. CASE m = 0
    <3>1. B(1) = A(1) /\ B(2) = A(2) /\ B(3) = A(3) /\ B(4) = A(4) /\ B(5) = A(5)
      BY <2>4, <2>8
    <3> QED BY <2>7, <3>1 DEF Moving, A, B
  <2>9. CASE m = 1
    <3>1. B(1) = A(2) /\ B(2) = A(3) /\ B(3) = A(4) /\ B(4) = A(5) /\ B(5) = 0
      BY <2>4, <2>5, <2>9
    <3> QED BY <2>7, <3>1 DEF Moving, A, B
  <2>10. CASE m = 2
    <3>1. B(1) = A(3) /\ B(2) = A(4) /\ B(3) = A(5) /\ B(4) = 0 /\ B(5) = 0
      BY <2>4, <2>5, <2>10
    <3> QED BY <2>7, <3>1 DEF Moving, A, B
  <2>11. CASE m = 3
    <3>1. B(1) = A(4) /\ B(2) = A(5) /\ B(3) = 0 /\ B(4) = 0 /\ B(5) = 0
      BY <2>4, <2>5, <2>11
    <3> QED BY <2>7, <3>1 DEF Moving, A, B
  <2>12. CASE m = 4
    <3>1. B(1) = A(5) /\ B(2) = 0 /\ B(3) = 0 /\ B(4) = 0 /\ B(5) = 0
      BY <2>4, <2>5, <2>12
    <3> QED BY <2>7, <3>1 DEF Moving, A, B
  <2>13. CASE m = 5
    <3>1. B(1) = 0 /\ B(2) = 0 /\ B(3) = 0 /\ B(4) = 0 /\ B(5) = 0
      BY <2>5, <2>13
    <3> QED BY <2>7, <3>1 DEF Moving, A, B
  <2> QED BY <2>6, <2>8, <2>9, <2>10, <2>11, <2>12, <2>13
<1>8. Len(t) <= 5
  BY <1>1, <1>2, <1>5
<1> QED BY <1>4, <1>6, <1>7, <1>8 DEF t

\* An order's share of a slot and the bounds on its legs, for any record and
\* any lists.
ShareOf(r, do, back, a, f) ==
    CASE r.phase \in {"new", "closed"} -> 0
      [] r.phase \in {"reserving", "rolling_back"} -> Holding(back, a, f)
      [] r.phase = "open" -> HoldDelta(Reserved(r.side, r.left, r.price, a))[f]
      [] r.phase = "reporting" ->
             (IF r.final THEN 0 ELSE HoldDelta(Reserved(r.side, r.left, r.price, a))[f])
                 - Moving(do, a, f)

LegsOf(r, do, back) ==
    /\ r.phase = "new" => back = <<>>
    /\ r.phase = "rolling_back" => Len(back) <= 2
    /\ r.phase = "reserving" =>
          /\ Len(do) + Len(back) <= 2
          /\ \A a \in Assets, f \in Fields :
                Holding(back, a, f) + Holding(do, a, f)
                    = HoldDelta(Reserved(r.side, r.left, r.price, a))[f]
    /\ r.phase = "reporting" => Len(do) <= 5

LEMMA OfOrders ==
  /\ \A o \in Orders : \A a, f : Share(o, a, f) = ShareOf(orders[o], todo[o], undo[o], a, f)
  /\ LegsInv <=> \A o \in Orders : LegsOf(orders[o], todo[o], undo[o])
<1>1. \A o \in Orders : \A a, f : Share(o, a, f) = ShareOf(orders[o], todo[o], undo[o], a, f)
  BY DEF Share, ShareOf, Full
<1>2. LegsInv <=> \A o \in Orders : LegsOf(orders[o], todo[o], undo[o])
  BY DEF LegsInv, LegsOf, Full
<1> QED BY <1>1, <1>2

\* Lists of the right kind, for a record.
Fitting(r, do, back) ==
    /\ r \in OrderRecords /\ back \in Seq(Holds)
    /\ r.phase = "reserving" => do \in Seq(Holds)
    /\ r.phase = "reporting" => do \in Seq(Moves)

LEMMA ShareOfIs ==
  ASSUME NEW r, NEW do, NEW back, Fitting(r, do, back), NEW a \in Assets, NEW f \in Fields
  PROVE  ShareOf(r, do, back, a, f) \in Int
<1>1. /\ r.side \in {"buy", "sell"} /\ r.left \in Nat /\ r.price \in Int /\ back \in Seq(Holds)
      /\ r.phase \in {"new", "closed", "reserving", "rolling_back", "open", "reporting"}
  BY DEF Fitting, OrderRecords, Phases
<1>2. HoldDelta(Reserved(r.side, r.left, r.price, a))[f] \in Int
  BY <1>1, HoldsIs
<1>3. Holding(back, a, f) \in Int
  BY <1>1, HoldingIs
<1>4. CASE r.phase = "reporting"
  <2>1. Moving(do, a, f) \in Int
    BY <1>4, MovingIs DEF Fitting
  <2> QED BY <1>2, <1>4, <2>1 DEF ShareOf
<1> QED BY <1>1, <1>2, <1>3, <1>4 DEF ShareOf

\* What settles takes nothing from held and incoming of the underlying.
LEMMA SettlingTakes ==
  ASSUME NEW s \in Seq(Moves), Settling(s), NEW f \in {"held", "incoming"}
  PROVE  Moving(s, "underlying", f) <= 0
<1> DEFINE A(k) == MoveAt(s, k, "underlying", f)
<1>1. f \in Fields /\ "underlying" \in Assets
  BY DEF Fields, Assets
<1>2. \A k \in Nat : A(k) \in Int
  BY <1>1, MoveAtIs
<1>3. \A k \in Nat : A(k) <= 0
  BY DEF MoveAt, Settling, Settles
<1> HIDE DEF A
<1>4. /\ A(1) \in Int /\ A(2) \in Int /\ A(3) \in Int /\ A(4) \in Int /\ A(5) \in Int
      /\ A(1) <= 0 /\ A(2) <= 0 /\ A(3) <= 0 /\ A(4) <= 0 /\ A(5) <= 0
  BY <1>2, <1>3
<1> QED BY <1>4 DEF Moving, A

\* No order has less than nothing held or incoming in the position.
LEMMA ShareOfNat ==
  ASSUME NEW r, NEW do, NEW back, Fitting(r, do, back), r.phase = "reporting" => Settling(do),
         NEW f \in {"held", "incoming"}
  PROVE  ShareOf(r, do, back, "underlying", f) \in Nat
<1> DEFINE a == "underlying"
<1>1. /\ r.side \in {"buy", "sell"} /\ r.left \in Nat /\ r.price \in Int /\ back \in Seq(Holds)
      /\ r.phase \in {"new", "closed", "reserving", "rolling_back", "open", "reporting"}
      /\ a \in Assets /\ f \in Fields /\ f # "available"
  BY DEF Fitting, OrderRecords, Phases, Assets, Fields
<1>2. /\ HoldDelta(Reserved(r.side, r.left, r.price, a))[f] \in Int
      /\ HoldDelta(Reserved(r.side, r.left, r.price, a))[f] >= 0
  BY <1>1, HoldsIs
<1>3. Holding(back, a, f) \in Int /\ Holding(back, a, f) >= 0
  BY <1>1, HoldingIs
<1>4. CASE r.phase = "reporting"
  <2>1. Moving(do, a, f) \in Int /\ Moving(do, a, f) <= 0
    BY <1>1, <1>4, MovingIs, SettlingTakes DEF Fitting
  <2> QED BY <1>2, <1>4, <2>1 DEF ShareOf
<1> QED BY <1>1, <1>2, <1>3, <1>4 DEF ShareOf

\* The sum of the shares follows the one share that a step changes.
LEMMA SharesStep ==
  ASSUME SpendInv, NEW o \in Orders, NEW r, NEW do, NEW back, Fitting(r, do, back),
         orders' = [orders EXCEPT ![o] = r], todo' = [todo EXCEPT ![o] = do],
         undo' = [undo EXCEPT ![o] = back], NEW a \in Assets, NEW f \in Fields
  PROVE  /\ Shares(a, f) \in Int /\ Share(o, a, f) \in Int
         /\ Shares(a, f)' = Shares(a, f) - Share(o, a, f) + ShareOf(r, do, back, a, f)
<1> DEFINE g == [p \in Orders |-> Share(p, a, f)]
           h == [p \in Orders |-> IF p = o THEN ShareOf(r, do, back, a, f) ELSE Share(p, a, f)]
<1>1. \A p \in Orders : g[p] \in Int
  <2>1. ASSUME NEW p \in Orders PROVE Share(p, a, f) \in Int
    <3>1. Fitting(orders[p], todo[p], undo[p])
      BY OrderFacts DEF Fitting
    <3> QED BY <3>1, ShareOfIs, OfOrders
  <2> QED BY <2>1
<1>2. ShareOf(r, do, back, a, f) \in Int
  BY ShareOfIs
<1>3. [p \in Orders |-> Share(p, a, f)'] = h
  <2>1. ASSUME NEW p \in Orders PROVE Share(p, a, f)' = h[p]
    <3>1. /\ orders'[p] = IF p = o THEN r ELSE orders[p]
          /\ todo'[p] = IF p = o THEN do ELSE todo[p]
          /\ undo'[p] = IF p = o THEN back ELSE undo[p]
      BY DEF SpendInv, SpendTypeOK
    <3>2. Share(p, a, f)' = ShareOf(orders'[p], todo'[p], undo'[p], a, f)
      BY DEF Share, ShareOf, Full
    <3>3. Share(p, a, f) = ShareOf(orders[p], todo[p], undo[p], a, f)
      BY OfOrders
    <3> QED BY <3>1, <3>2, <3>3, Zenon
  <2> HIDE DEF h
  <2>2. h = [p \in Orders |-> h[p]]
    BY DEF h
  <2> QED BY <2>1, <2>2, Zenon
<1>4. Shares(a, f)' = SumFunctionOnSet(h, Orders) /\ Shares(a, f) = SumFunctionOnSet(g, Orders)
  <2>1. Shares(a, f)' = SumFunctionOnSet([p \in Orders |-> Share(p, a, f)'], Orders)
    BY DEF Shares
  <2> QED BY <1>3, <2>1 DEF Shares
<1>5. \A p \in Orders : h[p] \in Int
  BY <1>1, <1>2
<1>6. \A p \in Orders \ {o} : h[p] = g[p]
  OBVIOUS
<1>7. h[o] = ShareOf(r, do, back, a, f) /\ g[o] = Share(o, a, f)
  OBVIOUS
<1> HIDE DEF g, h
<1>8. SumFunctionOnSet(h, Orders) = SumFunctionOnSet(g, Orders) - g[o] + h[o]
  <2>1. IsFiniteSet(Orders)
    BY BoundsAssumption
  <2>2. \A p \in Orders : g[p] \in Int /\ h[p] \in Int
    BY <1>1, <1>5
  <2> QED BY ONLY <1>6, <2>1, <2>2, SumChange, o \in Orders
<1>9. SumFunctionOnSet(g, Orders) \in Int
  BY <1>1, SumSplit, BoundsAssumption
<1> QED BY <1>1, <1>4, <1>7, <1>8, <1>9

\* One order moves: the books still balance when the slot moved, beyond what
\* the step books to the base, by what the order's share moved.
LEMMA LedgerFrame ==
  ASSUME SpendInv, LedgerInv, NEW o \in Orders, NEW r, NEW do, NEW back, Fitting(r, do, back),
         orders' = [orders EXCEPT ![o] = r], todo' = [todo EXCEPT ![o] = do],
         undo' = [undo EXCEPT ![o] = back], LegsOf(r, do, back), setup' = setup,
         holdings' \in [Assets -> Amounts], base' \in [Assets -> Amounts],
         ~blocked' => /\ ~blocked
                      /\ \A a \in Assets, f \in Fields :
                            holdings'[a][f] - base'[a][f]
                              = holdings[a][f] - base[a][f]
                                  + (ShareOf(r, do, back, a, f) - Share(o, a, f))
  PROVE  LedgerInv'
<1>1. LegsInv'
  <2>1. ASSUME NEW p \in Orders PROVE LegsOf(orders'[p], todo'[p], undo'[p])
    <3>1. /\ orders'[p] = IF p = o THEN r ELSE orders[p]
          /\ todo'[p] = IF p = o THEN do ELSE todo[p]
          /\ undo'[p] = IF p = o THEN back ELSE undo[p]
      BY DEF SpendInv, SpendTypeOK
    <3>2. LegsOf(orders[p], todo[p], undo[p])
      BY OfOrders DEF LedgerInv
    <3> QED BY <3>1, <3>2, Zenon
  <2> QED BY <2>1 DEF LegsInv, LegsOf, Full
<1>2. ASSUME ~blocked', NEW a \in Assets, NEW f \in Fields
      PROVE  holdings'[a][f] = base'[a][f] + Shares(a, f)'
  <2>1. /\ Shares(a, f) \in Int /\ Share(o, a, f) \in Int
        /\ Shares(a, f)' = Shares(a, f) - Share(o, a, f) + ShareOf(r, do, back, a, f)
        /\ ShareOf(r, do, back, a, f) \in Int
    BY SharesStep, ShareOfIs, ZenonT(60)
  <2>2. holdings[a][f] = base[a][f] + Shares(a, f)
    BY <1>2 DEF LedgerInv, Balanced
  <2>3. /\ holdings[a][f] \in Int /\ base[a][f] \in Int /\ holdings'[a][f] \in Int
        /\ base'[a][f] \in Int
    BY DEF SpendInv, SpendTypeOK, LedgerInv, Amounts
  <2>4. holdings'[a][f] - base'[a][f]
          = holdings[a][f] - base[a][f] + (ShareOf(r, do, back, a, f) - Share(o, a, f))
    BY <1>2
  <2> DEFINE x == holdings[a][f]
             y == base[a][f]
             X == holdings'[a][f]
             Y == base'[a][f]
             s == Share(o, a, f)
             t == ShareOf(r, do, back, a, f)
             S == Shares(a, f)
             T == Shares(a, f)'
  <2>5. /\ x \in Int /\ y \in Int /\ X \in Int /\ Y \in Int /\ s \in Int /\ t \in Int /\ S \in Int
        /\ T = S - s + t /\ x = y + S /\ X - Y = x - y + (t - s)
    BY <2>1, <2>2, <2>3, <2>4
  <2> HIDE DEF x, y, X, Y, s, t, S, T
  <2>6. X = Y + T
    BY ONLY <2>5
  <2> QED BY <2>6 DEF X, Y, T
<1> QED BY <1>1, <1>2 DEF LedgerInv, Balanced

\* The limit on the underlying, for any slot.
Within(h) ==
    /\ h["available"] + h["held"] + non_negative(h["incoming"]) <= PositionLimit
    /\ h["available"] + h["held"] - non_negative(h["held"]) >= -PositionLimit

LEMMA WithinIs == PositionWithinLimit <=> (Confined => Within(holdings["underlying"]))
BY DEF PositionWithinLimit, Within

\* One order moves: a slot that lost no more of held and incoming than the
\* order's share did still holds every share, so neither is negative there.
LEMMA PositionFrame ==
  ASSUME SpendInv, PositionInv, NEW o \in Orders, NEW r, NEW do, NEW back, Fitting(r, do, back),
         orders' = [orders EXCEPT ![o] = r], todo' = [todo EXCEPT ![o] = do],
         undo' = [undo EXCEPT ![o] = back], setup' = setup, batches' = batches,
         holdings' \in [Assets -> Amounts], r.phase = "reporting" => Settling(do),
         Confined => /\ \A f \in {"held", "incoming"} :
                          holdings'["underlying"][f] - holdings["underlying"][f]
                            >= ShareOf(r, do, back, "underlying", f) - Share(o, "underlying", f)
                     /\ (\A f \in {"held", "incoming"} : holdings'["underlying"][f] >= 0)
                           => Within(holdings'["underlying"])
  PROVE  PositionInv'
<1> DEFINE u == "underlying"
<1>1. /\ PositionLimit' = PositionLimit /\ Confined' = Confined /\ u \in Assets
      /\ "held" \in Fields /\ "incoming" \in Fields
  BY DEF PositionLimit, Confined, AdjustRequests, Assets, Fields
<1>2. \A p \in Orders : orders'[p].phase = "reporting" => Settling(todo'[p])
  <2>1. ASSUME NEW p \in Orders, orders'[p].phase = "reporting" PROVE Settling(todo'[p])
    <3>1. /\ orders'[p] = IF p = o THEN r ELSE orders[p]
          /\ todo'[p] = IF p = o THEN do ELSE todo[p]
      BY DEF SpendInv, SpendTypeOK
    <3>2. orders[p].phase = "reporting" => Settling(todo[p])
      BY DEF PositionInv, Settling
    <3> QED BY <2>1, <3>1, <3>2, Zenon
  <2> QED BY <2>1
<1>3. ASSUME Confined, NEW f \in {"held", "incoming"}
      PROVE  holdings'[u][f] >= Shares(u, f)' /\ holdings'[u][f] >= 0
  <2>0. f \in Fields
    BY <1>1
  <2>1. /\ Shares(u, f) \in Int /\ Share(o, u, f) \in Int
        /\ Shares(u, f)' = Shares(u, f) - Share(o, u, f) + ShareOf(r, do, back, u, f)
        /\ ShareOf(r, do, back, u, f) \in Int
    <3>1. ASSUME NEW a \in Assets, NEW g \in Fields
          PROVE  /\ Shares(a, g) \in Int /\ Share(o, a, g) \in Int
                 /\ Shares(a, g)' = Shares(a, g) - Share(o, a, g) + ShareOf(r, do, back, a, g)
                 /\ ShareOf(r, do, back, a, g) \in Int
      BY SharesStep, ShareOfIs, ZenonT(60)
    <3> QED BY <1>1, <2>0, <3>1
  <2>2. /\ holdings[u][f] \in Int /\ holdings'[u][f] \in Int
        /\ holdings[u][f] >= Shares(u, f)
        /\ holdings'[u][f] - holdings[u][f] >= ShareOf(r, do, back, u, f) - Share(o, u, f)
    BY <1>1, <1>3, <2>0 DEF SpendInv, SpendTypeOK, Amounts, PositionInv
  <2>3. Shares(u, f)' >= 0
    <3>1. ASSUME NEW p \in Orders PROVE Share(p, u, f)' \in Nat
      <4>1. /\ orders'[p] = IF p = o THEN r ELSE orders[p]
            /\ todo'[p] = IF p = o THEN do ELSE todo[p]
            /\ undo'[p] = IF p = o THEN back ELSE undo[p]
        BY DEF SpendInv, SpendTypeOK
      <4>2. Fitting(orders[p], todo[p], undo[p])
        BY OrderFacts DEF Fitting
      <4>3. Fitting(orders'[p], todo'[p], undo'[p])
        BY <4>1, <4>2, Zenon
      <4>4. ShareOf(orders'[p], todo'[p], undo'[p], u, f) \in Nat
        BY <1>2, <4>3, ShareOfNat
      <4> QED BY <4>4 DEF Share, ShareOf, Full
    <3> DEFINE g == [p \in Orders |-> Share(p, u, f)']
    <3>2. Shares(u, f)' = SumFunctionOnSet(g, Orders)
      BY DEF Shares
    <3>3. \A p \in Orders : g[p] \in Nat
      BY <3>1
    <3> HIDE DEF g
    <3>4. IsFiniteSet(Orders)
      BY BoundsAssumption
    <3>5. SumFunctionOnSet(g, Orders) >= 0
      BY ONLY <3>3, <3>4, SumCovers
    <3> QED BY <3>2, <3>5
  <2> DEFINE x == holdings[u][f]
             X == holdings'[u][f]
             s == Share(o, u, f)
             t == ShareOf(r, do, back, u, f)
             S == Shares(u, f)
             T == Shares(u, f)'
  <2>4. /\ x \in Int /\ X \in Int /\ s \in Int /\ t \in Int /\ S \in Int
        /\ T = S - s + t /\ x >= S /\ X - x >= t - s /\ T >= 0
    BY <2>1, <2>2, <2>3
  <2> HIDE DEF x, X, s, t, S, T
  <2>5. X >= T /\ X >= 0
    BY ONLY <2>4
  <2> QED BY <2>5 DEF X, T
<1>4. Confined => PositionWithinLimit'
  <2>1. Confined => Within(holdings'[u])
    BY <1>3
  <2> QED BY <1>1, <2>1 DEF PositionWithinLimit, Within
<1>5. Confined => \A b \in Adjusters : batches'[b].phase = "idle"
  BY DEF PositionInv
<1> QED BY <1>1, <1>2, <1>3, <1>4, <1>5 DEF PositionInv, Settling

-----------------------------------------------------------------------------
(* The steps.                                                              *)

BooksInv == SpendInv /\ LedgerInv /\ PositionInv

\* The slots stay, and so does what is booked.
LEMMA Unmoved ==
  ASSUME SpendInv, LedgerInv, PositionInv, holdings' = holdings
  PROVE  /\ holdings' \in [Assets -> Amounts]
         /\ Confined => Within(holdings'["underlying"])
         /\ base' = base => base' \in [Assets -> Amounts]
         /\ \A a \in Assets, f \in Fields : holdings[a][f] \in Int /\ base[a][f] \in Int
<1>1. /\ holdings \in [Assets -> Amounts] /\ base \in [Assets -> Amounts]
      /\ Confined => Within(holdings["underlying"])
  BY WithinIs DEF SpendInv, SpendTypeOK, LedgerInv, PositionInv
<1> QED BY <1>1 DEF Amounts

\* A step that gives an order a new record and new lists.
OrderMoves(o, r, do, back) ==
    /\ orders' = [orders EXCEPT ![o] = r] /\ todo' = [todo EXCEPT ![o] = do]
    /\ undo' = [undo EXCEPT ![o] = back]
    /\ Fitting(r, do, back) /\ LegsOf(r, do, back) /\ (r.phase = "reporting" => Settling(do))
    /\ setup' = setup /\ batches' = batches

SameShare(o, r, do, back) ==
    /\ \A a \in Assets, f \in Fields : ShareOf(r, do, back, a, f) = Share(o, a, f)
    /\ holdings' = holdings /\ base' = base /\ (~blocked' => ~blocked)

\* A step of an order that leaves every slot, what is booked and the order's
\* share alone.
LEMMA Bookkeeping ==
  ASSUME BooksInv, NEW o \in Orders, NEW r, NEW do, NEW back, OrderMoves(o, r, do, back),
         SameShare(o, r, do, back)
  PROVE  LedgerInv' /\ PositionInv'
<1> USE DEF OrderMoves, SameShare
<1>1. /\ SpendInv /\ LedgerInv /\ PositionInv
      /\ \A a \in Assets, f \in Fields : Share(o, a, f) \in Int
  BY ShareOfIs DEF BooksInv
<1>2. /\ holdings' \in [Assets -> Amounts] /\ base' \in [Assets -> Amounts]
      /\ Confined => Within(holdings'["underlying"])
      /\ \A a \in Assets, f \in Fields : holdings[a][f] \in Int /\ base[a][f] \in Int
  BY <1>1, Unmoved
<1>3. ASSUME NEW a \in Assets, NEW f \in Fields
      PROVE  /\ holdings'[a][f] - base'[a][f]
                  = holdings[a][f] - base[a][f] + (ShareOf(r, do, back, a, f) - Share(o, a, f))
             /\ holdings'[a][f] - holdings[a][f] >= ShareOf(r, do, back, a, f) - Share(o, a, f)
  BY <1>1, <1>2
<1>4. LedgerInv'
  <2>1. ~blocked' => ~blocked
    OBVIOUS
  <2> QED BY <1>1, <1>2, <1>3, <2>1, LedgerFrame
<1>5. PositionInv'
  <2>1. "underlying" \in Assets /\ \A f \in {"held", "incoming"} : f \in Fields
    BY DEF Assets, Fields
  <2>2. \A f \in {"held", "incoming"} :
           holdings'["underlying"][f] - holdings["underlying"][f]
             >= ShareOf(r, do, back, "underlying", f) - Share(o, "underlying", f)
    BY <1>3, <2>1
  <2>3. batches' = batches
    OBVIOUS
  <2> QED BY <1>1, <1>2, <2>2, <2>3, PositionFrame
<1> QED BY <1>4, <1>5

\* An order begins its reservation: it has nothing yet.
LEMMA ReserveBooks ==
  ASSUME BooksInv, setup' = setup, NEW o \in Orders, Reserve(o)
  PROVE  LedgerInv' /\ PositionInv'
<1>1. /\ SpendInv /\ LedgerInv /\ SpendTypeOK /\ UNCHANGED <<holdings, undo, batches, blocked, base>>
      /\ orders[o].phase = "new"
  BY DEF BooksInv, SpendInv, Reserve
<1>2. PICK side \in Sides, q \in Quantities, price \in Prices :
         /\ orders' = [orders EXCEPT ![o] = [phase |-> "reserving", side |-> side, left |-> q,
                          price |-> price, final |-> FALSE, reports |-> 0]]
         /\ todo' = [todo EXCEPT ![o] = [n \in 1 .. 2 |->
                        [asset |-> LegOrder(side)[n],
                         leg |-> Reserved(side, q, price, LegOrder(side)[n])]]]
  BY ZenonT(60) DEF Reserve
<1>3. side \in {"buy", "sell"} /\ q \in Nat /\ price \in Int
  BY <1>1, SetupBounds, BoundsAssumption
<1> DEFINE r == [phase |-> "reserving", side |-> side, left |-> q, price |-> price,
                 final |-> FALSE, reports |-> 0]
           do == [n \in 1 .. 2 |-> [asset |-> LegOrder(side)[n],
                                    leg |-> Reserved(side, q, price, LegOrder(side)[n])]]
<1>4. /\ r \in OrderRecords /\ r.phase = "reserving" /\ r.side = side /\ r.left = q
      /\ r.price = price
  BY <1>3 DEF OrderRecords, Phases
<1>5. do \in Seq(Holds) /\ Len(do) = 2 /\ DOMAIN do = 1 .. 2
  <2>1. ASSUME NEW n \in 1 .. 2 PROVE do[n] \in Holds
    <3>1. LegOrder(side)[n] \in Assets
      BY DEF LegOrder, Assets
    <3>2. Reserved(side, q, price, LegOrder(side)[n]) \in [held : Nat, incoming : Nat]
      BY <1>3, <3>1, ReservedIs
    <3> QED BY <3>1, <3>2 DEF Holds
  <2>2. do = [n \in 1 .. 2 |-> do[n]]
    OBVIOUS
  <2> HIDE DEF do
  <2>3. do \in Seq(Holds)
    BY <2>1, <2>2
  <2>4. DOMAIN do = 1 .. 2
    BY <2>2
  <2>5. Len(do) = 2
    BY <2>3, <2>4
  <2> QED BY <2>3, <2>4, <2>5
<1>6. orders' = [orders EXCEPT ![o] = r] /\ todo' = [todo EXCEPT ![o] = do]
  BY <1>2
<1>7. ASSUME NEW a \in Assets, NEW f \in Fields
      PROVE  Holding(do, a, f) = HoldDelta(Reserved(side, q, price, a))[f]
  <2>1. /\ do[1].asset = LegOrder(side)[1] /\ do[2].asset = LegOrder(side)[2]
        /\ do[1].leg = Reserved(side, q, price, LegOrder(side)[1])
        /\ do[2].leg = Reserved(side, q, price, LegOrder(side)[2])
    OBVIOUS
  <2>2. /\ LegOrder(side)[1] # LegOrder(side)[2]
        /\ a = LegOrder(side)[1] \/ a = LegOrder(side)[2]
    BY DEF LegOrder, Assets
  <2>3. HoldDelta(Reserved(side, q, price, a))[f] \in Int
    BY <1>3, HoldsIs
  <2> HIDE DEF do
  <2>4. 1 \in DOMAIN do /\ 2 \in DOMAIN do
    BY <1>5
  <2> QED BY <2>1, <2>2, <2>3, <2>4 DEF Holding, HoldAt
<1> HIDE DEF r, do
<1>8. undo' = [undo EXCEPT ![o] = undo[o]] /\ undo[o] \in Seq(Holds) /\ undo[o] = <<>>
  BY <1>1 DEF SpendTypeOK, LedgerInv, LegsInv
<1>9. Fitting(r, do, undo[o])
  BY <1>4, <1>5, <1>8 DEF Fitting
<1>10. \A a \in Assets, f \in Fields : Holding(undo[o], a, f) = 0
  BY <1>8, HoldingIs
<1>11. LegsOf(r, do, undo[o])
  <2>1. Len(do) + Len(undo[o]) <= 2
    BY <1>5, <1>8
  <2>2. ASSUME NEW a \in Assets, NEW f \in Fields
        PROVE  Holding(undo[o], a, f) + Holding(do, a, f)
                 = HoldDelta(Reserved(r.side, r.left, r.price, a))[f]
    <3>1. Holding(do, a, f) = HoldDelta(Reserved(r.side, r.left, r.price, a))[f]
      BY <1>4, <1>7
    <3>2. Holding(do, a, f) \in Int
      BY <1>5, HoldingIs
    <3> QED BY <1>10, <3>1, <3>2
  <2> QED BY <1>4, <2>1, <2>2 DEF LegsOf
<1>12. ASSUME NEW a \in Assets, NEW f \in Fields
       PROVE  ShareOf(r, do, undo[o], a, f) = Share(o, a, f)
  <2>1. Share(o, a, f) = 0
    BY <1>1 DEF Share
  <2>2. ShareOf(r, do, undo[o], a, f) = 0
    BY <1>4, <1>10 DEF ShareOf
  <2> QED BY <2>1, <2>2
<1>13. holdings' = holdings /\ batches' = batches /\ base' = base /\ (~blocked' => ~blocked) /\ (r.phase = "reporting" => Settling(do))
  BY <1>1, <1>4
<1>14. OrderMoves(o, r, do, undo[o]) /\ SameShare(o, r, do, undo[o])
  BY <1>6, <1>8, <1>9, <1>11, <1>12, <1>13 DEF OrderMoves, SameShare
<1> QED BY <1>14, Bookkeeping

\* The legs of a committed reservation are the whole of it.
LEMMA CommitBooks ==
  ASSUME BooksInv, setup' = setup, NEW o \in Orders, Commit(o)
  PROVE  LedgerInv' /\ PositionInv'
<1>1. /\ SpendInv /\ LedgerInv /\ SpendTypeOK /\ UNCHANGED <<holdings, todo, batches, blocked, base>>
      /\ orders[o].phase = "reserving" /\ todo[o] = <<>> /\ orders[o] \in OrderRecords
      /\ undo[o] \in Seq(Holds)
  BY OrderFacts DEF BooksInv, SpendInv, Commit
<1>2. PICK phase \in {"open", "rolling_back"} : orders' = [orders EXCEPT ![o].phase = phase]
  BY DEF Commit
<1> DEFINE q == orders[o]
           r == [q EXCEPT !.phase = phase]
           back == IF phase = "open" THEN <<>> ELSE undo[o]
<1>3. /\ orders' = [orders EXCEPT ![o] = r] /\ todo' = [todo EXCEPT ![o] = todo[o]]
      /\ orders'[o].phase = phase
  BY <1>1, <1>2 DEF SpendTypeOK, OrderRecords
<1>4. undo' = [undo EXCEPT ![o] = back]
  <2>1. undo' = IF orders'[o].phase = "open" THEN [undo EXCEPT ![o] = <<>>] ELSE undo
    BY DEF Commit
  <2> QED BY <1>1, <1>3, <2>1 DEF SpendTypeOK
<1>5. LegsOf(q, todo[o], undo[o])
  BY <1>1, OfOrders DEF LedgerInv
<1>6. \A a \in Assets, f \in Fields :
         /\ Share(o, a, f) = ShareOf(q, todo[o], undo[o], a, f)
         /\ Share(o, a, f) = Holding(undo[o], a, f)
  BY <1>1, OfOrders DEF ShareOf
<1>7. q \in OrderRecords /\ q.phase = "reserving"
  BY <1>1
<1> HIDE DEF q
<1>8. /\ r \in OrderRecords /\ r.phase = phase /\ r.side = q.side /\ r.left = q.left
      /\ r.price = q.price
  BY <1>7 DEF OrderRecords, Phases
<1>9. back \in Seq(Holds) /\ Len(undo[o]) <= 2 /\ Len(back) <= 2
  <2>1. Len(todo[o]) + Len(undo[o]) <= 2 /\ Len(todo[o]) = 0
    BY <1>1, <1>5, <1>7 DEF LegsOf
  <2> QED BY <1>1, <2>1
<1>10. \A a \in Assets, f \in Fields :
          Holding(undo[o], a, f) = HoldDelta(Reserved(q.side, q.left, q.price, a))[f]
  <2>1. ASSUME NEW a \in Assets, NEW f \in Fields
        PROVE  Holding(undo[o], a, f) = HoldDelta(Reserved(q.side, q.left, q.price, a))[f]
    <3>1. /\ Holding(undo[o], a, f) + Holding(todo[o], a, f)
               = HoldDelta(Reserved(q.side, q.left, q.price, a))[f]
      BY <1>5, <1>7 DEF LegsOf
    <3>2. Holding(todo[o], a, f) = 0 /\ Holding(undo[o], a, f) \in Int
      <4>1. todo[o] \in Seq(Holds) /\ todo[o] = <<>>
        BY <1>1
      <4> QED BY <1>1, <4>1, HoldingIs
    <3> QED BY ONLY <3>1, <3>2
  <2> QED BY <2>1
<1> HIDE DEF r, back
<1>11. Fitting(r, todo[o], back) /\ LegsOf(r, todo[o], back)
  BY <1>8, <1>9 DEF Fitting, LegsOf
<1>12. \A a \in Assets, f \in Fields : ShareOf(r, todo[o], back, a, f) = Share(o, a, f)
  <2>1. CASE phase = "open"
    BY <1>6, <1>8, <1>10, <2>1 DEF ShareOf
  <2>2. CASE phase = "rolling_back"
    BY <1>6, <1>8, <2>2 DEF ShareOf, back
  <2> QED BY <2>1, <2>2
<1>13. holdings' = holdings /\ batches' = batches /\ base' = base /\ (~blocked' => ~blocked) /\ (r.phase = "reporting" => Settling(todo[o]))
  BY <1>1, <1>8
<1>14. OrderMoves(o, r, todo[o], back) /\ SameShare(o, r, todo[o], back)
  BY <1>3, <1>4, <1>11, <1>12, <1>13 DEF OrderMoves, SameShare
<1> QED BY <1>14, Bookkeeping

\* A report that is through leaves what is still open.
LEMMA ReportDoneBooks ==
  ASSUME BooksInv, setup' = setup, NEW o \in Orders, ReportDone(o)
  PROVE  LedgerInv' /\ PositionInv'
<1> DEFINE q == orders[o]
           phase == IF q.final THEN "closed" ELSE "open"
           left == IF q.final THEN 0 ELSE q.left
           r == [q EXCEPT !.phase = phase, !.left = left]
<1>1. /\ SpendInv /\ LedgerInv /\ SpendTypeOK
      /\ UNCHANGED <<holdings, todo, undo, batches, blocked, base>>
      /\ q.phase = "reporting" /\ todo[o] = <<>> /\ q \in OrderRecords
      /\ undo[o] \in Seq(Holds) /\ todo[o] \in Seq(Moves)
  BY OrderFacts DEF BooksInv, SpendInv, ReportDone
<1>2. /\ orders' = [orders EXCEPT ![o] = r] /\ todo' = [todo EXCEPT ![o] = todo[o]]
      /\ undo' = [undo EXCEPT ![o] = undo[o]]
  BY <1>1 DEF ReportDone, SpendTypeOK
<1>3. \A a \in Assets, f \in Fields : Share(o, a, f) = ShareOf(q, todo[o], undo[o], a, f)
  BY OfOrders
<1> HIDE DEF q
<1>4. /\ r \in OrderRecords /\ r.phase = phase /\ r.left = left /\ r.side = q.side
      /\ r.price = q.price /\ q.final \in BOOLEAN /\ q.side \in {"buy", "sell"} /\ q.left \in Nat
      /\ q.price \in Int
  BY <1>1 DEF OrderRecords, Phases
<1> HIDE DEF r
<1>5. Fitting(r, todo[o], undo[o]) /\ LegsOf(r, todo[o], undo[o]) /\ r.phase # "reporting"
  BY <1>1, <1>4 DEF Fitting, LegsOf
<1>6. ASSUME NEW a \in Assets, NEW f \in Fields
      PROVE  ShareOf(r, todo[o], undo[o], a, f) = Share(o, a, f)
  <2>1. Moving(todo[o], a, f) = 0
    BY <1>1, MovingNothing
  <2>2. HoldDelta(Reserved(q.side, q.left, q.price, a))[f] \in Int
    BY <1>4, HoldsIs
  <2>3. Share(o, a, f) = IF q.final THEN 0 ELSE HoldDelta(Reserved(q.side, q.left, q.price, a))[f]
    BY <1>1, <1>3, <2>1, <2>2 DEF ShareOf
  <2> QED BY <1>4, <2>3 DEF ShareOf
<1>7. holdings' = holdings /\ batches' = batches /\ base' = base /\ (~blocked' => ~blocked) /\ (r.phase = "reporting" => Settling(todo[o]))
  BY <1>1, <1>5
<1>8. OrderMoves(o, r, todo[o], undo[o]) /\ SameShare(o, r, todo[o], undo[o])
  BY <1>2, <1>5, <1>6, <1>7 DEF OrderMoves, SameShare
<1> QED BY <1>8, Bookkeeping

\* What a step that moves a slot owes: the books, and the limit.
SharesFollow(o, r, do, back) ==
    /\ holdings' \in [Assets -> Amounts] /\ base' \in [Assets -> Amounts]
    /\ ~blocked' => /\ ~blocked
                    /\ \A a \in Assets, f \in Fields :
                          holdings'[a][f] - base'[a][f]
                            = holdings[a][f] - base[a][f]
                                + (ShareOf(r, do, back, a, f) - Share(o, a, f))

PositionFollows(o, r, do, back) ==
    Confined => /\ \A f \in {"held", "incoming"} :
                     holdings'["underlying"][f] - holdings["underlying"][f]
                       >= ShareOf(r, do, back, "underlying", f) - Share(o, "underlying", f)
                /\ (\A f \in {"held", "incoming"} : holdings'["underlying"][f] >= 0)
                      => Within(holdings'["underlying"])

\* A move that stays within the limit if it takes no more than is there.
KeptWithin(h, d) ==
    (\A f \in {"held", "incoming"} : h[f] + d[f] >= 0) => Within(Plus(h, d))

\* An order moves and its shares follow: the books still balance.
LEMMA Booked ==
  ASSUME BooksInv, NEW o \in Orders, NEW r, NEW do, NEW back, OrderMoves(o, r, do, back),
         SharesFollow(o, r, do, back), PositionFollows(o, r, do, back)
  PROVE  LedgerInv' /\ PositionInv'
<1>1. LedgerInv'
  BY LedgerFrame DEF BooksInv, OrderMoves, SharesFollow
<1>2. PositionInv'
  BY PositionFrame DEF BooksInv, OrderMoves, SharesFollow, PositionFollows
<1> QED BY <1>1, <1>2

\* One slot moves by d.
LEMMA SlotMoves ==
  ASSUME SpendInv, NEW b \in Assets, NEW d \in Amounts,
         holdings' = [holdings EXCEPT ![b] = Plus(holdings[b], d)]
  PROVE  /\ holdings' \in [Assets -> Amounts]
         /\ \A a \in Assets, f \in Fields :
               /\ holdings[a][f] \in Int
               /\ holdings'[a][f] = holdings[a][f] + (IF a = b THEN d[f] ELSE 0)
<1>1. holdings \in [Assets -> Amounts] /\ holdings[b] \in Amounts
  BY DEF SpendInv, SpendTypeOK
<1>2. Plus(holdings[b], d) \in Amounts
  BY <1>1, PlusIs
<1>3. \A f \in Fields : /\ Plus(holdings[b], d)[f] = holdings[b][f] + d[f]
                        /\ d[f] \in Int
  BY <1>1, PlusAt
<1>4. \A a \in Assets, f \in Fields : holdings[a][f] \in Int
  BY <1>1 DEF Amounts
<1>5. \A a \in Assets : holdings'[a] = IF a = b THEN Plus(holdings[b], d) ELSE holdings[a]
  BY <1>1
<1>6. holdings' \in [Assets -> Amounts]
  BY <1>1, <1>2
<1> QED BY <1>3, <1>4, <1>5, <1>6

\* The slots stay and the order's share of them does not grow, in an account
\* that is, or becomes, blocked.
LEMMA Overflown ==
  ASSUME BooksInv, NEW o \in Orders, NEW r, NEW do, NEW back, OrderMoves(o, r, do, back),
         holdings' = holdings, blocked', base' \in [Assets -> Amounts],
         \A f \in {"held", "incoming"} :
            ShareOf(r, do, back, "underlying", f) <= Share(o, "underlying", f)
  PROVE  LedgerInv' /\ PositionInv'
<1>1. SpendInv /\ LedgerInv /\ PositionInv
  BY DEF BooksInv
<1>2. /\ holdings' \in [Assets -> Amounts] /\ (Confined => Within(holdings'["underlying"]))
      /\ \A a \in Assets, f \in Fields : holdings[a][f] \in Int
  BY <1>1, Unmoved
<1>3. SharesFollow(o, r, do, back)
  BY <1>2 DEF SharesFollow
<1>4. ASSUME NEW f \in {"held", "incoming"}
      PROVE  holdings'["underlying"][f] - holdings["underlying"][f]
               >= ShareOf(r, do, back, "underlying", f) - Share(o, "underlying", f)
  <2>1. "underlying" \in Assets /\ f \in Fields
    BY DEF Assets, Fields
  <2>2. /\ ShareOf(r, do, back, "underlying", f) \in Int
        /\ Share(o, "underlying", f) \in Int
    <3>1. ASSUME NEW a \in Assets, NEW g \in Fields
          PROVE  ShareOf(r, do, back, a, g) \in Int /\ Share(o, a, g) \in Int
      BY <1>1, SharesStep, ShareOfIs DEF OrderMoves
    <3> QED BY <2>1, <3>1
  <2> QED BY <1>2, <2>1, <2>2
<1>5. PositionFollows(o, r, do, back)
  BY <1>2, <1>4 DEF PositionFollows
<1> QED BY <1>3, <1>5, Booked

\* A slot moves by d, the order's share with it, and nothing is booked.
Shifts(o, r, do, back, b, d) ==
    /\ base' = base /\ (~blocked' => ~blocked)
    /\ holdings' = [holdings EXCEPT ![b] = Plus(holdings[b], d)]
    /\ \A a \in Assets, f \in Fields :
          ShareOf(r, do, back, a, f) = Share(o, a, f) + (IF a = b THEN d[f] ELSE 0)
    /\ Confined => (b = "underlying" => KeptWithin(holdings["underlying"], d))

\* A leg moves a slot and the share of its order alike.
LEMMA ShareMoves ==
  ASSUME BooksInv, NEW o \in Orders, NEW r, NEW do, NEW back, OrderMoves(o, r, do, back),
         NEW b \in Assets, NEW d \in Amounts, Shifts(o, r, do, back, b, d)
  PROVE  LedgerInv' /\ PositionInv'
<1> USE DEF Shifts
<1>1. SpendInv /\ LedgerInv /\ PositionInv
  BY DEF BooksInv
<1>2. /\ holdings' \in [Assets -> Amounts] /\ holdings \in [Assets -> Amounts]
      /\ \A a \in Assets, f \in Fields :
            /\ holdings[a][f] \in Int
            /\ holdings'[a][f] = holdings[a][f] + (IF a = b THEN d[f] ELSE 0)
  <2>1. holdings \in [Assets -> Amounts]
    BY <1>1 DEF SpendInv, SpendTypeOK
  <2> QED BY <1>1, <2>1, SlotMoves
<1>3. base \in [Assets -> Amounts] /\ \A a \in Assets, f \in Fields : base[a][f] \in Int
  BY <1>1 DEF LedgerInv, Amounts
<1>4. \A a \in Assets, f \in Fields :
         Share(o, a, f) \in Int /\ ShareOf(r, do, back, a, f) \in Int /\ d[f] \in Int
  <2>1. ASSUME NEW a \in Assets, NEW f \in Fields
        PROVE  Share(o, a, f) \in Int /\ ShareOf(r, do, back, a, f) \in Int
    BY <1>1, SharesStep, ShareOfIs DEF OrderMoves
  <2> QED BY <2>1 DEF Amounts
<1>5. ASSUME NEW a \in Assets, NEW f \in Fields
      PROVE  /\ holdings'[a][f] - base'[a][f]
                  = holdings[a][f] - base[a][f] + (ShareOf(r, do, back, a, f) - Share(o, a, f))
             /\ holdings'[a][f] - holdings[a][f] >= ShareOf(r, do, back, a, f) - Share(o, a, f)
  BY <1>2, <1>3, <1>4
<1>6. SharesFollow(o, r, do, back)
  BY <1>2, <1>3, <1>5 DEF SharesFollow
<1>7. "underlying" \in Assets /\ \A f \in {"held", "incoming"} : f \in Fields
  BY DEF Assets, Fields
<1>8. ASSUME Confined, \A f \in {"held", "incoming"} : holdings'["underlying"][f] >= 0
      PROVE  Within(holdings'["underlying"])
  <2>1. CASE b = "underlying"
    <3>1. \A f \in {"held", "incoming"} : holdings["underlying"][f] + d[f] >= 0
      BY <1>2, <1>7, <1>8, <2>1
    <3>2. holdings'["underlying"] = Plus(holdings["underlying"], d)
      BY <1>2, <1>7, <2>1
    <3> QED BY <1>8, <2>1, <3>1, <3>2 DEF KeptWithin
  <2>2. CASE b # "underlying"
    <3>1. holdings'["underlying"] = holdings["underlying"]
      BY <1>2, <1>7, <2>2
    <3> QED BY <1>1, <1>8, <3>1, WithinIs DEF PositionInv
  <2> QED BY <2>1, <2>2
<1>9. PositionFollows(o, r, do, back)
  BY <1>5, <1>7, <1>8 DEF PositionFollows
<1> QED BY <1>6, <1>9, Booked

\* Three moves that keep within the limit: a leg that was verified, the
\* leg taken back, and a leg of a report.
LEMMA KeptLimit ==
  ASSUME SpendInv, Confined
  PROVE  PositionLimit \in Nat
<1>1. setup \in Setups
  BY DEF SpendInv, SpendTypeOK
<1> QED BY <1>1, BoundsAssumption DEF Confined, PositionLimit

\* A hold that position_limit::verify allows keeps the position within.
LEMMA VerifiedKept ==
  ASSUME NEW h \in Amounts, NEW leg \in [held : Nat, incoming : Nat], PositionLimit \in Nat,
         leg.held = 0 \/ leg.incoming = 0, leg.held # leg.incoming, verify(h, leg), Within(h)
  PROVE  Within(Plus(h, HoldDelta(leg)))
<1> DEFINE x == h["available"]
           y == h["held"]
           z == h["incoming"]
           p == leg.held
           q == leg.incoming
           d == HoldDelta(leg)
           L == PositionLimit
<1>1. /\ x \in Int /\ y \in Int /\ z \in Int /\ p \in Nat /\ q \in Nat /\ L \in Nat
      /\ p = 0 \/ q = 0
      /\ p # q
  BY DEF Amounts, Fields
<1>2. /\ Plus(h, d)["available"] = x - p /\ Plus(h, d)["held"] = y + p
      /\ Plus(h, d)["incoming"] = z + q
  <2>1. d \in Amounts /\ d["available"] = -p /\ d["held"] = p /\ d["incoming"] = q
    BY HoldDeltaIs
  <2>2. "available" \in Fields /\ "held" \in Fields /\ "incoming" \in Fields
    BY DEF Fields
  <2> HIDE DEF d, p, q, x, y, z
  <2>3. /\ Plus(h, d)["available"] = h["available"] + d["available"]
        /\ Plus(h, d)["held"] = h["held"] + d["held"]
        /\ Plus(h, d)["incoming"] = h["incoming"] + d["incoming"]
    BY <2>1, <2>2, PlusAt
  <2>4. /\ Plus(h, d)["available"] = x + -p /\ Plus(h, d)["held"] = y + p
        /\ Plus(h, d)["incoming"] = z + q
    BY <2>1, <2>3 DEF x, y, z
  <2>5. x + -p = x - p
    BY ONLY <1>1
  <2> QED BY <2>4, <2>5
<1>3. /\ IF q - p > 0 THEN x + y + non_negative(z) + (q - p) <= L
                      ELSE x + y - non_negative(y) + (q - p) >= -L
      /\ x + y + non_negative(z) <= L /\ x + y - non_negative(y) >= -L
  <2>1. IF q - p > 0 THEN x + y + non_negative(z) + (q - p) <= L
                     ELSE x + y - non_negative(y) + (q - p) >= -L
    <3>1. IF q - p > 0 THEN (x + y) + non_negative(z) + (q - p) <= L
                       ELSE ((x + y) - non_negative(y)) + (q - p) >= -L
      BY DEF verify
    <3>2. non_negative(y) \in Int
      BY <1>1, NonNegative
    <3>3. x + (y - non_negative(y)) = (x + y) - non_negative(y)
      BY <1>1, <3>2
    <3> QED BY <3>1, <3>3
  <2>2. x + y + non_negative(z) <= L /\ x + y - non_negative(y) >= -L
    BY DEF Within
  <2> QED BY <2>1, <2>2
<1> HIDE DEF x, y, z, p, q, d, L
<1>4. /\ \A v \in Int : non_negative(v) = IF v > 0 THEN v ELSE 0
      /\ y + p \in Int /\ z + q \in Int
  BY <1>1, NonNegative
<1>5. /\ non_negative(z) = IF z > 0 THEN z ELSE 0
      /\ non_negative(y) = IF y > 0 THEN y ELSE 0
      /\ non_negative(z + q) = IF z + q > 0 THEN z + q ELSE 0
      /\ non_negative(y + p) = IF y + p > 0 THEN y + p ELSE 0
  BY <1>1, <1>4
<1>6. /\ x - p + (y + p) + non_negative(z + q) <= L
      /\ x - p + (y + p) - non_negative(y + p) >= -L
  BY ONLY <1>1, <1>3, <1>5
<1>7. PositionLimit = L
  BY DEF L
<1> QED BY <1>2, <1>6, <1>7 DEF Within, d

Negated(d) == [f \in Fields |-> -d[f]]

LEMMA NegatedIs ==
  ASSUME NEW h \in Amounts, NEW d \in Amounts
  PROVE  Negated(d) \in Amounts /\ Minus(h, d) = Plus(h, Negated(d))
         /\ \A f \in Fields : Negated(d)[f] = -d[f]
BY DEF Negated, Minus, Plus, Amounts

\* Taking a leg back keeps the position within.
LEMMA UndoneKept ==
  ASSUME NEW h \in Amounts, NEW leg \in [held : Nat, incoming : Nat], PositionLimit \in Nat,
         Within(h)
  PROVE  Within(Minus(h, HoldDelta(leg)))
<1> DEFINE x == h["available"]
           y == h["held"]
           z == h["incoming"]
           p == leg.held
           q == leg.incoming
           d == HoldDelta(leg)
           L == PositionLimit
<1>1. /\ x \in Int /\ y \in Int /\ z \in Int /\ p \in Nat /\ q \in Nat /\ L \in Nat
  BY DEF Amounts, Fields
<1>2. /\ Minus(h, d)["available"] = x + p /\ Minus(h, d)["held"] = y - p
      /\ Minus(h, d)["incoming"] = z - q
  <2>1. d \in Amounts /\ d["available"] = -p /\ d["held"] = p /\ d["incoming"] = q
    BY HoldDeltaIs
  <2>2. "available" \in Fields /\ "held" \in Fields /\ "incoming" \in Fields
    BY DEF Fields
  <2> HIDE DEF d
  <2> QED BY <1>1, <2>1, <2>2, PlusAt
<1>3. x + y + non_negative(z) <= L /\ x + y - non_negative(y) >= -L
  BY DEF Within
<1> HIDE DEF x, y, z, p, q, d, L
<1>4. /\ \A v \in Int : non_negative(v) = IF v > 0 THEN v ELSE 0
      /\ y - p \in Int /\ z - q \in Int
  BY <1>1, NonNegative
<1>5. /\ non_negative(z) = IF z > 0 THEN z ELSE 0
      /\ non_negative(y) = IF y > 0 THEN y ELSE 0
      /\ non_negative(z - q) = IF z - q > 0 THEN z - q ELSE 0
      /\ non_negative(y - p) = IF y - p > 0 THEN y - p ELSE 0
  BY <1>1, <1>4
<1>6. /\ x + p + (y - p) + non_negative(z - q) <= L
      /\ x + p + (y - p) - non_negative(y - p) >= -L
  BY ONLY <1>1, <1>3, <1>5
<1>7. PositionLimit = L
  BY DEF L
<1> QED BY <1>2, <1>6, <1>7 DEF Within, d

\* A leg of a report keeps the position within.
LEMMA SettledKept ==
  ASSUME NEW h \in Amounts, NEW d \in Amounts, PositionLimit \in Nat, Settles(d), Within(h)
  PROVE  KeptWithin(h, d)
<1> SUFFICES ASSUME \A f \in {"held", "incoming"} : h[f] + d[f] >= 0
             PROVE  Within(Plus(h, d))
  BY DEF KeptWithin
<1> DEFINE x == h["available"]
           y == h["held"]
           z == h["incoming"]
           u == d["available"]
           v == d["held"]
           w == d["incoming"]
           L == PositionLimit
<1>1. /\ x \in Int /\ y \in Int /\ z \in Int /\ u \in Int /\ v \in Int /\ w \in Int /\ L \in Nat
      /\ y + v >= 0 /\ z + w >= 0 /\ v <= 0 /\ w <= 0 /\ u >= 0 /\ u + v + w <= 0
  BY DEF Amounts, Fields, Settles
<1>2. /\ Plus(h, d)["available"] = x + u /\ Plus(h, d)["held"] = y + v
      /\ Plus(h, d)["incoming"] = z + w
  <2>1. "available" \in Fields /\ "held" \in Fields /\ "incoming" \in Fields
    BY DEF Fields
  <2> QED BY <2>1, PlusAt
<1>3. x + y + non_negative(z) <= L /\ x + y - non_negative(y) >= -L
  BY DEF Within
<1> HIDE DEF x, y, z, u, v, w, L
<1>4. /\ \A k \in Int : non_negative(k) = IF k > 0 THEN k ELSE 0
      /\ y + v \in Int /\ z + w \in Int
  BY <1>1, NonNegative
<1>5. /\ non_negative(z) = IF z > 0 THEN z ELSE 0
      /\ non_negative(y) = IF y > 0 THEN y ELSE 0
      /\ non_negative(z + w) = IF z + w > 0 THEN z + w ELSE 0
      /\ non_negative(y + v) = IF y + v > 0 THEN y + v ELSE 0
  BY <1>1, <1>4
<1>6. /\ x + u + (y + v) + non_negative(z + w) <= L
      /\ x + u + (y + v) - non_negative(y + v) >= -L
  BY ONLY <1>1, <1>3, <1>5
<1>7. PositionLimit = L
  BY DEF L
<1> QED BY <1>2, <1>6, <1>7 DEF Within

\* The actions, one lemma each: a leg of a reservation,
LEMMA ReserveLegBooks ==
  ASSUME BooksInv, setup' = setup, NEW o \in Orders, ReserveLeg(o)
  PROVE  LedgerInv' /\ PositionInv'
<1> DEFINE m == Head(todo[o])
           b == m.asset
           leg == m.leg
           d == HoldDelta(leg)
           rest == Tail(todo[o])
           taken == <<m>> \o undo[o]
           r == orders[o]
           gone == [orders[o] EXCEPT !.phase = "rolling_back"]
<1>1. /\ SpendInv /\ LedgerInv /\ PositionInv /\ SpendTypeOK
      /\ batches' = batches /\ base' = base /\ blocked' = blocked
      /\ todo[o] \in Seq(Holds) /\ todo[o] # <<>>
      /\ r \in OrderRecords /\ r.phase = "reserving" /\ undo[o] \in Seq(Holds)
  BY OrderFacts DEF BooksInv, SpendInv, ReserveLeg
<1>2. m \in Holds /\ rest \in Seq(Holds)
  BY <1>1, FirstAndRest
<1>3. \/ /\ leg.held = 0 /\ leg.incoming = 0
         /\ UNCHANGED <<holdings, undo, orders>> /\ todo' = [todo EXCEPT ![o] = rest]
      \/ /\ leg.held # 0 \/ leg.incoming # 0
         /\ PositionAllowed(b, holdings[b], leg)
         /\ holdings' = [holdings EXCEPT ![b] = Plus(holdings[b], d)]
         /\ undo' = [undo EXCEPT ![o] = taken] /\ todo' = [todo EXCEPT ![o] = rest]
         /\ UNCHANGED orders
      \/ /\ UNCHANGED <<holdings, undo>> /\ todo' = [todo EXCEPT ![o] = <<>>]
         /\ orders' = [orders EXCEPT ![o] = gone]
  BY <1>1 DEF ReserveLeg, SpendTypeOK
<1>4. orders = [orders EXCEPT ![o] = r] /\ undo = [undo EXCEPT ![o] = undo[o]]
  BY <1>1 DEF SpendTypeOK
<1>5. LegsOf(r, todo[o], undo[o])
  BY <1>1, OfOrders DEF LedgerInv
<1>6. \A a \in Assets, f \in Fields :
         /\ Share(o, a, f) = ShareOf(r, todo[o], undo[o], a, f)
         /\ Share(o, a, f) = Holding(undo[o], a, f)
  BY <1>1, OfOrders DEF ShareOf
<1>7. b \in Assets /\ leg \in [held : Nat, incoming : Nat]
  BY <1>2 DEF Holds
<1>8. /\ d \in Amounts /\ d["available"] = -leg.held /\ d["held"] = leg.held
      /\ d["incoming"] = leg.incoming
  BY <1>7, HoldDeltaIs
<1>9. gone \in OrderRecords /\ gone.phase = "rolling_back"
  <2> DEFINE q == orders[o]
  <2>1. q \in OrderRecords
    BY <1>1
  <2> HIDE DEF q
  <2>2. /\ [q EXCEPT !.phase = "rolling_back"] \in OrderRecords
        /\ [q EXCEPT !.phase = "rolling_back"].phase = "rolling_back"
    BY <2>1, Rephased DEF Phases
  <2> QED BY <2>2 DEF q
<1>10. /\ r.side \in {"buy", "sell"} /\ r.left \in Nat /\ r.price \in Int
  BY <1>1 DEF OrderRecords
<1> HIDE DEF r, gone
<1>11. /\ Len(todo[o]) + Len(undo[o]) <= 2 /\ Len(rest) = Len(todo[o]) - 1
       /\ Len(todo[o]) <= 2 /\ Len(undo[o]) <= 1 /\ Len(todo[o]) \in Nat /\ Len(undo[o]) \in Nat
       /\ Len(todo[o]) >= 1 /\ Len(undo[o]) <= 2
  <2>1. Len(todo[o]) + Len(undo[o]) <= 2
    BY <1>1, <1>5 DEF LegsOf
  <2>2. Len(todo[o]) \in Nat /\ Len(undo[o]) \in Nat /\ Len(todo[o]) # 0
        /\ Len(rest) = Len(todo[o]) - 1
    BY <1>1
  <2>3. ASSUME NEW x \in Nat, NEW y \in Nat, x # 0, x + y <= 2
        PROVE  x <= 2 /\ y <= 1 /\ x >= 1 /\ y <= 2
    BY ONLY <2>3
  <2> QED BY ONLY <2>1, <2>2, <2>3
<1> DEFINE full(a, f) == HoldDelta(Reserved(r.side, r.left, r.price, a))[f]
<1>12. ASSUME NEW a \in Assets, NEW f \in Fields
       PROVE  /\ Holding(undo[o], a, f) + Holding(todo[o], a, f) = full(a, f)
              /\ Holding(todo[o], a, f) = Holding(rest, a, f) + (IF a = b THEN d[f] ELSE 0)
              /\ Holding(taken, a, f) = Holding(undo[o], a, f) + (IF a = b THEN d[f] ELSE 0)
              /\ taken \in Seq(Holds) /\ Len(taken) = Len(undo[o]) + 1
              /\ Holding(undo[o], a, f) \in Int /\ Holding(todo[o], a, f) \in Int
              /\ Holding(rest, a, f) \in Int /\ d[f] \in Int
              /\ f # "available" => Holding(undo[o], a, f) >= 0 /\ Holding(rest, a, f) >= 0
  <2>1. Holding(undo[o], a, f) + Holding(todo[o], a, f) = full(a, f)
    BY <1>1, <1>5 DEF LegsOf, r
  <2>2. Holding(todo[o], a, f) = Holding(rest, a, f) + (IF b = a THEN d[f] ELSE 0)
    BY <1>1, <1>11, HoldingTail
  <2>3. /\ Holding(taken, a, f) = Holding(undo[o], a, f) + (IF b = a THEN d[f] ELSE 0)
        /\ taken \in Seq(Holds) /\ Len(taken) = Len(undo[o]) + 1
    BY <1>1, <1>2, <1>11, HoldingOneMore
  <2>4. /\ Holding(undo[o], a, f) \in Int /\ Holding(todo[o], a, f) \in Int
        /\ Holding(rest, a, f) \in Int
        /\ f # "available" => Holding(undo[o], a, f) >= 0 /\ Holding(rest, a, f) >= 0
    BY <1>1, <1>2, HoldingIs
  <2>5. d[f] \in Int
    BY <1>8 DEF Amounts
  <2> HIDE DEF d, b, rest, taken, full
  <2> QED BY <2>1, <2>2, <2>3, <2>4, <2>5
<1>13. taken \in Seq(Holds) /\ Len(taken) = Len(undo[o]) + 1
  <2>1. "underlying" \in Assets /\ "held" \in Fields
    BY DEF Assets, Fields
  <2> QED BY <1>12, <2>1
<1>14. CASE /\ leg.held = 0 /\ leg.incoming = 0
            /\ UNCHANGED <<holdings, undo, orders>> /\ todo' = [todo EXCEPT ![o] = rest]
  <2>1. \A f \in Fields : d[f] = 0
    BY <1>8, <1>14 DEF Fields
  <2>2. LegsOf(r, rest, undo[o])
    <3>1. Len(rest) + Len(undo[o]) <= 2
      <4>1. ASSUME NEW x \in Nat, NEW y \in Nat, x + y <= 2 PROVE (x - 1) + y <= 2
        BY ONLY <4>1
      <4> QED BY ONLY <1>11, <4>1
    <3>2. ASSUME NEW a \in Assets, NEW f \in Fields
          PROVE  Holding(undo[o], a, f) + Holding(rest, a, f) = full(a, f)
      <4> HIDE DEF d, b, rest, taken, full
      <4> QED BY <1>12, <2>1
    <3> QED BY <1>1, <3>1, <3>2 DEF LegsOf, r
  <2>3. Fitting(r, rest, undo[o]) /\ (r.phase = "reporting" => Settling(rest))
    BY <1>1, <1>2 DEF Fitting, r
  <2>4. \A a \in Assets, f \in Fields : ShareOf(r, rest, undo[o], a, f) = Share(o, a, f)
    BY <1>1, <1>6 DEF ShareOf, r
  <2>5. OrderMoves(o, r, rest, undo[o]) /\ SameShare(o, r, rest, undo[o])
    BY <1>1, <1>4, <1>14, <2>2, <2>3, <2>4 DEF OrderMoves, SameShare
  <2> QED BY <2>5, Bookkeeping
<1>15. CASE /\ leg.held # 0 \/ leg.incoming # 0
            /\ PositionAllowed(b, holdings[b], leg)
            /\ holdings' = [holdings EXCEPT ![b] = Plus(holdings[b], d)]
            /\ undo' = [undo EXCEPT ![o] = taken] /\ todo' = [todo EXCEPT ![o] = rest]
            /\ UNCHANGED orders
  <2>1. LegsOf(r, rest, taken)
    <3>1. Len(rest) + Len(taken) <= 2
      <4>1. ASSUME NEW x \in Nat, NEW y \in Nat, x + y <= 2 PROVE (x - 1) + (y + 1) <= 2
        BY ONLY <4>1
      <4> QED BY ONLY <1>11, <1>13, <4>1
    <3>2. ASSUME NEW a \in Assets, NEW f \in Fields
          PROVE  Holding(taken, a, f) + Holding(rest, a, f) = full(a, f)
      <4> HIDE DEF d, b, rest, taken, full
      <4> QED BY <1>12
    <3> QED BY <1>1, <3>1, <3>2 DEF LegsOf, r
  <2>2. Fitting(r, rest, taken) /\ (r.phase = "reporting" => Settling(rest))
    BY <1>1, <1>2, <1>13 DEF Fitting, r
  <2>3. \A a \in Assets, f \in Fields :
           ShareOf(r, rest, taken, a, f) = Share(o, a, f) + (IF a = b THEN d[f] ELSE 0)
    <3>1. \A a \in Assets, f \in Fields : ShareOf(r, rest, taken, a, f) = Holding(taken, a, f)
      BY <1>1 DEF ShareOf, r
    <3> HIDE DEF d, b, rest, taken
    <3> QED BY <1>6, <1>12, <3>1
  <2>4. OrderMoves(o, r, rest, taken)
    BY <1>1, <1>4, <1>15, <2>1, <2>2 DEF OrderMoves
  <2>5. ASSUME Confined, b = "underlying" PROVE KeptWithin(holdings["underlying"], d)
    <3>1. holdings[b] \in Amounts /\ Within(holdings[b]) /\ PositionLimit \in Nat
      BY <1>1, <1>7, <2>5, KeptLimit, WithinIs DEF SpendTypeOK, PositionInv
    <3>2. leg.held = 0 \/ leg.incoming = 0
      <4>1. /\ Reserved(r.side, r.left, r.price, b) \in [held : Nat, incoming : Nat]
            /\ \/ Reserved(r.side, r.left, r.price, b).held = 0
               \/ Reserved(r.side, r.left, r.price, b).incoming = 0
        <5>1. Reserved(r.side, r.left, r.price, "underlying")
                = IF r.side = "buy" THEN [held |-> 0, incoming |-> r.left]
                                    ELSE [held |-> r.left, incoming |-> 0]
          BY <1>10 DEF Reserved
        <5> QED BY <1>10, <2>5, <5>1
      <4>2. full(b, "held") = 0 \/ full(b, "incoming") = 0
        BY <4>1, HoldDeltaIs
      <4>3. "held" \in Fields /\ "incoming" \in Fields
        BY DEF Fields
      <4>4. /\ Holding(undo[o], b, "held") + (Holding(rest, b, "held") + d["held"]) = full(b, "held")
            /\ Holding(undo[o], b, "incoming") + (Holding(rest, b, "incoming") + d["incoming"])
                 = full(b, "incoming")
            /\ Holding(undo[o], b, "held") \in Int /\ Holding(undo[o], b, "incoming") \in Int
            /\ Holding(rest, b, "held") \in Int /\ Holding(rest, b, "incoming") \in Int
            /\ Holding(undo[o], b, "held") >= 0 /\ Holding(undo[o], b, "incoming") >= 0
            /\ Holding(rest, b, "held") >= 0 /\ Holding(rest, b, "incoming") >= 0
        <5> HIDE DEF d, b, rest, full
        <5> QED BY <1>7, <1>12, <4>3
      <4>5. d["held"] = leg.held /\ d["incoming"] = leg.incoming /\ leg.held \in Nat /\ leg.incoming \in Nat
        BY <1>7, <1>8
      <4> HIDE DEF d, b, rest, full, leg
      <4> QED BY ONLY <4>2, <4>4, <4>5
    <3>3. leg.held # leg.incoming
      BY <1>7, <1>15, <3>2
    <3>4. verify(holdings[b], leg)
      BY <1>15, <2>5, <3>3 DEF PositionAllowed, Confined
    <3>5. Within(Plus(holdings[b], HoldDelta(leg)))
      BY <1>7, <3>1, <3>2, <3>3, <3>4, VerifiedKept
    <3> QED BY <2>5, <3>5 DEF KeptWithin
  <2>6. ~blocked' => ~blocked
    BY <1>1
  <2> HIDE DEF d, b, rest, taken
  <2>7. Shifts(o, r, rest, taken, b, d)
    BY <1>1, <1>15, <2>3, <2>5, <2>6 DEF Shifts
  <2> QED BY <1>7, <1>8, <2>4, <2>7, ShareMoves
<1>16. CASE /\ UNCHANGED <<holdings, undo>> /\ todo' = [todo EXCEPT ![o] = <<>>]
            /\ orders' = [orders EXCEPT ![o] = gone]
  <2>1. LegsOf(gone, <<>>, undo[o])
    BY <1>9, <1>11 DEF LegsOf
  <2>2. Fitting(gone, <<>>, undo[o]) /\ (gone.phase = "reporting" => Settling(<<>>))
    BY <1>1, <1>9 DEF Fitting
  <2>3. \A a \in Assets, f \in Fields : ShareOf(gone, <<>>, undo[o], a, f) = Share(o, a, f)
    BY <1>6, <1>9 DEF ShareOf
  <2>4. OrderMoves(o, gone, <<>>, undo[o]) /\ SameShare(o, gone, <<>>, undo[o])
    BY <1>1, <1>4, <1>16, <2>1, <2>2, <2>3 DEF OrderMoves, SameShare
  <2> QED BY <2>4, Bookkeeping
<1> QED BY <1>3, <1>14, <1>15, <1>16

\* of a rollback,
LEMMA RollbackLegBooks ==
  ASSUME BooksInv, setup' = setup, NEW o \in Orders, RollbackLeg(o)
  PROVE  LedgerInv' /\ PositionInv'
<1> DEFINE q == orders[o]
           s == undo[o]
           t == todo[o]
           rest == Tail(s)
           b == Head(s).asset
           leg == Head(s).leg
           d == HoldDelta(leg)
           new == UndoLeg(holdings[b], leg)
           r == [q EXCEPT !.phase = "closed", !.left = 0]
<1>1. /\ SpendInv /\ LedgerInv /\ PositionInv /\ SpendTypeOK
      /\ batches' = batches /\ base' = base /\ todo' = [todo EXCEPT ![o] = t]
      /\ q \in OrderRecords /\ q.phase = "rolling_back" /\ s \in Seq(Holds)
  BY OrderFacts DEF BooksInv, SpendInv, RollbackLeg, SpendTypeOK
<1>2. \/ /\ s = <<>> /\ orders' = [orders EXCEPT ![o] = r] /\ UNCHANGED <<holdings, undo, blocked>>
      \/ /\ s # <<>> /\ undo' = [undo EXCEPT ![o] = rest] /\ orders' = orders
         /\ holdings' = IF InRange(new) THEN [holdings EXCEPT ![b] = new] ELSE holdings
         /\ blocked' = (blocked \/ ~InRange(new))
  BY <1>1 DEF RollbackLeg, SpendTypeOK
<1>3. orders = [orders EXCEPT ![o] = q] /\ undo = [undo EXCEPT ![o] = s]
  BY <1>1 DEF SpendTypeOK
<1>4. Len(s) <= 2
  BY <1>1 DEF LedgerInv, LegsInv
<1>5. \A a \in Assets, f \in Fields : Share(o, a, f) = Holding(s, a, f)
  BY <1>1 DEF Share
<1> HIDE DEF q
<1>6. r \in OrderRecords /\ r.phase = "closed"
  BY <1>1 DEF OrderRecords, Phases
<1> HIDE DEF r, s, t
<1>7. CASE s = <<>> /\ orders' = [orders EXCEPT ![o] = r] /\ UNCHANGED <<holdings, undo, blocked>>
  <2>1. Fitting(r, t, s) /\ LegsOf(r, t, s) /\ (r.phase = "reporting" => Settling(t))
    BY <1>1, <1>6 DEF Fitting, LegsOf
  <2>2. \A a \in Assets, f \in Fields : ShareOf(r, t, s, a, f) = Share(o, a, f)
    <3>1. \A a \in Assets, f \in Fields : Holding(s, a, f) = 0
      BY <1>1, <1>7, HoldingIs
    <3> QED BY <1>5, <1>6, <3>1 DEF ShareOf
  <2>3. OrderMoves(o, r, t, s) /\ SameShare(o, r, t, s)
    BY <1>1, <1>3, <1>7, <2>1, <2>2 DEF OrderMoves, SameShare
  <2> QED BY <2>3, Bookkeeping
<1>8. CASE /\ s # <<>> /\ undo' = [undo EXCEPT ![o] = rest] /\ orders' = orders
           /\ holdings' = IF InRange(new) THEN [holdings EXCEPT ![b] = new] ELSE holdings
           /\ blocked' = (blocked \/ ~InRange(new))
  <2>1. Head(s) \in Holds /\ rest \in Seq(Holds)
    BY <1>1, <1>8, FirstAndRest
  <2>2. b \in Assets /\ leg \in [held : Nat, incoming : Nat]
    BY <2>1 DEF Holds
  <2>3. /\ d \in Amounts /\ d["held"] = leg.held /\ d["incoming"] = leg.incoming
        /\ leg.held \in Nat /\ leg.incoming \in Nat
    BY <2>2, HoldDeltaIs
  <2>4. Len(rest) <= 2
    <3>1. Len(rest) = Len(s) - 1 /\ Len(s) \in Nat
      BY <1>1, <1>8
    <3>2. ASSUME NEW x \in Nat, x <= 2 PROVE x - 1 <= 2
      BY ONLY <3>2
    <3> QED BY ONLY <1>4, <3>1, <3>2
  <2>5. Fitting(q, t, rest) /\ LegsOf(q, t, rest) /\ (q.phase = "reporting" => Settling(t))
    BY <1>1, <2>1, <2>4 DEF Fitting, LegsOf
  <2>6. OrderMoves(o, q, t, rest)
    BY <1>1, <1>3, <1>8, <2>5 DEF OrderMoves
  <2>7. ASSUME NEW a \in Assets, NEW f \in Fields
        PROVE  /\ Share(o, a, f) = ShareOf(q, t, rest, a, f) + (IF a = b THEN d[f] ELSE 0)
               /\ ShareOf(q, t, rest, a, f) \in Int /\ d[f] \in Int
    <3>1. ShareOf(q, t, rest, a, f) = Holding(rest, a, f)
      BY <1>1 DEF ShareOf
    <3>2. /\ Holding(s, a, f) = Holding(rest, a, f) + (IF b = a THEN d[f] ELSE 0)
          /\ Holding(rest, a, f) \in Int /\ d[f] \in Int
      BY <1>1, <1>4, <1>8, <2>1, HoldingTail, HoldingIs
    <3> HIDE DEF b, d, rest
    <3> QED BY <1>5, <3>1, <3>2
  <2>8. holdings[b] \in Amounts /\ \A f \in Fields : d[f] \in Int
    BY <1>1, <2>2, <2>3 DEF SpendTypeOK, Amounts
  <2>9. /\ Negated(d) \in Amounts /\ new = Plus(holdings[b], Negated(d))
        /\ \A f \in Fields : Negated(d)[f] = -d[f]
    BY <2>3, <2>8, NegatedIs DEF UndoLeg
  <2>10. CASE InRange(new)
    <3>1. holdings' = [holdings EXCEPT ![b] = Plus(holdings[b], Negated(d))] /\ (~blocked' => ~blocked)
      BY <1>8, <2>9, <2>10
    <3>2. \A a \in Assets, f \in Fields :
             ShareOf(q, t, rest, a, f) = Share(o, a, f) + (IF a = b THEN Negated(d)[f] ELSE 0)
      <4> HIDE DEF b, d, rest
      <4> QED BY <2>7, <2>9
    <3>3. ASSUME Confined, b = "underlying" PROVE KeptWithin(holdings["underlying"], Negated(d))
      <4>1. Within(holdings[b]) /\ PositionLimit \in Nat
        BY <1>1, <3>3, KeptLimit, WithinIs DEF PositionInv
      <4>2. Within(Minus(holdings[b], HoldDelta(leg)))
        BY <2>2, <2>8, <4>1, UndoneKept
      <4> QED BY <2>9, <3>3, <4>2 DEF KeptWithin, UndoLeg
    <3>4. Shifts(o, q, t, rest, b, Negated(d))
      <4> HIDE DEF b, d, rest
      <4> QED BY <1>1, <3>1, <3>2, <3>3 DEF Shifts
    <3> HIDE DEF b, d, rest
    <3> QED BY <2>2, <2>6, <2>9, <3>4, ShareMoves
  <2>11. CASE ~InRange(new)
    <3>1. holdings' = holdings /\ blocked' /\ base' \in [Assets -> Amounts]
      BY <1>1, <1>8, <2>11 DEF LedgerInv
    <3>2. ASSUME NEW f \in {"held", "incoming"}
          PROVE  ShareOf(q, t, rest, "underlying", f) <= Share(o, "underlying", f)
      <4>1. d[f] >= 0 /\ f \in Fields /\ "underlying" \in Assets
        BY <2>3 DEF Fields, Assets
      <4>2. /\ Share(o, "underlying", f)
                 = ShareOf(q, t, rest, "underlying", f) + (IF "underlying" = b THEN d[f] ELSE 0)
            /\ ShareOf(q, t, rest, "underlying", f) \in Int /\ d[f] \in Int
        BY <2>7, <4>1
      <4> HIDE DEF b, d, rest
      <4> QED BY <4>1, <4>2
    <3> HIDE DEF rest
    <3> QED BY <2>6, <3>1, <3>2, Overflown
  <2> QED BY <2>10, <2>11
<1> QED BY <1>2, <1>7, <1>8

\* the report itself, which changes what the order will have,
LEMMA ReportBooks ==
  ASSUME BooksInv, setup' = setup, NEW o \in Orders, Report(o)
  PROVE  LedgerInv' /\ PositionInv'
<1> DEFINE q == orders[o]
           Price(better) == IF q.side = "buy" THEN q.price - better ELSE q.price + better
           Booking(filled, price, fee, a) ==
               Slot(Flow(q.side, filled, price, a) + (IF a = "settlement" THEN fee ELSE 0), 0, 0)
<1>1. /\ SpendInv /\ LedgerInv /\ PositionInv /\ SpendTypeOK
      /\ holdings' = holdings /\ undo' = undo /\ batches' = batches /\ q \in OrderRecords
      /\ undo[o] \in Seq(Holds) /\ q.phase = "open"
  BY OrderFacts DEF BooksInv, SpendInv, Report
<1>2. PICK filled \in 0 .. q.left, better \in Improvements, fee \in Fees, final \in BOOLEAN :
         /\ orders' = [orders EXCEPT ![o].phase = "reporting", ![o].left = @ - filled,
                          ![o].final = final, ![o].reports = @ + 1]
         /\ todo' = [todo EXCEPT ![o] =
                        IF Price(better) * filled \in -MaxAmount .. MaxAmount
                        THEN ReportLegs(q, filled, Price(better), fee, final)
                        ELSE Releases(ReportLegs(q, filled, Price(better), fee, final))]
         /\ blocked' = (blocked \/ ~(Price(better) * filled \in -MaxAmount .. MaxAmount))
         /\ base' = [a \in Assets |-> Plus(base[a], Booking(filled, Price(better), fee, a))]
  <2>1. PICK filled \in 0 .. orders[o].left, improvement \in Improvements,
             fee \in Fees, final \in BOOLEAN :
          LET order == orders[o]
              price == IF order.side = "buy" THEN order.price - improvement
                                             ELSE order.price + improvement
              fits == price * filled \in -MaxAmount .. MaxAmount
              legs == ReportLegs(order, filled, price, fee, final)
          IN  /\ filled > 0 \/ fee # 0 \/ final
              /\ final \/ filled < order.left
              /\ filled = 0 => improvement = Min(Improvements)
              /\ orders' = [orders EXCEPT ![o].phase = "reporting",
                                ![o].left = @ - filled, ![o].final = final,
                                ![o].reports = @ + 1]
              /\ todo' = [todo EXCEPT ![o] =
                             IF fits THEN legs ELSE Releases(legs)]
              /\ blocked' = (blocked \/ ~fits)
              /\ base' = [a \in Assets |-> Plus(base[a],
                            Slot(Flow(order.side, filled, price, a) +
                                    (IF a = "settlement" THEN fee ELSE 0), 0, 0))]
    BY Zenon DEF Report
  <2> QED BY <2>1, Zenon
<1> DEFINE r == [q EXCEPT !.phase = "reporting", !.left = @ - filled, !.final = final,
                          !.reports = @ + 1]
           price == Price(better)
           legs == ReportLegs(q, filled, price, fee, final)
           fits == price * filled \in -MaxAmount .. MaxAmount
           moved(a) == Flow(q.side, filled, price, a) + (IF a = "settlement" THEN fee ELSE 0)
           hold(n, a, f) == HoldDelta(Reserved(q.side, n, q.price, a))[f]
<1>3. orders' = [orders EXCEPT ![o] = r] /\ undo' = [undo EXCEPT ![o] = undo[o]]
  BY <1>1, <1>2 DEF SpendTypeOK
<1>4. /\ todo' = [todo EXCEPT ![o] = IF fits THEN legs ELSE Releases(legs)]
      /\ blocked' = (blocked \/ ~fits)
      /\ base' = [a \in Assets |-> Plus(base[a], Slot(moved(a), 0, 0))]
  BY <1>2
<1>5. q.left \in Nat /\ q.side \in {"buy", "sell"} /\ q.price \in Int /\ q.reports \in Nat
  BY <1>1 DEF OrderRecords
<1>6. \A a \in Assets, f \in Fields : Share(o, a, f) = hold(q.left, a, f)
  BY <1>1 DEF Share, Full
<1>7. price = IF q.side = "buy" THEN q.price - better ELSE q.price + better
  OBVIOUS
<1> HIDE DEF q, price
<1>8. q.left - filled \in Nat /\ q.reports + 1 \in Nat /\ "reporting" \in Phases
  BY <1>5 DEF Phases
<1>9. /\ r \in OrderRecords /\ r.phase = "reporting" /\ r.left = q.left - filled /\ r.final = final
      /\ r.side = q.side /\ r.price = q.price
  BY <1>1, <1>8 DEF OrderRecords
<1>10. legs \in Seq(Moves)
  BY <1>1, <1>2, <1>5, <1>7, ReportLegsAre
<1>11. ASSUME NEW a \in Assets, NEW f \in Fields
       PROVE  /\ Len(legs) <= 5 /\ Settling(legs)
              /\ Moving(legs, a, f) =
                   (IF final THEN 0 ELSE hold(q.left - filled, a, f)) - hold(q.left, a, f)
                   + (IF f = "available" THEN moved(a) ELSE 0)
  <2> HIDE DEF legs
  <2>1. legs = ReportLegs(q, filled, price, fee, final)
    BY DEF legs
  <2> QED BY <1>1, <1>2, <1>5, <1>7, <2>1, ReportMoves
<1>12. "underlying" \in Assets /\ "held" \in Fields /\ "incoming" \in Fields
  BY DEF Assets, Fields
<1>13. Len(legs) <= 5 /\ Settling(legs)
  BY <1>11, <1>12
<1>14. \A a \in Assets : moved(a) \in Int
  <2>1. ASSUME NEW a \in Assets PROVE moved(a) \in Int
    <3>1. filled \in Nat /\ fee \in Int /\ price \in Int
      BY <1>1, <1>5, <1>7, SetupBounds
    <3>2. Flow(q.side, filled, price, a) \in Int
      BY <1>5, <3>1, FlowIs
    <3> QED BY <3>1, <3>2
  <2> QED BY <2>1
<1> HIDE DEF moved, legs, r
<1>15. /\ base' \in [Assets -> Amounts]
       /\ \A a \in Assets, f \in Fields :
             /\ base[a][f] \in Int /\ holdings[a][f] \in Int
             /\ base'[a][f] = base[a][f] + (IF f = "available" THEN moved(a) ELSE 0)
  <2>1. base \in [Assets -> Amounts] /\ holdings \in [Assets -> Amounts]
    BY <1>1 DEF LedgerInv, SpendTypeOK
  <2>2. ASSUME NEW a \in Assets
        PROVE  /\ Plus(base[a], Slot(moved(a), 0, 0)) \in Amounts
               /\ \A f \in Fields : Plus(base[a], Slot(moved(a), 0, 0))[f]
                                      = base[a][f] + (IF f = "available" THEN moved(a) ELSE 0)
    <3> DEFINE s == Slot(moved(a), 0, 0)
    <3>1. /\ s \in Amounts /\ s["available"] = moved(a) /\ s["held"] = 0 /\ s["incoming"] = 0
      BY <1>14, SlotIs
    <3> HIDE DEF s
    <3>2. \A f \in Fields : s[f] = IF f = "available" THEN moved(a) ELSE 0
      BY <3>1 DEF Fields
    <3>3. base[a] \in Amounts
      BY <2>1
    <3>4. Plus(base[a], s) \in Amounts
      BY <3>1, <3>3, PlusIs
    <3>5. \A f \in Fields : Plus(base[a], s)[f] = base[a][f] + s[f]
      BY <3>1, <3>3, PlusAt
    <3> QED BY <3>2, <3>4, <3>5 DEF s
  <2>3. \A a \in Assets : base'[a] = Plus(base[a], Slot(moved(a), 0, 0))
    BY <1>4
  <2>4. base' \in [Assets -> Amounts]
    BY <1>4, <2>2
  <2>5. \A a \in Assets, f \in Fields : base[a][f] \in Int /\ holdings[a][f] \in Int
    BY <2>1 DEF Amounts
  <2> QED BY <2>2, <2>3, <2>4, <2>5
<1>16. \A a \in Assets, f \in Fields :
          hold(q.left, a, f) \in Int /\ hold(q.left - filled, a, f) \in Int
  BY <1>5, <1>8, HoldsIs
<1>17. ASSUME NEW do, NEW a \in Assets, NEW f \in Fields
       PROVE  ShareOf(r, do, undo[o], a, f)
                = (IF final THEN 0 ELSE hold(q.left - filled, a, f)) - Moving(do, a, f)
  BY <1>9 DEF ShareOf
<1> HIDE DEF hold
<1>18. ASSUME NEW a \in Assets, NEW f \in Fields
       PROVE  /\ ShareOf(r, legs, undo[o], a, f)
                   = Share(o, a, f) - (IF f = "available" THEN moved(a) ELSE 0)
              /\ Share(o, a, f) \in Int
  BY <1>6, <1>11, <1>14, <1>16, <1>17
<1>19. CASE fits
  <2>1. todo' = [todo EXCEPT ![o] = legs] /\ (~blocked' => ~blocked)
    BY <1>4, <1>19
  <2>2. OrderMoves(o, r, legs, undo[o])
    <3>1. Fitting(r, legs, undo[o]) /\ LegsOf(r, legs, undo[o])
      BY <1>1, <1>9, <1>10, <1>13 DEF Fitting, LegsOf
    <3> QED BY <1>1, <1>3, <1>13, <2>1, <3>1 DEF OrderMoves
  <2>3. SharesFollow(o, r, legs, undo[o])
    <3>1. holdings' \in [Assets -> Amounts] /\ (~blocked' => ~blocked)
      BY <1>1, <2>1 DEF SpendTypeOK
    <3>2. ASSUME NEW a \in Assets, NEW f \in Fields
          PROVE  holdings'[a][f] - base'[a][f] = holdings[a][f] - base[a][f]
                    + (ShareOf(r, legs, undo[o], a, f) - Share(o, a, f))
      BY <1>1, <1>14, <1>15, <1>18
    <3> QED BY <1>15, <3>1, <3>2 DEF SharesFollow
  <2>4. PositionFollows(o, r, legs, undo[o])
    <3>1. ASSUME NEW f \in {"held", "incoming"}
          PROVE  holdings'["underlying"][f] - holdings["underlying"][f]
                   >= ShareOf(r, legs, undo[o], "underlying", f) - Share(o, "underlying", f)
      <4>1. f \in Fields /\ f # "available"
        BY <1>12
      <4>2. /\ ShareOf(r, legs, undo[o], "underlying", f) = Share(o, "underlying", f) - 0
            /\ Share(o, "underlying", f) \in Int /\ holdings["underlying"][f] \in Int
        BY <1>12, <1>15, <1>18, <4>1
      <4> QED BY <1>1, <4>2
    <3>2. Confined => Within(holdings'["underlying"])
      BY <1>1, WithinIs DEF PositionInv
    <3> QED BY <3>1, <3>2 DEF PositionFollows
  <2> QED BY <2>2, <2>3, <2>4, Booked
<1>20. CASE ~fits
  <2> DEFINE do == Releases(legs)
  <2>1. todo' = [todo EXCEPT ![o] = do] /\ blocked'
    BY <1>4, <1>20
  <2>2. /\ do \in Seq(Moves) /\ Len(do) <= 5 /\ Settling(do)
        /\ \A f \in {"held", "incoming"} :
              Moving(do, "underlying", f) >= Moving(legs, "underlying", f)
    BY <1>10, <1>13, ReleasesMove
  <2> HIDE DEF do
  <2>3. OrderMoves(o, r, do, undo[o])
    <3>1. Fitting(r, do, undo[o]) /\ LegsOf(r, do, undo[o])
      BY <1>1, <1>9, <2>2 DEF Fitting, LegsOf
    <3> QED BY <1>1, <1>3, <2>1, <2>2, <3>1 DEF OrderMoves
  <2>4. ASSUME NEW f \in {"held", "incoming"}
        PROVE  ShareOf(r, do, undo[o], "underlying", f) <= Share(o, "underlying", f)
    <3>1. f \in Fields /\ f # "available"
      BY <1>12
    <3>2. /\ ShareOf(r, legs, undo[o], "underlying", f) = Share(o, "underlying", f) - 0
          /\ Share(o, "underlying", f) \in Int
      BY <1>12, <1>18, <3>1
    <3>3. /\ ShareOf(r, legs, undo[o], "underlying", f)
               = (IF final THEN 0 ELSE hold(q.left - filled, "underlying", f))
                   - Moving(legs, "underlying", f)
          /\ ShareOf(r, do, undo[o], "underlying", f)
               = (IF final THEN 0 ELSE hold(q.left - filled, "underlying", f))
                   - Moving(do, "underlying", f)
      BY <1>12, <1>17, <3>1
    <3>4. /\ Moving(do, "underlying", f) \in Int /\ Moving(legs, "underlying", f) \in Int
          /\ hold(q.left - filled, "underlying", f) \in Int
          /\ Moving(do, "underlying", f) >= Moving(legs, "underlying", f)
      BY <1>10, <1>12, <1>16, <2>2, <3>1, MovingIs
    <3> QED BY <3>2, <3>3, <3>4
  <2> QED BY <1>1, <1>15, <2>1, <2>3, <2>4, Overflown
<1> QED BY <1>19, <1>20

\* a leg of a report,
LEMMA ReportLegBooks ==
  ASSUME BooksInv, setup' = setup, NEW o \in Orders, ReportLeg(o)
  PROVE  LedgerInv' /\ PositionInv'
<1> DEFINE q == orders[o]
           s == todo[o]
           t == undo[o]
           m == Head(s)
           b == m.asset
           d == m.delta
           new == Plus(holdings[b], d)
           rest == Tail(s)
           last == IF m.part = "release" THEN <<>> ELSE Releases(s)
<1>1. /\ SpendInv /\ LedgerInv /\ PositionInv /\ SpendTypeOK
      /\ orders' = orders /\ undo' = undo /\ batches' = batches /\ base' = base
      /\ q \in OrderRecords /\ q.phase = "reporting"
      /\ s \in Seq(Moves) /\ s # <<>> /\ t \in Seq(Holds)
  BY OrderFacts DEF BooksInv, SpendInv, ReportLeg
<1>2. orders' = [orders EXCEPT ![o] = q] /\ undo' = [undo EXCEPT ![o] = t]
  BY <1>1 DEF SpendTypeOK
<1>3. \/ /\ holdings' = [holdings EXCEPT ![b] = new] /\ todo' = [todo EXCEPT ![o] = rest]
         /\ blocked' = blocked
      \/ /\ holdings' = holdings /\ todo' = [todo EXCEPT ![o] = last] /\ blocked'
  BY <1>1 DEF ReportLeg, SpendTypeOK
<1>4. Len(s) <= 5 /\ Settling(s)
  BY <1>1 DEF LedgerInv, LegsInv, PositionInv, Settling
<1>5. \A a, f : Share(o, a, f) = ShareOf(q, s, t, a, f)
  BY OfOrders
<1> HIDE DEF q, s, t
<1>6. m \in Moves /\ rest \in Seq(Moves) /\ b \in Assets /\ d \in Amounts
  <2>1. m \in Moves /\ rest \in Seq(Moves)
    BY <1>1, FirstAndRest
  <2> HIDE DEF m
  <2>2. m.asset \in Assets /\ m.delta \in Amounts
    BY <2>1 DEF Moves
  <2> QED BY <2>1, <2>2
<1> DEFINE left(a, f) == IF q.final THEN 0 ELSE HoldDelta(Reserved(q.side, q.left, q.price, a))[f]
<1>7. ASSUME NEW do, NEW a \in Assets, NEW f \in Fields
      PROVE  /\ ShareOf(q, do, t, a, f) = left(a, f) - Moving(do, a, f)
             /\ left(a, f) \in Int
  <2>1. q.left \in Nat /\ q.side \in {"buy", "sell"} /\ q.price \in Int
    BY <1>1 DEF OrderRecords
  <2>2. HoldDelta(Reserved(q.side, q.left, q.price, a))[f] \in Int
    BY <2>1, HoldsIs
  <2> QED BY <1>1, <2>2 DEF ShareOf
<1> HIDE DEF left
<1>8. CASE /\ holdings' = [holdings EXCEPT ![b] = new] /\ todo' = [todo EXCEPT ![o] = rest]
           /\ blocked' = blocked
  <2>1. Len(rest) <= 5
    <3>1. Len(rest) = Len(s) - 1 /\ Len(s) \in Nat
      BY <1>1
    <3>2. ASSUME NEW x \in Nat, x <= 5 PROVE x - 1 <= 5
      BY ONLY <3>2
    <3> QED BY ONLY <1>4, <3>1, <3>2
  <2>2. Settling(rest)
    <3>1. /\ DOMAIN rest = 1 .. Len(s) - 1 /\ Len(s) \in Nat /\ DOMAIN s = 1 .. Len(s)
          /\ \A k \in 1 .. Len(s) - 1 : rest[k] = s[k + 1]
      BY <1>1
    <3> HIDE DEF rest
    <3>2. ASSUME NEW k \in DOMAIN rest PROVE k + 1 \in DOMAIN s /\ rest[k] = s[k + 1]
      BY <3>1
    <3> QED BY <1>4, <3>2 DEF Settling
  <2>3. Fitting(q, rest, t) /\ LegsOf(q, rest, t)
    BY <1>1, <1>6, <2>1 DEF Fitting, LegsOf
  <2>4. OrderMoves(o, q, rest, t)
    BY <1>1, <1>2, <1>8, <2>2, <2>3 DEF OrderMoves
  <2>5. ASSUME NEW a \in Assets, NEW f \in Fields
        PROVE  ShareOf(q, rest, t, a, f) = Share(o, a, f) + (IF a = b THEN d[f] ELSE 0)
    <3>1. Moving(s, a, f) = Moving(rest, a, f) + (IF b = a THEN d[f] ELSE 0)
      BY <1>1, <1>4, MovingTail
    <3>2. Moving(rest, a, f) \in Int /\ d[f] \in Int
      BY <1>6, MovingIs DEF Amounts
    <3>3. /\ ShareOf(q, rest, t, a, f) = left(a, f) - Moving(rest, a, f)
          /\ Share(o, a, f) = left(a, f) - Moving(s, a, f) /\ left(a, f) \in Int
      BY <1>5, <1>7
    <3> HIDE DEF b, d, rest
    <3> QED BY <3>1, <3>2, <3>3
  <2>6. ASSUME Confined, b = "underlying" PROVE KeptWithin(holdings["underlying"], d)
    <3>1. /\ holdings["underlying"] \in Amounts /\ Within(holdings["underlying"])
          /\ PositionLimit \in Nat
      BY <1>1, <1>6, <2>6, KeptLimit, WithinIs DEF SpendTypeOK, PositionInv
    <3>2. Settles(d)
      <4>1. 1 \in DOMAIN s /\ m = s[1]
        BY <1>1
      <4> QED BY <1>4, <2>6, <4>1 DEF Settling
    <3> HIDE DEF d
    <3> QED BY <1>6, <3>1, <3>2, SettledKept
  <2> HIDE DEF b, d, rest
  <2>7. Shifts(o, q, rest, t, b, d)
    BY <1>1, <1>8, <2>5, <2>6 DEF Shifts
  <2> QED BY <1>6, <2>4, <2>7, ShareMoves
<1>9. CASE holdings' = holdings /\ todo' = [todo EXCEPT ![o] = last] /\ blocked'
  <2>1. /\ last \in Seq(Moves) /\ Len(last) <= 5 /\ Settling(last)
        /\ \A f \in {"held", "incoming"} :
              Moving(last, "underlying", f) >= Moving(s, "underlying", f)
    <3>1. CASE m.part = "release"
      <4>1. last = <<>> /\ <<>> \in Seq(Moves) /\ Len(<<>>) <= 5
        BY <3>1
      <4>2. Settling(<<>>)
        BY DEF Settling
      <4>3. ASSUME NEW f \in {"held", "incoming"}
            PROVE  Moving(<<>>, "underlying", f) >= Moving(s, "underlying", f)
        <5>1. Moving(<<>>, "underlying", f) = 0
          BY MovingNothing
        <5>2. Moving(s, "underlying", f) <= 0
          BY <1>1, <1>4, SettlingTakes
        <5>3. Moving(s, "underlying", f) \in Int
          BY <1>1, MovingIs DEF Assets, Fields
        <5> QED BY <5>1, <5>2, <5>3
      <4> HIDE DEF last
      <4> QED BY <4>1, <4>2, <4>3
    <3>2. CASE m.part # "release"
      <4>1. last = Releases(s)
        BY <3>2
      <4> HIDE DEF last
      <4> QED BY <1>1, <1>4, <4>1, ReleasesMove
    <3> QED BY <3>1, <3>2
  <2> HIDE DEF last
  <2>2. Fitting(q, last, t) /\ LegsOf(q, last, t)
    BY <1>1, <2>1 DEF Fitting, LegsOf
  <2>3. OrderMoves(o, q, last, t)
    BY <1>1, <1>2, <1>9, <2>1, <2>2 DEF OrderMoves
  <2>4. ASSUME NEW f \in {"held", "incoming"}
        PROVE  ShareOf(q, last, t, "underlying", f) <= Share(o, "underlying", f)
    <3>1. f \in Fields /\ "underlying" \in Assets
      BY DEF Fields, Assets
    <3>2. /\ ShareOf(q, last, t, "underlying", f) = left("underlying", f) - Moving(last, "underlying", f)
          /\ Share(o, "underlying", f) = left("underlying", f) - Moving(s, "underlying", f)
          /\ left("underlying", f) \in Int
      BY <1>5, <1>7, <3>1
    <3>3. /\ Moving(last, "underlying", f) \in Int /\ Moving(s, "underlying", f) \in Int
          /\ Moving(last, "underlying", f) >= Moving(s, "underlying", f)
      BY <1>1, <2>1, <3>1, MovingIs
    <3> QED BY <3>2, <3>3
  <2>5. base' \in [Assets -> Amounts]
    BY <1>1 DEF LedgerInv
  <2> QED BY <1>9, <2>3, <2>4, <2>5, Overflown
<1> QED BY <1>3, <1>8, <1>9

\* A step of a batch: the orders stay, and what it books is what it moved.
BatchMoves ==
    /\ setup' = setup /\ UNCHANGED <<orders, todo, undo>> /\ ~Confined
    /\ holdings' \in [Assets -> Amounts] /\ base' \in [Assets -> Amounts]
    /\ ~blocked' => /\ ~blocked
                    /\ \A a \in Assets, f \in Fields :
                          holdings'[a][f] - base'[a][f] = holdings[a][f] - base[a][f]

LEMMA BatchBooks ==
  ASSUME BooksInv, BatchMoves
  PROVE  LedgerInv' /\ PositionInv'
<1> USE DEF BatchMoves
<1>1. SpendInv /\ LedgerInv /\ PositionInv
  BY DEF BooksInv
<1>2. \A a, f : Shares(a, f)' = Shares(a, f)
  BY DEF Shares, Share, Full
<1>3. LegsInv'
  <2>1. LegsInv
    BY <1>1 DEF LedgerInv
  <2> QED BY <2>1 DEF LegsInv, Full
<1>4. ASSUME ~blocked', NEW a \in Assets, NEW f \in Fields
      PROVE  holdings'[a][f] = base'[a][f] + Shares(a, f)'
  <2>1. holdings[a][f] = base[a][f] + Shares(a, f)
    BY <1>1, <1>4 DEF LedgerInv, Balanced
  <2>2. /\ holdings[a][f] \in Int /\ base[a][f] \in Int
        /\ holdings'[a][f] \in Int /\ base'[a][f] \in Int
    BY <1>1 DEF SpendInv, SpendTypeOK, LedgerInv, Amounts
  <2>3. holdings'[a][f] - base'[a][f] = holdings[a][f] - base[a][f]
    BY <1>4
  <2>4. Shares(a, f) \in Int
    <3> DEFINE g == [p \in Orders |-> Share(p, a, f)]
    <3>1. \A p \in Orders : g[p] \in Int
      <4>1. ASSUME NEW p \in Orders PROVE Share(p, a, f) \in Int
        <5>1. Fitting(orders[p], todo[p], undo[p])
          BY <1>1, OrderFacts DEF Fitting
        <5> QED BY <5>1, ShareOfIs, OfOrders
      <4> QED BY <4>1
    <3>2. IsFiniteSet(Orders)
      BY BoundsAssumption
    <3>3. Shares(a, f) = SumFunctionOnSet(g, Orders)
      BY DEF Shares
    <3> HIDE DEF g
    <3> QED BY <3>1, <3>2, <3>3, SumSplit
  <2> DEFINE x == holdings[a][f]
             y == base[a][f]
             X == holdings'[a][f]
             Y == base'[a][f]
             S == Shares(a, f)
  <2>5. /\ x \in Int /\ y \in Int /\ X \in Int /\ Y \in Int /\ S \in Int
        /\ x = y + S /\ X - Y = x - y
    BY <2>1, <2>2, <2>3, <2>4
  <2> HIDE DEF x, y, X, Y, S
  <2>6. X = Y + S
    BY ONLY <2>5
  <2> QED BY <1>2, <2>6 DEF X, Y, S
<1>5. LedgerInv'
  BY <1>3, <1>4 DEF LedgerInv, Balanced
<1>6. PositionInv'
  <2>1. ~Confined'
    BY DEF Confined, PositionLimit, AdjustRequests
  <2> QED BY <1>1, <2>1 DEF PositionInv
<1> QED BY <1>5, <1>6

\* an adjustment, which moves the base with the slot,
LEMMA AdjustBooks ==
  ASSUME BooksInv, setup' = setup, NEW b \in Adjusters, Adjust(b)
  PROVE  LedgerInv' /\ PositionInv'
<1> DEFINE New(a, request) == [f \in Fields |-> Adjusted(request[f], holdings[a][f])]
           Delta(a, request) == Minus(New(a, request), holdings[a])
<1>1. /\ SpendInv /\ LedgerInv /\ SpendTypeOK /\ UNCHANGED <<orders, todo, undo>>
      /\ ~blocked' => ~blocked
  BY DEF BooksInv, SpendInv, Adjust
<1>2. PICK a \in Assets, request \in AdjustRequests :
         /\ InRange(New(a, request)) /\ InRange(Delta(a, request))
         /\ holdings' = [holdings EXCEPT ![a] = New(a, request)]
         /\ base' = [base EXCEPT ![a] = Plus(@, Delta(a, request))]
  BY Zenon DEF Adjust
<1> DEFINE new == New(a, request)
           delta == Delta(a, request)
<1>3. ~Confined
  BY <1>2 DEF Confined
<1>4. new = [f \in Fields |-> new[f]] /\ delta = Minus(new, holdings[a])
  OBVIOUS
<1>5. InRange(new) /\ InRange(delta) /\ holdings' = [holdings EXCEPT ![a] = new]
      /\ base' = [base EXCEPT ![a] = Plus(base[a], delta)]
  BY <1>2
<1> HIDE DEF new, delta
<1>6. -MaxAmount .. MaxAmount \subseteq Int
  BY <1>1, SetupBounds
<1>7. new \in Amounts
  BY <1>4, <1>5, <1>6 DEF InRange, Amounts
<1>8. holdings \in [Assets -> Amounts] /\ base \in [Assets -> Amounts]
      /\ holdings[a] \in Amounts /\ base[a] \in Amounts
  BY <1>1 DEF SpendTypeOK, LedgerInv
<1>9. delta \in Amounts
  BY <1>4, <1>7, <1>8, PlusIs
<1>10. Plus(base[a], delta) \in Amounts
  BY <1>8, <1>9, PlusIs
<1>11. \A f \in Fields : /\ Plus(base[a], delta)[f] = base[a][f] + delta[f]
                         /\ delta[f] = new[f] - holdings[a][f] /\ new[f] \in Int
                         /\ holdings[a][f] \in Int /\ base[a][f] \in Int
  BY <1>4, <1>7, <1>8, <1>9, PlusAt
<1>12. holdings' \in [Assets -> Amounts] /\ base' \in [Assets -> Amounts]
  BY <1>5, <1>7, <1>8, <1>10
<1>13. ASSUME NEW c \in Assets, NEW f \in Fields
       PROVE  holdings'[c][f] - base'[c][f] = holdings[c][f] - base[c][f]
  <2>1. CASE c = a
    <3>1. holdings'[c] = new /\ base'[c] = Plus(base[a], delta)
      BY <1>5, <1>8, <2>1
    <3>2. base'[c][f] = base[a][f] + (new[f] - holdings[a][f])
      BY <1>11, <3>1
    <3> QED BY <1>11, <2>1, <3>1, <3>2
  <2>2. CASE c # a
    BY <1>5, <1>8, <2>2
  <2> QED BY <2>1, <2>2
<1>14. BatchMoves
  BY <1>1, <1>3, <1>12, <1>13 DEF BatchMoves
<1> QED BY <1>14, BatchBooks

LEMMA AppliedUnconfined ==
  ASSUME PositionInv, NEW b \in Adjusters, batches[b].phase = "applied"
  PROVE  ~Confined
BY DEF PositionInv

\* its commit,
LEMMA AdjustCommitBooks ==
  ASSUME BooksInv, setup' = setup, NEW b \in Adjusters, AdjustCommit(b)
  PROVE  LedgerInv' /\ PositionInv'
<1>1. /\ holdings' = holdings /\ base' = base /\ UNCHANGED <<orders, todo, undo>> /\ ~Confined
      /\ (~blocked' => ~blocked) /\ holdings \in [Assets -> Amounts] /\ base \in [Assets -> Amounts]
  BY AppliedUnconfined DEF BooksInv, AdjustCommit, SpendInv, SpendTypeOK, LedgerInv
<1>2. BatchMoves
  BY <1>1 DEF BatchMoves
<1> QED BY <1>2, BatchBooks

\* and its rollback by the inverse delta.
LEMMA AdjustRollbackBooks ==
  ASSUME BooksInv, setup' = setup, NEW b \in Adjusters, AdjustRollback(b)
  PROVE  LedgerInv' /\ PositionInv'
<1> DEFINE a == batches[b].asset
           d == batches[b].delta
           new == Minus(holdings[a], d)
<1>1. /\ SpendInv /\ LedgerInv /\ SpendTypeOK /\ UNCHANGED <<orders, todo, undo>> /\ ~Confined
  BY AppliedUnconfined DEF BooksInv, SpendInv, AdjustRollback
<1>2. a \in Assets /\ d \in Amounts
  BY <1>1 DEF SpendTypeOK
<1>3. /\ holdings' = IF InRange(new) THEN [holdings EXCEPT ![a] = new] ELSE holdings
      /\ blocked' = (blocked \/ ~InRange(new))
      /\ base' = [base EXCEPT ![a] = Minus(base[a], d)]
  BY <1>1 DEF AdjustRollback, LedgerInv
<1> HIDE DEF a, d
<1>4. /\ holdings \in [Assets -> Amounts] /\ base \in [Assets -> Amounts]
      /\ holdings[a] \in Amounts /\ base[a] \in Amounts
  BY <1>1, <1>2 DEF SpendTypeOK, LedgerInv
<1>5. new \in Amounts /\ Minus(base[a], d) \in Amounts
  <2>1. \A h \in Amounts : Minus(h, d) \in Amounts
    BY <1>2, PlusIs
  <2> QED BY <1>4, <2>1
<1>6. \A f \in Fields : /\ Minus(base[a], d)[f] = base[a][f] - d[f]
                        /\ new[f] = holdings[a][f] - d[f] /\ d[f] \in Int
                        /\ holdings[a][f] \in Int /\ base[a][f] \in Int
  <2>1. \A h \in Amounts, f \in Fields : Minus(h, d)[f] = h[f] - d[f] /\ h[f] \in Int /\ d[f] \in Int
    BY <1>2, PlusAt
  <2> QED BY <1>4, <2>1
<1> HIDE DEF new
<1>7. holdings' \in [Assets -> Amounts] /\ base' \in [Assets -> Amounts]
  <2>1. base' \in [Assets -> Amounts]
    BY <1>3, <1>4, <1>5
  <2>2. holdings' \in [Assets -> Amounts]
    BY <1>3, <1>4, <1>5
  <2> QED BY <2>1, <2>2
<1>8. ASSUME ~blocked', NEW c \in Assets, NEW f \in Fields
      PROVE  holdings'[c][f] - base'[c][f] = holdings[c][f] - base[c][f]
  <2>0. holdings' = [holdings EXCEPT ![a] = new]
    BY <1>3, <1>8
  <2>1. CASE c = a
    <3>1. holdings'[c] = new /\ base'[c] = Minus(base[a], d)
      BY <1>2, <1>3, <1>4, <2>0, <2>1
    <3> QED BY <1>6, <2>1, <3>1
  <2>2. CASE c # a
    BY <1>3, <1>4, <2>0, <2>2
  <2> QED BY <2>1, <2>2
<1>9. ~blocked' => ~blocked
  BY <1>3
<1>10. BatchMoves
  BY <1>1, <1>7, <1>8, <1>9 DEF BatchMoves
<1> QED BY <1>10, BatchBooks

LEMMA BooksInit ==
  ASSUME Init
  PROVE  BooksInv
<1>1. SpendInv /\ setup \in Setups /\ setup.funds \in Nat
  BY SpendInit, BoundsAssumption DEF Init
<1> DEFINE x == setup.funds
<1>2. x \in Int /\ x >= 0 /\ 0 \in Int
  BY <1>1
<1> HIDE DEF x
<1>3. /\ Slot(x, 0, 0) \in Amounts /\ Slot(x, 0, 0)["available"] = x
      /\ Slot(x, 0, 0)["held"] = 0 /\ Slot(x, 0, 0)["incoming"] = 0
  BY <1>2, SlotIs
<1>4. /\ \A a \in Assets : holdings[a] = Slot(x, 0, 0)
      /\ base = holdings /\ holdings \in [Assets -> Amounts]
  <2>1. holdings = [a \in Assets |-> Slot(x, 0, 0)] /\ base = holdings
    BY DEF Init, x
  <2> QED BY <1>3, <2>1
<1>5. \A o \in Orders : orders[o].phase = "new" /\ undo[o] = <<>>
  BY DEF Init, NewOrder
<1>6. LegsInv
  BY <1>5 DEF LegsInv
<1>7. \A a \in Assets, f \in Fields : Shares(a, f) = 0
  <2>1. ASSUME NEW a \in Assets, NEW f \in Fields PROVE Shares(a, f) = 0
    <3> DEFINE g == [p \in Orders |-> Share(p, a, f)]
    <3>1. \A p \in Orders : g[p] = 0
      BY <1>5 DEF Share
    <3>2. IsFiniteSet(Orders)
      BY BoundsAssumption
    <3>3. Shares(a, f) = SumFunctionOnSet(g, Orders)
      BY DEF Shares
    <3> HIDE DEF g
    <3>4. SumFunctionOnSet(g, Orders) = 0
      BY ONLY <3>1, <3>2, SumOfNothing
    <3> QED BY <3>3, <3>4
  <2> QED BY <2>1
<1>8. Balanced
  <2>1. \A a \in Assets, f \in Fields : base[a][f] \in Int
    BY <1>4 DEF Amounts
  <2> QED BY <1>4, <1>7, <2>1 DEF Balanced
<1>9. LedgerInv
  BY <1>4, <1>6, <1>8 DEF LedgerInv
<1>10. PositionInv
  <2>1. \A o \in Orders : orders[o].phase # "reporting"
    BY <1>5
  <2>2. "underlying" \in Assets /\ "held" \in Fields /\ "incoming" \in Fields
    BY DEF Assets, Fields
  <2>3. ASSUME Confined PROVE Within(holdings["underlying"])
    <3>1. PositionLimit \in Nat /\ x <= PositionLimit
      BY <1>1, <2>3, KeptLimit DEF Confined, x
    <3>2. non_negative(0) = 0
      BY NonNegative
    <3> QED BY <1>2, <1>3, <1>4, <2>2, <3>1, <3>2 DEF Within
  <2>4. \A f \in {"held", "incoming"} : holdings["underlying"][f] >= Shares("underlying", f)
    BY <1>3, <1>4, <1>7, <2>2
  <2>5. \A b \in Adjusters : batches[b].phase = "idle"
    BY DEF Init, IdleBatch
  <2> QED BY <2>1, <2>3, <2>4, <2>5, WithinIs DEF PositionInv
<1> QED BY <1>1, <1>9, <1>10 DEF BooksInv

LEMMA BooksStep ==
  ASSUME BooksInv, [Next]_vars
  PROVE  BooksInv'
<1>1. SpendInv'
  BY SpendStep DEF BooksInv
<1>2. LedgerInv' /\ PositionInv'
  <2>1. CASE UNCHANGED vars
    <3>1. UNCHANGED <<setup, holdings, orders, todo, undo, batches, blocked, base>>
      BY <2>1 DEF vars
    <3>2. LedgerInv'
      <4>1. \A a, f : Shares(a, f)' = Shares(a, f)
        BY <3>1 DEF Shares, Share, Full
      <4>2. LegsInv'
        BY <3>1 DEF BooksInv, LedgerInv, LegsInv, Full
      <4> QED BY <3>1, <4>1, <4>2 DEF BooksInv, LedgerInv, Balanced
    <3>3. PositionInv'
      <4>1. \A a, f : Shares(a, f)' = Shares(a, f)
        BY <3>1 DEF Shares, Share, Full
      <4> QED BY <3>1, <4>1 DEF BooksInv, PositionInv, PositionWithinLimit, Confined,
                               PositionLimit, AdjustRequests
    <3> QED BY <3>2, <3>3
  <2>2. CASE Next
    <3>1. setup' = setup /\ setup.orders \subseteq Orders
      BY <2>2, SetupBounds DEF Next, BooksInv, SpendInv
    <3>2. ASSUME NEW o \in setup.orders,
                 \/ Reserve(o) \/ ReserveLeg(o) \/ Commit(o) \/ RollbackLeg(o)
                 \/ Report(o) \/ ReportLeg(o) \/ ReportDone(o)
          PROVE  LedgerInv' /\ PositionInv'
      BY <3>1, <3>2, ReserveBooks, ReserveLegBooks, CommitBooks, RollbackLegBooks,
         ReportBooks, ReportLegBooks, ReportDoneBooks
    <3>3. ASSUME NEW b \in Adjusters, Adjust(b) \/ AdjustCommit(b) \/ AdjustRollback(b)
          PROVE  LedgerInv' /\ PositionInv'
      BY <3>1, <3>3, AdjustBooks, AdjustCommitBooks, AdjustRollbackBooks
    <3> QED BY <2>2, <3>2, <3>3 DEF Next, Steps
  <2> QED BY <2>1, <2>2
<1> QED BY <1>1, <1>2 DEF BooksInv

\* Between operations the shares are the reservations of the open orders.
LEMMA QuietBooks ==
  ASSUME BooksInv
  PROVE  BooksBalance
<1> SUFFICES ASSUME Quiet, ~blocked, NEW a \in Assets
             PROVE  holdings[a] = Plus(base[a], ReservedIn(a))
  BY DEF BooksBalance
<1>1. SpendInv /\ LedgerInv /\ holdings[a] \in Amounts /\ base[a] \in Amounts
  BY DEF BooksInv, SpendInv, SpendTypeOK, LedgerInv
<1>2. ASSUME NEW f \in Fields PROVE holdings[a][f] = base[a][f] + ReservedIn(a)[f]
  <2> DEFINE g == [p \in Orders |-> Share(p, a, f)]
             h == [p \in Orders |-> IF orders[p].phase = "open" THEN Full(p, a, f) ELSE 0]
  <2>1. ASSUME NEW p \in Orders PROVE g[p] \in Int /\ h[p] = g[p]
    <3>1. Fitting(orders[p], todo[p], undo[p])
      BY <1>1, OrderFacts DEF Fitting
    <3>2. Share(p, a, f) \in Int
      BY <3>1, ShareOfIs, OfOrders
    <3>3. orders[p].phase \in {"new", "open", "closed"}
      BY DEF Quiet
    <3> QED BY <3>2, <3>3 DEF Share
  <2>2. IsFiniteSet(Orders) /\ DOMAIN h = Orders
    BY BoundsAssumption
  <2>3. ReservedIn(a)[f] = SumFunction(h) /\ SumFunction(h) = SumFunctionOnSet(h, DOMAIN h)
    BY <1>2 DEF ReservedIn, SumFunction
  <2>4. Shares(a, f) = SumFunctionOnSet(g, Orders)
    BY DEF Shares
  <2> HIDE DEF g, h
  <2>5. SumFunctionOnSet(h, Orders) = SumFunctionOnSet(g, Orders)
    BY <2>1, <2>2, SumSame
  <2>6. holdings[a][f] = base[a][f] + Shares(a, f)
    BY <1>1 DEF LedgerInv, Balanced
  <2> QED BY <2>2, <2>3, <2>4, <2>5, <2>6
<1>3. holdings[a] = [f \in Fields |-> holdings[a][f]]
  BY <1>1 DEF Amounts
<1>4. Plus(base[a], ReservedIn(a)) = [f \in Fields |-> base[a][f] + ReservedIn(a)[f]]
  BY DEF Plus
<1> QED BY <1>2, <1>3, <1>4

\* The books balance (rollback.rs:298-368, execution.rs:1159-1294), for any
\* number of orders and batches and any interleaving of their legs: between
\* operations every slot is what adjustments, trades and fees have moved plus
\* exactly the reservations of the open orders, unless an overflow has blocked
\* the account.
THEOREM BooksAlwaysBalance == Spec => []BooksBalance
BY BooksInit, BooksStep, QuietBooks, PTL DEF Spec

\* The position limit (position_limit.rs:91-154), for any number of orders:
\* where nothing but the orders moves a position that began within the limit,
\* it stays within however reservations, fills, cancels and rollbacks
\* interleave, even if every open order of one direction trades.
THEOREM PositionsStayWithin == Spec => []PositionWithinLimit
<1>1. BooksInv => PositionWithinLimit
  BY DEF BooksInv, PositionInv, PositionWithinLimit
<1> QED BY <1>1, BooksInit, BooksStep, PTL DEF Spec

-----------------------------------------------------------------------------
(* The asynchronous handle.                                                *)

(* The initial state satisfies the invariant (newAsyncReservation).        *)
LEMMA InitIInv == HandleInit => IInv
<1> SUFFICES ASSUME HandleInit PROVE IInv
    OBVIOUS
<1>1. TypeOK
    BY DEF HandleInit, TypeOK
<1>2. OwnerInv
    BY AsyncHandleAssumption DEF HandleInit, OwnerInv, Busy, InsideLock
<1>3. ReadersInv /\ OpenInv /\ NativeInv
    BY DEF HandleInit, ReadersInv, OpenInv, NativeInv, InsideLock
<1> QED
    BY <1>1, <1>2, <1>3 DEF IInv

(* The types are kept by every section and native access.                  *)
LEMMA TypeStep == TypeOK /\ [HandleNext]_handleVars => TypeOK'
<1> SUFFICES ASSUME TypeOK, [HandleNext]_handleVars PROVE TypeOK'
    OBVIOUS
<1> USE DEF TypeOK
<1>1. ASSUME NEW f \in Finalizers, Finalizes(f) PROVE TypeOK'
  <2>1. CASE LockLifecycle(f)
      BY <2>1 DEF LockLifecycle, life, native
  <2>2. CASE Announce(f)
      BY <2>2 DEF Announce, native
  <2>3. CASE ReadersGone(f)
      BY <2>3 DEF ReadersGone, life, native
  <2>4. CASE Resolve(f)
      BY <2>4 DEF Resolve, life, native
  <2>5. CASE Native(f)
      BY <2>5 DEF Native, life
  <2>6. CASE Close(f)
    <3>1. CASE op[f].closes /\ open
      <4>1. natives' \in Nat
        <5>1. natives' = IF resolved THEN natives ELSE natives + 1
            BY <2>6, <3>1 DEF Close
        <5> QED
            BY <5>1
      <4>2. open' \in BOOLEAN /\ resolved' \in BOOLEAN
          BY <2>6, <3>1 DEF Close
      <4> QED
          BY <2>6, <4>1, <4>2 DEF Close, life
    <3>2. CASE ~(op[f].closes /\ open)
        BY <2>6, <3>2 DEF Close, native, life
    <3> QED
        BY <3>1, <3>2
  <2>7. CASE Finish(f)
    <3>1. closed' \in BOOLEAN /\ state' \in {"open", "finalizing", "closed"}
        BY <2>7 DEF Finish
    <3> QED
        BY <2>7, <3>1 DEF Finish, native
  <2> QED
      BY <1>1, <2>1, <2>2, <2>3, <2>4, <2>5, <2>6, <2>7 DEF Finalizes
<1>2. ASSUME NEW r \in Readers, BeginRead(r) PROVE TypeOK'
    BY <1>2 DEF BeginRead, native, finals
<1>3. ASSUME NEW r \in Readers, EndRead(r) PROVE TypeOK'
    BY <1>3 DEF EndRead, native, finals
<1>4. CASE UNCHANGED handleVars
    BY <1>4 DEF handleVars
<1> QED
    BY <1>1, <1>2, <1>3, <1>4 DEF HandleNext

(* lifecycleMu has one owner, the finalizer at work (reservation.go:70).   *)
LEMMA OwnerStep == IInv /\ [HandleNext]_handleVars => OwnerInv'
<1> SUFFICES ASSUME IInv, [HandleNext]_handleVars PROVE OwnerInv'
    OBVIOUS
<1> USE AsyncHandleAssumption DEF IInv, TypeOK, OwnerInv, Busy, InsideLock
<1>1. ASSUME NEW f \in Finalizers, Finalizes(f) PROVE OwnerInv'
  <2>1. CASE LockLifecycle(f)
      BY <2>1 DEF LockLifecycle
  <2>2. CASE Announce(f)
      BY <2>2 DEF Announce
  <2>3. CASE ReadersGone(f)
      BY <2>3 DEF ReadersGone
  <2>4. CASE Resolve(f)
      BY <2>4 DEF Resolve
  <2>5. CASE Native(f)
      BY <2>5 DEF Native
  <2>6. CASE Close(f)
      BY <2>6 DEF Close
  <2>7. CASE Finish(f)
      BY <2>7 DEF Finish
  <2> QED
      BY <1>1, <2>1, <2>2, <2>3, <2>4, <2>5, <2>6, <2>7 DEF Finalizes
<1>2. ASSUME NEW r \in Readers, BeginRead(r) PROVE OwnerInv'
    BY <1>2 DEF BeginRead, finals
<1>3. ASSUME NEW r \in Readers, EndRead(r) PROVE OwnerInv'
    BY <1>3 DEF EndRead, finals
<1>4. CASE UNCHANGED handleVars
    BY <1>4 DEF handleVars
<1> QED
    BY <1>1, <1>2, <1>3, <1>4 DEF HandleNext

(* Two finalizers are not at work at once.                                 *)
LEMMA OneOwner ==
    ASSUME IInv, NEW f \in Finalizers, NEW g \in Finalizers,
           pc[f] \in Busy, pc[g] \in Busy
    PROVE  f = g
BY DEF IInv, OwnerInv

(* Readers are counted, refused and awaited as they should be              *)
(* (reservation.go:69-83, 110-143).                                        *)
LEMMA ReadersStep == IInv /\ [HandleNext]_handleVars => ReadersInv'
<1> SUFFICES ASSUME IInv, [HandleNext]_handleVars PROVE ReadersInv'
    OBVIOUS
<1> USE DEF IInv, TypeOK, ReadersInv, InsideLock
<1>1. ASSUME NEW f \in Finalizers, Finalizes(f) PROVE ReadersInv'
  <2>1. CASE LockLifecycle(f)
      BY <2>1 DEF LockLifecycle, life
  <2>2. CASE Announce(f)
      BY <2>2 DEF Announce
  <2>3. CASE ReadersGone(f)
      BY <2>3 DEF ReadersGone, life
  <2>4. CASE Resolve(f)
      BY <2>4 DEF Resolve, life
  <2>5. CASE Native(f)
      BY <2>5 DEF Native, life
  <2>6. CASE Close(f)
      BY <2>6 DEF Close, life
  <2>7. CASE Finish(f)
    <3>1. \A g \in Finalizers : pc'[g] \notin {"wait"} \cup InsideLock
        BY <2>7, OneOwner DEF Finish, Busy
    <3> QED
        BY <2>7, <3>1 DEF Finish
  <2> QED
      BY <1>1, <2>1, <2>2, <2>3, <2>4, <2>5, <2>6, <2>7 DEF Finalizes
<1>2. ASSUME NEW r \in Readers, BeginRead(r) PROVE ReadersInv'
    BY <1>2 DEF BeginRead, finals
<1>3. ASSUME NEW r \in Readers, EndRead(r) PROVE ReadersInv'
    BY <1>3 DEF EndRead, finals
<1>4. CASE UNCHANGED handleVars
    BY <1>4 DEF handleVars
<1> QED
    BY <1>1, <1>2, <1>3, <1>4 DEF HandleNext

(* A destroyed object stays closed to reads (reservation.go:85, 111).      *)
LEMMA OpenStep == IInv /\ [HandleNext]_handleVars => OpenInv'
<1> SUFFICES ASSUME IInv, [HandleNext]_handleVars PROVE OpenInv'
    OBVIOUS
<1> USE DEF IInv, TypeOK, OpenInv
<1>1. ASSUME NEW f \in Finalizers, Finalizes(f) PROVE OpenInv'
  <2>1. CASE LockLifecycle(f)
      BY <2>1 DEF LockLifecycle, life, native
  <2>2. CASE Announce(f)
      BY <2>2 DEF Announce, native
  <2>3. CASE ReadersGone(f)
      BY <2>3 DEF ReadersGone, life, native
  <2>4. CASE Resolve(f)
      BY <2>4 DEF Resolve, life, native
  <2>5. CASE Native(f)
      BY <2>5 DEF Native, life
  <2>6. CASE Close(f)
    <3>1. readers = {}
        BY <2>6 DEF Close, ReadersInv, InsideLock
    <3> QED
        BY <2>6, <3>1 DEF Close, life, native
  <2>7. CASE Finish(f)
    <3>1. \A g \in Finalizers : pc[g] = "finish" => g = f
        BY <2>7, OneOwner DEF Finish, Busy, InsideLock
    <3> QED
        BY <2>7, <3>1 DEF Finish, native
  <2> QED
      BY <1>1, <2>1, <2>2, <2>3, <2>4, <2>5, <2>6, <2>7 DEF Finalizes
<1>2. ASSUME NEW r \in Readers, BeginRead(r) PROVE OpenInv'
    BY <1>2 DEF BeginRead, native, finals, ReadersInv, InsideLock
<1>3. ASSUME NEW r \in Readers, EndRead(r) PROVE OpenInv'
    BY <1>3 DEF EndRead, native, finals
<1>4. CASE UNCHANGED handleVars
    BY <1>4 DEF handleVars
<1> QED
    BY <1>1, <1>2, <1>3, <1>4 DEF HandleNext

(* The native object is resolved by the first finalizer that finds it      *)
(* unresolved (pretrade/reservation.go:127, 135, 148).                     *)
LEMMA NativeStep == IInv /\ [HandleNext]_handleVars => NativeInv'
<1> SUFFICES ASSUME IInv, [HandleNext]_handleVars PROVE NativeInv'
    OBVIOUS
<1> USE DEF IInv, TypeOK, NativeInv
<1>1. ASSUME NEW f \in Finalizers, Finalizes(f) PROVE NativeInv'
  <2>1. CASE LockLifecycle(f)
      BY <2>1 DEF LockLifecycle, native
  <2>2. CASE Announce(f)
      BY <2>2 DEF Announce, native
  <2>3. CASE ReadersGone(f)
      BY <2>3 DEF ReadersGone, native
  <2>4. CASE Resolve(f)
      BY <2>4 DEF Resolve, native
  <2>5. CASE Native(f)
    <3>1. \A g \in Finalizers : pc[g] = "native" => g = f
        BY <2>5, OneOwner DEF Native, Busy, InsideLock
    <3> QED
        BY <2>5, <3>1 DEF Native
  <2>6. CASE Close(f)
    <3>1. \A g \in Finalizers : pc[g] # "native"
        BY <2>6, OneOwner DEF Close, Busy, InsideLock
    <3> QED
        BY <2>6, <3>1 DEF Close, native
  <2>7. CASE Finish(f)
      BY <2>7 DEF Finish, native
  <2> QED
      BY <1>1, <2>1, <2>2, <2>3, <2>4, <2>5, <2>6, <2>7 DEF Finalizes
<1>2. ASSUME NEW r \in Readers, BeginRead(r) PROVE NativeInv'
    BY <1>2 DEF BeginRead, native, finals
<1>3. ASSUME NEW r \in Readers, EndRead(r) PROVE NativeInv'
    BY <1>3 DEF EndRead, native, finals
<1>4. CASE UNCHANGED handleVars
    BY <1>4 DEF handleVars
<1> QED
    BY <1>1, <1>2, <1>3, <1>4 DEF HandleNext

(* The invariant holds in every reachable state of the handle.             *)
THEOREM Inductive == HandleSpec => []IInv
<1>1. IInv /\ [HandleNext]_handleVars => IInv'
    BY TypeStep, OwnerStep, ReadersStep, OpenStep, NativeStep DEF IInv
<1> QED
    BY InitIInv, <1>1, PTL DEF HandleSpec

(* However many finalizers run, on the lane and off it, the native         *)
(* reservation is committed or rolled back once (reservation.go:69).       *)
THEOREM Once == HandleSpec => []ResolvedOnce
<1>1. IInv => ResolvedOnce
    BY DEF IInv, NativeInv, ResolvedOnce
<1> QED
    BY Inductive, <1>1, PTL

(* No read runs beside a finalizer or after the native object is destroyed *)
(* (reservation.go:69, 110).                                               *)
THEOREM Undisturbed == HandleSpec => []ReadsAlone
<1>1. IInv => ReadsAlone
    BY DEF IInv, ReadersInv, OpenInv, ReadsAlone
<1> QED
    BY Inductive, <1>1, PTL

(* The finalizer inside the native object, as the abstract specification   *)
(* sees it.                                                                *)
LEMMA AloneIs ==
    ASSUME IInv, NEW f \in Finalizers, pc[f] \in Busy
    PROVE  /\ lifecycleMu = f
           /\ Alone = IF pc[f] \in InsideLock THEN f ELSE Nobody
BY AsyncHandleAssumption DEF IInv, OwnerInv, Alone

(* Every step of the handle is a step of the access specification, or      *)
(* changes nothing it sees (reservation.go:69-143).                        *)
LEMMA AccessStep == IInv /\ [HandleNext]_handleVars /\ IInv' => [Access!Next]_(Access!vars)
<1> SUFFICES ASSUME IInv, [HandleNext]_handleVars, IInv' PROVE [Access!Next]_(Access!vars)
    OBVIOUS
<1> USE DEF IInv, TypeOK
<1>1. ASSUME NEW f \in Finalizers, Finalizes(f) PROVE [Access!Next]_(Access!vars)
  <2>1. CASE LockLifecycle(f)
    <3>1. Alone = Nobody
        BY <2>1 DEF LockLifecycle, Alone
    <3>2. Alone' = Nobody
        BY <2>1, AsyncHandleAssumption DEF LockLifecycle, Alone, InsideLock
    <3> QED
        BY <2>1, <3>1, <3>2 DEF LockLifecycle, life, native, Access!vars
  <2>2. CASE Announce(f)
    <3>1. lifecycleMu = f /\ Alone = Nobody
        BY <2>2, AloneIs DEF Announce, Busy, InsideLock
    <3>2. CASE readers # {}
        BY <2>2, <3>1, <3>2 DEF Announce, native, Alone, InsideLock, Access!vars
    <3>3. CASE readers = {}
      <4>1. Alone' = f
          BY <2>2, <3>1, <3>3, AsyncHandleAssumption DEF Announce, Alone, InsideLock
      <4> QED
          BY <2>2, <3>1, <3>3, <4>1
          DEF Announce, native, Access!Next, Access!StartFinalize
    <3> QED
        BY <3>2, <3>3
  <2>3. CASE ReadersGone(f)
    <3>1. lifecycleMu = f /\ Alone = Nobody
        BY <2>3, AloneIs DEF ReadersGone, Busy, InsideLock
    <3>2. Alone' = f
        BY <2>3, <3>1, AsyncHandleAssumption DEF ReadersGone, Alone, InsideLock
    <3>3. readers = {}
        BY <2>3 DEF ReadersGone, ReadersInv
    <3> QED
        BY <2>3, <3>1, <3>2, <3>3
        DEF ReadersGone, life, native, Access!Next, Access!StartFinalize
  <2>4. CASE Resolve(f)
    <3>1. lifecycleMu = f /\ Alone = f
        BY <2>4, AloneIs DEF Resolve, Busy, InsideLock
    <3>2. Alone' = f
        BY <2>4, <3>1, AsyncHandleAssumption DEF Resolve, Alone, InsideLock
    <3> QED
        BY <2>4, <3>1, <3>2 DEF Resolve, life, native, Access!vars
  <2>5. CASE Native(f)
    <3>1. lifecycleMu = f /\ Alone = f
        BY <2>5, AloneIs DEF Native, Busy, InsideLock
    <3>2. Alone' = f
        BY <2>5, <3>1, AsyncHandleAssumption DEF Native, Alone, InsideLock
    <3> QED
        BY <2>5, <3>1, <3>2 DEF Native, life, Access!vars
  <2>6. CASE Close(f)
    <3>1. lifecycleMu = f /\ Alone = f
        BY <2>6, AloneIs DEF Close, Busy, InsideLock
    <3>2. Alone' = f
        BY <2>6, <3>1, AsyncHandleAssumption DEF Close, Alone, InsideLock
    <3>3. CASE op[f].closes /\ open
        BY <2>6, <3>1, <3>2, <3>3
        DEF Close, life, Access!Next, Access!Destroy
    <3>4. CASE ~(op[f].closes /\ open)
        BY <2>6, <3>1, <3>2, <3>4 DEF Close, life, native, Access!vars
    <3> QED
        BY <3>3, <3>4
  <2>7. CASE Finish(f)
    <3>1. Alone = f
        BY <2>7, AloneIs DEF Finish, Busy, InsideLock
    <3>2. Alone' = Nobody
        BY <2>7 DEF Finish, Alone
    <3> QED
        BY <2>7, <3>1, <3>2 DEF Finish, native, Access!Next, Access!StopFinalize
  <2> QED
      BY <1>1, <2>1, <2>2, <2>3, <2>4, <2>5, <2>6, <2>7 DEF Finalizes
<1>2. ASSUME NEW r \in Readers, BeginRead(r) PROVE [Access!Next]_(Access!vars)
  <2>1. Alone' = Alone
      BY <1>2 DEF BeginRead, finals, Alone
  <2>2. CASE UNCHANGED readers
      BY <1>2, <2>1, <2>2 DEF BeginRead, native, Access!vars
  <2>3. CASE ~closed /\ state = "open" /\ readers' = readers \cup {r}
    <3>1. Alone = Nobody
        BY <2>3, AsyncHandleAssumption DEF ReadersInv, Alone
    <3>2. open
        BY <2>3 DEF OpenInv, ReadersInv, InsideLock
    <3> QED
        BY <1>2, <2>1, <2>3, <3>1, <3>2
        DEF BeginRead, native, Access!Next, Access!StartRead
  <2> QED
      BY <1>2, <2>2, <2>3 DEF BeginRead
<1>3. ASSUME NEW r \in Readers, EndRead(r) PROVE [Access!Next]_(Access!vars)
  <2>1. Alone' = Alone
      BY <1>3 DEF EndRead, finals, Alone
  <2> QED
      BY <1>3, <2>1 DEF EndRead, native, Access!Next, Access!StopRead
<1>4. CASE UNCHANGED handleVars
    BY <1>4 DEF handleVars, Access!vars, Alone
<1> QED
    BY <1>1, <1>2, <1>3, <1>4 DEF HandleNext

(* The handle implements the access its native reservation is promised:    *)
(* shared reads, exclusive finalizers, no read after its destruction.      *)
THEOREM Implements == HandleSpec => GivesAccess
<1>1. HandleInit => Access!Init
    BY DEF HandleInit, Access!Init, Alone
<1> QED
    BY Inductive, <1>1, AccessStep, PTL DEF HandleSpec, GivesAccess, Access!Spec


(***************************************************************************)
(* The verdict of a chain.                                                 *)
(***************************************************************************)

\* Up to the cleanup nothing is told and nothing is resolved.
LEMMA Underway ==
  ASSUME VerdictInv, at \notin {"finally", "resolve", "done"}, at' \in Locations,
         at' \notin {"new", "queued", "finally", "resolve", "done"},
         fin' = fin, future' = future, toldFinally' = toldFinally,
         retryUnsafe' \in BOOLEAN, entered' = retryUnsafe', ready' \in BOOLEAN,
         status' \in {"completed", "rejected"},
         IF at' = "cleanup" THEN err' \in {{}, {"error"}} ELSE err' = {}
  PROVE  VerdictInv'
<1>1. Told' /\ ErrorSoFar' /\ Verdict' /\ ToldTruth'
  BY DEF VerdictInv, Told, ErrorSoFar, Verdict, ToldTruth
<1> QED BY <1>1 DEF VerdictInv

LEMMA RunVerdict ==
  ASSUME VerdictInv, Run \/ Abort
  PROVE  VerdictInv'
<1>1. /\ at \in {"new", "queued"} /\ UNCHANGED <<fin, err, status, ready, retryUnsafe, entered,
                                                  toldFinally>>
      /\ (at' = "queued" /\ future' = future) \/ (at' = "done" /\ future' = Failed)
  BY DEF Run, Abort, shape, flags, ghost
<1>2. toldFinally = <<>> /\ err = {} /\ ~retryUnsafe /\ ~entered /\ ~ready /\ future = Nothing
  BY <1>1 DEF VerdictInv, Told, ErrorSoFar, Verdict
<1>3. Told' /\ ErrorSoFar' /\ Verdict' /\ ToldTruth'
  BY <1>1, <1>2 DEF Told, ErrorSoFar, Verdict, ToldTruth, Failed
<1> QED BY <1>1, <1>2, <1>3 DEF VerdictInv, Locations

LEMMA StepVerdict ==
  ASSUME VerdictInv, Begin \/ Then \/ OnRejected \/ Input \/ OnTold \/ Operate \/ CallDriver
  PROVE  VerdictInv'
<1> USE DEF VerdictInv, ErrorSoFar, Locations, Deciding, Checking, shape, flags, ghost, Fail,
            Advance
<1>1. CASE Begin
  BY <1>1, Underway DEF Begin
<1>2. CASE Then \/ OnRejected \/ Input \/ OnTold
  BY <1>2, Underway DEF Then, OnRejected, Input, OnTold, Hook
<1>3. CASE Operate
  BY <1>3, Underway DEF Operate, MarkUnsafe
<1>4. CASE CallDriver
  BY <1>4, Underway DEF CallDriver, MarkUnsafe
<1> QED BY <1>1, <1>2, <1>3, <1>4

LEMMA HandleVerdict ==
  ASSUME VerdictInv, Decide \/ Finalize \/ CheckOrder \/ OnChecked \/ CloseReport
  PROVE  VerdictInv'
<1> USE DEF VerdictInv, ErrorSoFar, Locations, Deciding, Checking, shape, flags, ghost, Fail,
            Advance
<1>1. CASE Decide
  BY <1>1, Underway DEF Decide
<1>2. CASE Finalize
  BY <1>2, Underway DEF Finalize
<1>3. CASE CheckOrder
  BY <1>3, Underway DEF CheckOrder
<1>4. CASE OnChecked \/ CloseReport
  BY <1>4, Underway DEF OnChecked, CloseReport
<1> QED BY <1>1, <1>2, <1>3, <1>4

LEMMA CleanupVerdict ==
  ASSUME VerdictInv, Cleanup
  PROVE  VerdictInv'
<1>1. /\ at = "cleanup" /\ UNCHANGED <<fin, status, ready, retryUnsafe, entered, toldFinally, future>>
      /\ err' = IF err # {} /\ retryUnsafe THEN err \cup {"retry"} ELSE err
      /\ at' = IF ready /\ fin THEN "finally" ELSE "resolve"
  BY DEF Cleanup, shape, flags, ghost
<1>2. toldFinally = <<>> /\ err \in {{}, {"error"}} /\ future = Nothing
  BY <1>1 DEF VerdictInv, Told, ErrorSoFar, Verdict
<1>3. Told' /\ ErrorSoFar' /\ Verdict' /\ ToldTruth'
  BY <1>1, <1>2 DEF VerdictInv, Told, ErrorSoFar, Verdict, ToldTruth
<1> QED BY <1>1, <1>2, <1>3 DEF VerdictInv, Locations

LEMMA FinallyVerdict ==
  ASSUME VerdictInv, Finally
  PROVE  VerdictInv'
<1>1. /\ at = "finally" /\ at' = "resolve"
      /\ UNCHANGED <<fin, status, ready, retryUnsafe, entered, future>>
      /\ toldFinally' = Append(toldFinally, Outcome(err))
      /\ \/ err' = err
         \/ err' = err \cup {"error"} \cup (IF err = {} /\ retryUnsafe THEN {"retry"} ELSE {})
  BY DEF Finally, shape, flags
<1>2. /\ toldFinally = <<>> /\ future = Nothing /\ ready /\ fin
      /\ err \in {{}, {"error"} \cup (IF retryUnsafe THEN {"retry"} ELSE {})}
  BY <1>1 DEF VerdictInv, Told, ErrorSoFar, Verdict
<1>3. toldFinally' = <<Outcome(err)>>
  BY <1>1, <1>2
<1>4. /\ err' \in {{}, {"error"} \cup (IF retryUnsafe THEN {"retry"} ELSE {})}
      /\ err' # err => err = {} /\ err' # {}
  BY <1>1, <1>2
<1>5. Told' /\ ErrorSoFar' /\ Verdict'
  BY <1>1, <1>2, <1>3, <1>4 DEF VerdictInv, Told, ErrorSoFar, Verdict
<1>6. ToldTruth'
  BY <1>1, <1>3, <1>4 DEF VerdictInv, ToldTruth, Outcome
<1> QED BY <1>1, <1>2, <1>5, <1>6 DEF VerdictInv, Locations

LEMMA ResolveVerdict ==
  ASSUME VerdictInv, ResolveFuture
  PROVE  VerdictInv'
<1>1. /\ at = "resolve" /\ at' = "done" /\ future' = Outcome(err)
      /\ UNCHANGED <<fin, status, err, ready, retryUnsafe, entered, toldFinally>>
  BY DEF ResolveFuture, shape, flags, ghost
<1>2. err \in {{}, {"error"} \cup (IF retryUnsafe THEN {"retry"} ELSE {})}
  BY <1>1 DEF VerdictInv, ErrorSoFar
<1>3. Told' /\ ErrorSoFar' /\ Verdict'
  BY <1>1, <1>2 DEF VerdictInv, Told, ErrorSoFar, Verdict, Outcome
<1>4. ToldTruth'
  BY <1>1 DEF VerdictInv, ToldTruth, Outcome
<1> QED BY <1>1, <1>3, <1>4 DEF VerdictInv, Locations

LEMMA SameVerdict ==
  ASSUME VerdictInv, UNCHANGED <<at, fin, err, status, ready, flags, future, toldFinally>>
  PROVE  VerdictInv'
  BY DEF VerdictInv, Told, ErrorSoFar, Verdict, ToldTruth, Outcome, flags

LEMMA VerdictStep ==
  ASSUME VerdictInv, [ChainNext]_chainVars
  PROVE  VerdictInv'
<1>1. CASE Run \/ Abort
  BY <1>1, RunVerdict
<1>2. CASE Executes
  BY <1>2, StepVerdict, HandleVerdict, CleanupVerdict, FinallyVerdict, ResolveVerdict DEF Executes
<1>3. CASE ReadResult \/ EndResultRead \/ UNCHANGED chainVars
  BY <1>3, SameVerdict DEF ReadResult, EndResultRead, chainVars, shape, flags, ghost
<1> QED BY <1>1, <1>2, <1>3 DEF ChainNext

LEMMA VerdictInit ==
  ASSUME ChainInit
  PROVE  VerdictInv
<1>1. at = "new" /\ toldFinally = <<>> /\ err = {} /\ future = Nothing
  BY DEF ChainInit
<1>2. Told /\ ErrorSoFar /\ Verdict /\ ToldTruth
  BY <1>1 DEF Told, ErrorSoFar, Verdict, ToldTruth
<1> QED BY <1>1, <1>2 DEF ChainInit, VerdictInv, Locations

\* An outcome that allows a retry is of a run that entered no call which can
\* change state, and a failed outcome carries the verdict in its error
\* (scenario.go:701, 707), for plans of any length.
THEOREM RetryVerdictHolds == ChainSpec => []RetryVerdict
<1>1. VerdictInv => RetryVerdict
  BY DEF VerdictInv, Verdict, RetryVerdict
<1> QED BY <1>1, VerdictInit, VerdictStep, PTL DEF ChainSpec

\* Finally runs exactly once in a run that has a state, and the future tells
\* what it was told unless it failed itself (scenario.go:705).
THEOREM FinallyRunsOnce == ChainSpec => []FinallyOnce
<1>1. VerdictInv => FinallyOnce
  BY DEF VerdictInv, Verdict, Told, ToldTruth, FinallyOnce
<1> QED BY <1>1, VerdictInit, VerdictStep, PTL DEF ChainSpec

(***************************************************************************)
(* The handles of a chain.                                                 *)
(***************************************************************************)

\* Steps between operations leave the handles alone.
LEMMA HandlesAlone ==
  ASSUME HandlesInv, at \notin Deciding \cup Checking \cup {"cleanup"},
         at' \in Locations \ (Deciding \cup Checking),
         UNCHANGED <<handles, pending, result, reading, decided>>
  PROVE  HandlesInv'
<1>1. pending = Nothing /\ ~InHand /\ ~(result # Nothing /\ result.available)
  BY DEF HandlesInv, InHand, PendingLast, ResultInHand, Deciding, Checking
<1>2. ~InHand'
  BY <1>1 DEF InHand
<1>3. LastHandle' /\ PendingLast'
  BY <1>1, <1>2 DEF LastHandle, PendingLast
<1>4. OthersSettled'
  BY <1>1 DEF HandlesInv, OthersSettled
<1>5. ResultInHand'
  BY <1>1 DEF HandlesInv, ResultInHand, Deciding, Checking
<1> QED BY <1>3, <1>4, <1>5 DEF HandlesInv

\* A driver's answer becomes the last handle.
LEMMA HandleTaken ==
  ASSUME HandlesInv, at = "step", NEW live \in BOOLEAN, handles' = Append(handles, Handle(live)),
         pending' \in {Nothing, Len(handles) + 1}, at' \in Deciding \cup Checking \cup {"cleanup"},
         at' # "commit", at' \in Deciding \cup Checking => live,
         at' \in Checking => pending' = Nothing,
         at' \in Deciding \cup {"cleanup"} => pending' = Len(handles) + 1,
         UNCHANGED <<reading, decided>>,
         IF at' \in {"decide", "checked"}
         THEN result' = [handle |-> Len(handles) + 1, available |-> TRUE]
         ELSE result' = result
  PROVE  HandlesInv'
<1>1. pending = Nothing /\ ~InHand /\ ~(result # Nothing /\ result.available) /\ ~reading
  BY DEF HandlesInv, InHand, PendingLast, ResultInHand, Deciding, Checking
<1> DEFINE n == Len(handles)
<1>2. /\ handles \in Seq(HandleRecords) /\ n \in Nat /\ DOMAIN handles = 1 .. n
      /\ Handle(live) \in HandleRecords
  BY DEF HandlesInv, HandleRecords, Handle
<1>3. /\ handles' \in Seq(HandleRecords) /\ Len(handles') = n + 1 /\ handles' # <<>>
      /\ DOMAIN handles' = 1 .. n + 1 /\ handles'[n + 1] = Handle(live)
      /\ \A h \in 1 .. n : handles'[h] = handles[h]
  <2> HIDE DEF n
  <2> QED BY <1>2, AppendProperties DEF n
<1> HIDE DEF n
<1>4. Newest' = n + 1 /\ n + 1 \in Nat /\ InHand' /\ n + 1 \notin decided
  <2>1. n + 1 # Nothing /\ n + 1 \in Nat
    BY <1>2, ChainAssumption
  <2>2. n + 1 \notin decided
    BY <1>2 DEF HandlesInv
  <2> QED BY <1>3, <2>1, <2>2 DEF Newest, InHand, n
<1>5. LastHandle'
  BY <1>3, <1>4 DEF LastHandle, Handle
<1>6. PendingLast'
  BY <1>4, ChainAssumption DEF PendingLast, n, Deciding, Checking
<1>7. OthersSettled'
  <2>1. ASSUME NEW h \in DOMAIN handles', h # n + 1
        PROVE  ~handles'[h].open /\ (handles'[h].resolved = "commit" <=> h \in decided')
    <3>1. h \in 1 .. n
      BY <1>2, <1>3, <2>1
    <3> QED BY <1>1, <1>2, <1>3, <3>1 DEF HandlesInv, OthersSettled
  <2> QED BY <1>4, <2>1 DEF OthersSettled
<1>8. ResultInHand'
  <2>1. CASE at' \in {"decide", "checked"}
    <3>1. result' = [handle |-> n + 1, available |-> TRUE]
      BY <2>1 DEF n
    <3>2. result' \in Results /\ result'.handle = n + 1
      BY <1>4, <3>1 DEF Results
    <3> QED BY <1>1, <1>4, <2>1, <3>2 DEF ResultInHand
  <2>2. CASE at' \notin {"decide", "checked"}
    BY <1>1, <2>2 DEF ResultInHand
  <2> QED BY <2>1, <2>2
<1>9. decided' \subseteq DOMAIN handles' /\ at' \in Locations /\ reading' \in BOOLEAN
  BY <1>2, <1>3 DEF HandlesInv, Locations, Deciding, Checking
<1> QED BY <1>3, <1>5, <1>6, <1>7, <1>8, <1>9 DEF HandlesInv

\* The last handle is closed as its hook decided.
LEMMA HandleSettled ==
  ASSUME HandlesInv, InHand, at \notin {"decide", "checked"},
         NEW how \in {"commit", "rollback", "read"}, how = "commit" <=> at = "commit",
         handles' = Resolved(Newest, how), pending' = Nothing,
         at' \in Locations \ (Deciding \cup Checking), UNCHANGED <<result, reading, decided>>
  PROVE  HandlesInv'
<1>1. /\ handles \in Seq(HandleRecords) /\ Newest \in Nat /\ DOMAIN handles = 1 .. Newest
      /\ handles # <<>> /\ Newest \in DOMAIN handles
  BY DEF HandlesInv, LastHandle, Newest
<1>2. /\ handles[Newest] \in HandleRecords /\ handles[Newest].resolved = "no"
      /\ Newest \in decided <=> at = "commit"
      /\ at = "commit" => handles[Newest].open
      /\ ~(result # Nothing /\ result.available)
  BY <1>1 DEF HandlesInv, LastHandle, ResultInHand, Deciding
<1> DEFINE r == [open |-> FALSE, resolved |-> IF handles[Newest].open THEN how ELSE "no"]
<1>3. handles' = [handles EXCEPT ![Newest] = r]
  BY <1>1, <1>2 DEF Resolved
<1>4. r \in HandleRecords /\ ~r.open /\ (r.resolved = "commit" <=> Newest \in decided)
  BY <1>2 DEF HandleRecords
<1> HIDE DEF r
<1>5. /\ handles' \in Seq(HandleRecords) /\ DOMAIN handles' = DOMAIN handles
      /\ handles'[Newest] = r
      /\ \A h \in DOMAIN handles : h # Newest => handles'[h] = handles[h]
  BY <1>1, <1>3, <1>4
<1>6. ~InHand'
  BY DEF InHand
<1>7. LastHandle' /\ PendingLast'
  BY <1>6 DEF LastHandle, PendingLast
<1>8. OthersSettled'
  <2>1. ASSUME NEW h \in DOMAIN handles
        PROVE  ~handles'[h].open /\ (handles'[h].resolved = "commit" <=> h \in decided)
    <3>1. CASE h = Newest
      BY <1>4, <1>5, <3>1
    <3>2. CASE h # Newest
      BY <1>5, <3>2 DEF HandlesInv, OthersSettled
    <3> QED BY <3>1, <3>2
  <2> QED BY <1>5, <2>1 DEF OthersSettled
<1>9. ResultInHand'
  BY <1>2 DEF HandlesInv, ResultInHand, Deciding, Checking
<1> QED BY <1>5, <1>7, <1>8, <1>9 DEF HandlesInv

\* The hook of the last handle has returned; its result is taken away first.
LEMMA HookReturned ==
  ASSUME HandlesInv, at \in {"decide", "checked"}, Invalidate, UNCHANGED <<handles, pending, reading>>,
         decided' = decided \cup (IF at' = "commit" THEN {Newest} ELSE {}),
         \/ at = "decide" /\ at' \in {"commit", "rollback", "invalid", "cleanup"}
         \/ at = "checked" /\ at' \in {"closeChecked", "closeFailed"}
  PROVE  HandlesInv'
<1>1. /\ handles \in Seq(HandleRecords) /\ Newest \in Nat /\ DOMAIN handles = 1 .. Newest
      /\ handles # <<>> /\ Newest \in DOMAIN handles /\ InHand
  BY DEF HandlesInv, LastHandle, Newest, InHand, Deciding, Checking
<1>2. result \in Results /\ ~reading /\ result' = [result EXCEPT !.available = FALSE]
  BY DEF HandlesInv, ResultInHand, Invalidate
<1>3. ResultInHand'
  BY <1>2 DEF ResultInHand, Results
<1>4. Newest' = Newest /\ Newest # Nothing
  BY <1>1, ChainAssumption DEF Newest
<1>5. PendingLast' /\ InHand'
  BY <1>4 DEF HandlesInv, PendingLast, InHand, Deciding, Checking
<1>6. LastHandle'
  BY <1>1, <1>4, <1>5 DEF HandlesInv, LastHandle, Deciding, Checking
<1>7. OthersSettled'
  BY <1>1, <1>4, <1>5 DEF HandlesInv, OthersSettled
<1>8. decided' \subseteq DOMAIN handles' /\ at' \in Locations
  BY <1>1 DEF HandlesInv, Locations, Deciding, Checking
<1> QED BY <1>3, <1>5, <1>6, <1>7, <1>8 DEF HandlesInv

LEMMA IdleHandles ==
  ASSUME HandlesInv, \/ Run \/ Abort \/ Begin \/ Then \/ OnRejected \/ Input \/ CallDriver
                     \/ OnTold \/ Finally \/ ResolveFuture
  PROVE  HandlesInv'
<1> USE DEF Locations, Deciding, Checking, shape, flags, ghost, Fail, Advance
<1>1. CASE Run \/ Abort \/ Begin
  BY <1>1, HandlesAlone DEF Run, Abort, Begin
<1>2. CASE Then \/ OnRejected \/ Input \/ OnTold
  BY <1>2, HandlesAlone DEF Then, OnRejected, Input, OnTold, Hook
<1>3. CASE CallDriver
  BY <1>3, HandlesAlone DEF CallDriver
<1>4. CASE Finally \/ ResolveFuture
  BY <1>4, HandlesAlone DEF Finally, ResolveFuture
<1> QED BY <1>1, <1>2, <1>3, <1>4

LEMMA OperateHandles ==
  ASSUME HandlesInv, Operate
  PROVE  HandlesInv'
<1>1. at = "step" /\ UNCHANGED <<reading, decided>> /\ pending = Nothing
  BY DEF Operate, ghost, HandlesInv, PendingLast, Deciding
<1>2. CASE Fail /\ UNCHANGED <<handles, pending, result>>
  BY <1>1, <1>2, HandlesAlone DEF Fail, Locations, Deciding, Checking
<1>3. ASSUME NEW h \in {Nothing, "live", "closed"}, NEW rejects \in BOOLEAN, NEW failed \in BOOLEAN,
             handles' = IF h = Nothing THEN handles ELSE Append(handles, Handle(h = "live")),
             pending' = IF h = Nothing THEN pending ELSE Len(handles) + 1,
             \/ /\ h = "live" /\ ~rejects /\ ~failed
                /\ result' = [handle |-> Len(handles) + 1, available |-> TRUE]
                /\ at' = "decide"
             \/ h = Nothing /\ rejects /\ ~failed /\ at' = "rejected" /\ UNCHANGED result
             \/ /\ ~(h = "live" /\ ~rejects /\ ~failed)
                /\ at' = "cleanup" /\ UNCHANGED result
      PROVE  HandlesInv'
  <2>1. CASE h = Nothing
    <3>1. UNCHANGED <<handles, pending, result>> /\ at' \in {"rejected", "cleanup"}
      BY <1>3, <2>1, ChainAssumption
    <3> QED BY <1>1, <3>1, HandlesAlone DEF Locations, Deciding, Checking
  <2>2. CASE h # Nothing
    <3> DEFINE live == h = "live"
    <3>1. /\ live \in BOOLEAN /\ handles' = Append(handles, Handle(live))
          /\ pending' = Len(handles) + 1
      BY <1>3, <2>2
    <3>2. \/ /\ live /\ result' = [handle |-> Len(handles) + 1, available |-> TRUE]
             /\ at' = "decide"
          \/ at' = "cleanup" /\ UNCHANGED result
      BY <1>3, <2>2
    <3> HIDE DEF live
    <3> QED BY <1>1, <3>1, <3>2, HandleTaken DEF Deciding, Checking
  <2> QED BY <2>1, <2>2
<1> QED BY <1>2, <1>3 DEF Operate, Fail

LEMMA DecideHandles ==
  ASSUME HandlesInv, Decide
  PROVE  HandlesInv'
<1>1. /\ at = "decide" /\ Invalidate /\ UNCHANGED <<handles, pending, reading>>
      /\ result.handle = Newest
  BY DEF Decide, HandlesInv, ResultInHand
<1>2. /\ at' \in {"commit", "rollback", "invalid", "cleanup"}
      /\ decided' = decided \cup (IF at' = "commit" THEN {Newest} ELSE {})
  BY <1>1 DEF Decide, Fail
<1> QED BY <1>1, <1>2, HookReturned

LEMMA FinalizeHandles ==
  ASSUME HandlesInv, Finalize
  PROVE  HandlesInv'
<1> DEFINE how == IF at = "commit" THEN "commit" ELSE "rollback"
<1>1. /\ at \in {"commit", "rollback", "invalid"} /\ handles' = Resolved(pending, how)
      /\ pending' = Nothing /\ UNCHANGED <<result, reading, decided>>
      /\ at' \in {"step", "cleanup"}
  BY DEF Finalize, Advance, Fail, ghost
<1>2. pending = Newest /\ InHand
  BY <1>1 DEF HandlesInv, PendingLast, InHand, Deciding
<1>3. how \in {"commit", "rollback", "read"} /\ (how = "commit" <=> at = "commit")
  OBVIOUS
<1> HIDE DEF how
<1> QED BY <1>1, <1>2, <1>3, HandleSettled DEF Locations, Deciding, Checking

LEMMA CheckHandles ==
  ASSUME HandlesInv, CheckOrder
  PROVE  HandlesInv'
<1>1. at = "step" /\ UNCHANGED <<pending, reading, decided>> /\ pending = Nothing
  BY DEF CheckOrder, ghost, HandlesInv, PendingLast, Deciding
<1>2. CASE Fail /\ UNCHANGED <<handles, result>>
  BY <1>1, <1>2, HandlesAlone DEF Fail, Locations, Deciding, Checking
<1>3. CASE /\ handles' = Append(handles, Handle(TRUE))
           /\ \/ /\ result' = [handle |-> Len(handles) + 1, available |-> TRUE]
                 /\ at' = "checked"
              \/ at' = "closeFailed" /\ UNCHANGED result
  BY <1>1, <1>3, HandleTaken DEF Deciding, Checking
<1> QED BY <1>2, <1>3 DEF CheckOrder

LEMMA CheckedHandles ==
  ASSUME HandlesInv, OnChecked \/ CloseReport
  PROVE  HandlesInv'
<1>1. CASE OnChecked
  <2>1. /\ at = "checked" /\ Invalidate /\ UNCHANGED <<handles, pending, reading, decided>>
        /\ at' \in {"closeChecked", "closeFailed"}
    BY <1>1 DEF OnChecked, ghost
  <2> QED BY <2>1, HookReturned
<1>2. CASE CloseReport
  <2>1. /\ at \in {"closeChecked", "closeFailed"} /\ handles' = Resolved(Len(handles), "read")
        /\ UNCHANGED <<pending, result, reading, decided>> /\ at' \in {"step", "cleanup"}
    BY <1>2 DEF CloseReport, ghost, Advance, Fail
  <2>2. pending = Nothing /\ InHand /\ handles' = Resolved(Newest, "read")
    BY <2>1 DEF HandlesInv, PendingLast, InHand, Deciding, Checking, Newest
  <2> QED BY <2>1, <2>2, HandleSettled DEF Locations, Deciding, Checking
<1> QED BY <1>1, <1>2

LEMMA CleanupHandles ==
  ASSUME HandlesInv, Cleanup
  PROVE  HandlesInv'
<1>1. /\ at = "cleanup" /\ pending' = Nothing /\ UNCHANGED <<result, reading, decided>>
      /\ handles' = IF pending = Nothing THEN handles ELSE Resolved(pending, "rollback")
      /\ at' \in {"finally", "resolve"}
  BY DEF Cleanup, ghost
<1>2. CASE pending # Nothing
  <2>1. pending = Newest /\ InHand /\ handles' = Resolved(Newest, "rollback")
    BY <1>1, <1>2 DEF HandlesInv, PendingLast, InHand
  <2> QED BY <1>1, <2>1, HandleSettled DEF Locations, Deciding, Checking
<1>3. CASE pending = Nothing
  <2>1. handles' = handles /\ ~InHand /\ ~InHand' /\ ~(result # Nothing /\ result.available)
    BY <1>1, <1>3 DEF InHand, HandlesInv, ResultInHand, Deciding, Checking
  <2>2. LastHandle' /\ PendingLast'
    BY <1>1, <2>1 DEF LastHandle, PendingLast, InHand
  <2>3. OthersSettled' /\ ResultInHand'
    BY <1>1, <2>1 DEF HandlesInv, OthersSettled, ResultInHand
  <2> QED BY <1>1, <2>1, <2>2, <2>3 DEF HandlesInv, Locations
<1> QED BY <1>2, <1>3

LEMMA ReadHandles ==
  ASSUME HandlesInv, ReadResult \/ EndResultRead \/ UNCHANGED chainVars
  PROVE  HandlesInv'
<1>1. UNCHANGED <<at, handles, pending, result, decided>>
  BY DEF ReadResult, EndResultRead, chainVars, ghost
<1>2. reading' \in BOOLEAN /\ (reading' => result # Nothing /\ result.available)
  <2>1. CASE ReadResult
    BY <2>1 DEF ReadResult
  <2>2. CASE EndResultRead
    BY <2>2 DEF EndResultRead
  <2>3. CASE UNCHANGED chainVars
    BY <2>3 DEF chainVars, HandlesInv, ResultInHand
  <2> QED BY <2>1, <2>2, <2>3
<1>3. LastHandle' /\ PendingLast' /\ OthersSettled' /\ ResultInHand'
  BY <1>1, <1>2 DEF HandlesInv, LastHandle, PendingLast, OthersSettled, ResultInHand, InHand, Newest
<1> QED BY <1>1, <1>2, <1>3 DEF HandlesInv

LEMMA HandlesStep ==
  ASSUME HandlesInv, [ChainNext]_chainVars
  PROVE  HandlesInv'
  BY IdleHandles, OperateHandles, DecideHandles, FinalizeHandles, CheckHandles, CheckedHandles,
     CleanupHandles, ReadHandles DEF ChainNext, Executes

LEMMA HandlesInit ==
  ASSUME ChainInit
  PROVE  HandlesInv
<1>1. at = "new" /\ pending = Nothing /\ handles = <<>> /\ decided = {} /\ result = Nothing /\ ~reading
      /\ reading \in BOOLEAN
  BY DEF ChainInit
<1>2. handles \in Seq(HandleRecords) /\ DOMAIN handles = {}
  BY <1>1
<1>3. LastHandle /\ PendingLast /\ OthersSettled /\ ResultInHand
  BY <1>1, <1>2 DEF LastHandle, PendingLast, OthersSettled, ResultInHand, InHand, Deciding, Checking
<1> QED BY <1>1, <1>2, <1>3 DEF HandlesInv, Locations

\* Of an operation or a report that a goroutine reads through a hook's result,
\* none is finalized or closed under the read (scenario.go:806, 1001).
THEOREM ReadsSeeLiveHandles == ChainSpec => []ReadsLiveHandles
<1>1. HandlesInv => ReadsLiveHandles
  BY DEF HandlesInv, ResultInHand, LastHandle, InHand, Deciding, Checking, ReadsLiveHandles
<1> QED BY <1>1, HandlesInit, HandlesStep, PTL DEF ChainSpec

\* Once Finally runs, every handle of the run is closed, and an operation is
\* committed exactly when its hook decided so, whatever failed or panicked in
\* between (scenario.go:691, 927), for plans of any length.
THEOREM EverythingClosed == ChainSpec => []NothingLeftOpen
<1>1. HandlesInv => NothingLeftOpen
  BY DEF HandlesInv, PendingLast, OthersSettled, InHand, Deciding, Checking, NothingLeftOpen
<1> QED BY <1>1, HandlesInit, HandlesStep, PTL DEF ChainSpec
=============================================================================
