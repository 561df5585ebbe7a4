------------------------------ MODULE MarketData ------------------------------
(***************************************************************************)
(* The market-data service: the registry of instruments, the quote buckets *)
(* and time-to-live settings of each instrument's slot, the service-level  *)
(* settings behind their own locks and the gate in front of them, for      *)
(* threads that register, publish, set lifetimes and read.  Each lock      *)
(* section is a step; a read holds its slot's guard until it has judged    *)
(* the quote's age.  One account reads; its group does not change.         *)
(***************************************************************************)
EXTENDS Naturals, Sequences

CONSTANTS
    Threads,
    Instruments,
    Ids,          \* instrument ids, 0..n
    InGroup,      \* AccountInfo::group: whether the account has a group
    Tunable,      \* the cascade tiers that threads set and clear
    Lifetimes,    \* lifetimes that are set, Infinite among them or not
    DefaultTtl,   \* default_ttl of the builder
    SourceAges,   \* source_age of the quotes published
    MaxTime,      \* bound: the clock
    MaxCalls,     \* bound: calls made by all threads together
    Infinite, None

SlotTiers == {"instrumentAccount", "instrumentGroup", "instrumentDefault",
              "instrument"}
ServiceTiers == {"account", "group", "default"}

ASSUME MarketDataAssumption ==
    /\ \A i \in Ids : i \in Nat /\ 0..i \subseteq Ids
    /\ InGroup \in BOOLEAN
    /\ Tunable \subseteq SlotTiers \cup ServiceTiers
    /\ Lifetimes \cup {DefaultTtl} \subseteq Nat \cup {Infinite}
    /\ SourceAges \subseteq Nat
    /\ MaxTime \in Nat /\ MaxCalls \in Nat
    /\ None \notin Nat /\ Infinite # None

VARIABLES
    by_instrument, \* registry: the id of each instrument
    by_id,         \* registry: the slot of each id
    next_auto_id,
    slots,         \* per slot its quote buckets and lifetimes
    service,       \* account_ttl and group_ttl
    gate,          \* has_service_level_ttl
    guards,        \* threads that hold a slot's read guard
    clock,
    calls,
    pc, arg,       \* each thread's step and what it carries
    answer,        \* the last answer of each thread
    seen           \* history: service-level lifetimes met during its read

registry == <<by_instrument, by_id, next_auto_id>>
stored   == <<slots, service, gate, guards>>
marketVars == <<registry, stored, clock, calls, pc, arg, answer, seen>>

Buckets == {"account", "group", "default"}

NewSlot == [quotes |-> [b \in Buckets |-> None],
            ttls |-> [t \in SlotTiers |-> None]]

-----------------------------------------------------------------------------
(* Pure parts *)

FirstSet(seq) ==
    LET hits == {i \in DOMAIN seq : seq[i] # None}
    IN  IF hits = {} THEN None
        ELSE seq[CHOOSE i \in hits : \A j \in hits : i <= j]

IfGrouped(v) == IF InGroup THEN v ELSE None

(* select_quote with QuoteResolution::AccountThenGroupThenDefault.         *)
select_quote(slot) ==
    FirstSet(<<slot.quotes["account"], IfGrouped(slot.quotes["group"]),
               slot.quotes["default"]>>)

(* Tiers 1-3, under the slot's guard.                                      *)
SlotCascade(slot) ==
    FirstSet(<<slot.ttls["instrumentAccount"],
               IfGrouped(slot.ttls["instrumentGroup"]),
               slot.ttls["instrumentDefault"]>>)

(* Tiers 5-6, under the group map's lock.                                  *)
GroupCascade(svc) == FirstSet(<<IfGrouped(svc["group"]), svc["default"]>>)

(* Tiers 7-8.                                                              *)
Fallback(slot) == FirstSet(<<slot.ttls["instrument"], DefaultTtl>>)

(* The eight tiers at one moment for the account and the slot.             *)
effective_ttl(slot, svc) ==
    FirstSet(<<SlotCascade(slot), svc["account"], GroupCascade(svc),
               Fallback(slot)>>)

NoService == [t \in ServiceTiers |-> None]

(* The service-level lifetimes in force: while the first setter has not    *)
(* returned, none are as well.                                             *)
InForce ==
    {service} \cup
    (IF ~gate /\ \E t \in Threads : pc[t] = "mark" THEN {NoService} ELSE {})

Age(quote) == (clock - quote.pushed_at) + quote.source_age

Fresh(quote, ttl) == ttl = Infinite \/ Age(quote) < ttl

-----------------------------------------------------------------------------
(* Registry *)

Unguarded(s) == \A t \in guards : arg[t].slot # s

(* A read in progress sees the lifetimes that come into force.             *)
Observe ==
    seen' = [t \in Threads |->
        IF t \in guards THEN seen[t] \cup {service'} ELSE seen[t]]

Step(t, l, v) == pc' = [pc EXCEPT ![t] = l] /\ arg' = [arg EXCEPT ![t] = v]

(* Answers: an id for an instrument, a quote (fresh or expired), or one of *)
(* those that nothing below tells apart.                                   *)
Named(i, id) == [kind |-> "id", instrument |-> i, id |-> id]
Plain == [kind |-> "plain"]

Call(t, l, v) ==
    /\ pc[t] = "idle"
    /\ calls < MaxCalls
    /\ calls' = calls + 1
    /\ Step(t, l, v)
    /\ answer' = [answer EXCEPT ![t] = Plain]

Done(t, a) ==
    /\ Step(t, "idle", None)
    /\ answer' = [answer EXCEPT ![t] = a]

(* next_auto_id: the least id from the counter on that is not taken.       *)
AutoId == CHOOSE i \in Ids : /\ i >= next_auto_id /\ by_id[i] = None
                             /\ \A j \in Ids : j >= next_auto_id /\ by_id[j] = None => i <= j

(* alloc_slot, insert_id and ensure_slot_storage, under registry.write().  *)
Insert(i, id, auto) ==
    /\ by_instrument' = [by_instrument EXCEPT ![i] = id]
    /\ by_id' = [by_id EXCEPT ![id] = Len(slots) + 1]
    /\ slots' = Append(slots, NewSlot)
    /\ next_auto_id' = LET n == IF auto THEN id + 1 ELSE next_auto_id
                       IN  IF n = id THEN n + 1 ELSE n
    /\ UNCHANGED <<service, gate, guards>>

RoomFor(id) == id \in Ids /\ by_id[id] = None

(* register: strict, by the next automatic id.                             *)
register(t, i) ==
    /\ \E id \in Ids : id >= next_auto_id /\ RoomFor(id)
    /\ pc[t] = "idle" /\ calls < MaxCalls /\ calls' = calls + 1
    /\ IF by_instrument[i] # None
       THEN answer' = [answer EXCEPT ![t] = Plain] /\ UNCHANGED <<registry, stored>>
       ELSE Insert(i, AutoId, TRUE) /\ answer' = [answer EXCEPT ![t] = Named(i, AutoId)]
    /\ UNCHANGED <<clock, pc, arg, seen>>

(* register_with_id: strict, by the given id.                              *)
register_with_id(t, i, id) ==
    /\ pc[t] = "idle" /\ calls < MaxCalls /\ calls' = calls + 1
    /\ IF by_instrument[i] # None \/ by_id[id] # None
       THEN answer' = [answer EXCEPT ![t] = Plain] /\ UNCHANGED <<registry, stored>>
       ELSE Insert(i, id, FALSE) /\ answer' = [answer EXCEPT ![t] = Named(i, id)]
    /\ UNCHANGED <<clock, pc, arg, seen>>

(* Mutant: the name is not looked up again under the write lock.           *)
ResolveAgain(t) ==
    /\ pc[t] = "resolve"
    /\ \E id \in Ids : id >= next_auto_id /\ RoomFor(id)
    /\ Insert(arg[t].instrument, AutoId, TRUE)
    /\ Step(t, "named", [instrument |-> arg[t].instrument, id |-> AutoId])
    /\ UNCHANGED <<clock, calls, answer, seen>>

(* push_by_instrument: a miss under the read lock is looked up again under *)
(* the write lock before it registers.                                     *)
PushNamed(t, i) ==
    /\ Call(t, IF by_instrument[i] = None THEN "resolve" ELSE "named",
            [instrument |-> i, id |-> by_instrument[i]])
    /\ UNCHANGED <<registry, stored, clock, seen>>

ResolveNamed(t) ==
    LET i == arg[t].instrument IN
    /\ pc[t] = "resolve"
    /\ IF by_instrument[i] # None
       THEN /\ Step(t, "named", [instrument |-> i, id |-> by_instrument[i]])
            /\ UNCHANGED <<registry, stored>>
       ELSE /\ \E id \in Ids : id >= next_auto_id /\ RoomFor(id)
            /\ Insert(i, AutoId, TRUE)
            /\ Step(t, "named", [instrument |-> i, id |-> AutoId])
    /\ UNCHANGED <<clock, calls, answer, seen>>

(* store_default_at: the clock is read first, then the slot written.       *)
ClockNamed(t, age) ==
    /\ pc[t] = "named"
    /\ Step(t, "store", [targets |-> {"default"}, id |-> arg[t].id,
                         quote |-> [pushed_at |-> clock, source_age |-> age],
                         named |-> arg[t].instrument])
    /\ UNCHANGED <<registry, stored, clock, calls, answer, seen>>

-----------------------------------------------------------------------------
(* Quotes and lifetimes *)

(* push and push_for: the id is looked up, the clock read ...              *)
Push(t, id, targets, age) ==
    /\ by_id[id] # None
    /\ Call(t, "store", [targets |-> targets, id |-> id,
                         quote |-> [pushed_at |-> clock, source_age |-> age],
                         named |-> None])
    /\ UNCHANGED <<registry, stored, clock, seen>>

(* ... and the buckets written under the slot's write guard.               *)
Store(t) ==
    LET a == arg[t]
        s == by_id[a.id]
    IN
    /\ pc[t] = "store" /\ Unguarded(s)
    /\ slots' = [slots EXCEPT ![s].quotes =
                    [b \in Buckets |-> IF b \in a.targets THEN a.quote ELSE @[b]]]
    /\ Done(t, IF a.named = None THEN Plain ELSE Named(a.named, a.id))
    /\ UNCHANGED <<registry, service, gate, guards, clock, calls, seen>>

(* clear: drops every quote of the instrument.                             *)
Clear(t, id) ==
    /\ pc[t] = "idle" /\ calls < MaxCalls /\ calls' = calls + 1
    /\ by_id[id] # None /\ Unguarded(by_id[id])
    /\ slots' = [slots EXCEPT ![by_id[id]].quotes = NewSlot.quotes]
    /\ answer' = [answer EXCEPT ![t] = Plain]
    /\ UNCHANGED <<registry, service, gate, guards, clock, pc, arg, seen>>

(* set_instrument_*_ttl and clear_instrument_*_ttl: with_slot_ttls.        *)
SetSlotTtl(t, id, tier, ttl) ==
    /\ pc[t] = "idle" /\ calls < MaxCalls /\ calls' = calls + 1
    /\ by_id[id] # None /\ Unguarded(by_id[id])
    /\ slots' = [slots EXCEPT ![by_id[id]].ttls[tier] = ttl]
    /\ answer' = [answer EXCEPT ![t] = Plain]
    /\ UNCHANGED <<registry, service, gate, guards, clock, pc, arg, seen>>

(* set_account_ttl and set_account_group_ttl: the insert ...               *)
SetServiceTtl(t, tier, ttl) ==
    /\ Call(t, "mark", None)
    /\ service' = [service EXCEPT ![tier] = ttl]
    /\ Observe
    /\ UNCHANGED <<registry, slots, gate, guards, clock>>

(* Mutant: the gate is left unset.                                         *)
MarkNothing(t) ==
    /\ pc[t] = "mark"
    /\ Done(t, Plain)
    /\ UNCHANGED <<registry, stored, clock, calls, seen>>

(* ... then mark_present.                                                  *)
mark_present(t) ==
    /\ pc[t] = "mark"
    /\ gate' = TRUE
    /\ Done(t, Plain)
    /\ UNCHANGED <<registry, slots, service, guards, clock, calls, seen>>

(* clear_account_ttl and clear_account_group_ttl.                          *)
ClearServiceTtl(t, tier) ==
    /\ pc[t] = "idle" /\ calls < MaxCalls /\ calls' = calls + 1
    /\ service' = [service EXCEPT ![tier] = None]
    /\ Observe
    /\ answer' = [answer EXCEPT ![t] = Plain]
    /\ UNCHANGED <<registry, slots, gate, guards, clock, pc, arg>>

(* get: take the slot's guard, select the quote, walk tiers 1-3.           *)
Get(t, id) ==
    /\ pc[t] = "idle" /\ calls < MaxCalls /\ calls' = calls + 1
    /\ by_id[id] # None
    /\ LET slot == slots[by_id[id]]
           q    == select_quote(slot)
       IN  IF q = None
           THEN /\ answer' = [answer EXCEPT ![t] = Plain]
                /\ UNCHANGED <<guards, pc, arg, seen>>
           ELSE /\ guards' = guards \cup {t}
                /\ seen' = [seen EXCEPT ![t] = InForce]
                /\ Step(t, IF SlotCascade(slot) # None THEN "judge" ELSE "gate",
                        [slot |-> by_id[id], quote |-> q, ttl |-> SlotCascade(slot)])
                /\ answer' = [answer EXCEPT ![t] = Plain]
    /\ UNCHANGED <<registry, slots, service, gate, clock>>

(* is_possibly_present: without it tiers 4-6 are skipped.                  *)
ReadGate(t) ==
    /\ pc[t] = "gate"
    /\ IF gate THEN Step(t, "tier4", arg[t])
       ELSE Step(t, "judge", [arg[t] EXCEPT !.ttl = Fallback(slots[arg[t].slot])])
    /\ UNCHANGED <<registry, stored, clock, calls, answer, seen>>

(* Tier 4, under the account map's lock.                                   *)
ReadAccountTtl(t) ==
    /\ pc[t] = "tier4"
    /\ IF service["account"] = None THEN Step(t, "tier5", arg[t])
       ELSE Step(t, "judge", [arg[t] EXCEPT !.ttl = service["account"]])
    /\ UNCHANGED <<registry, stored, clock, calls, answer, seen>>

(* Tiers 5-6, under the group map's lock, else 7-8.                        *)
ReadGroupTtl(t) ==
    /\ pc[t] = "tier5"
    /\ Step(t, "judge", [arg[t] EXCEPT !.ttl =
            FirstSet(<<GroupCascade(service), Fallback(slots[arg[t].slot])>>)])
    /\ UNCHANGED <<registry, stored, clock, calls, answer, seen>>

(* The age is judged by the clock now, and the guard dropped.              *)
Judge(t) ==
    /\ pc[t] = "judge"
    /\ guards' = guards \ {t}
    /\ Step(t, "idle", None)
    /\ answer' = [answer EXCEPT ![t] =
            [kind |-> IF Fresh(arg[t].quote, arg[t].ttl) THEN "quote" ELSE "expired",
             quote |-> arg[t].quote]]
    /\ UNCHANGED <<registry, slots, service, gate, clock, calls, seen>>

Tick ==
    /\ clock < MaxTime
    /\ clock' = clock + 1
    /\ UNCHANGED <<registry, stored, calls, pc, arg, answer, seen>>

-----------------------------------------------------------------------------

MarketInit ==
    /\ by_instrument = [i \in Instruments |-> None]
    /\ by_id = [i \in Ids |-> None]
    /\ next_auto_id = 0
    /\ slots = <<>>
    /\ service = NoService
    /\ gate = FALSE
    /\ guards = {}
    /\ clock = 0
    /\ calls = 0
    /\ pc = [t \in Threads |-> "idle"]
    /\ arg = [t \in Threads |-> None]
    /\ answer = [t \in Threads |-> Plain]
    /\ seen = [t \in Threads |-> {}]

Publishes(t) ==
    \/ \E i \in Instruments : register(t, i) \/ PushNamed(t, i)
    \/ \E i \in Instruments, id \in Ids : register_with_id(t, i, id)
    \/ ResolveNamed(t)
    \/ \E age \in SourceAges : ClockNamed(t, age)
    \/ \E id \in Ids, targets \in SUBSET Buckets \ {{}}, age \in SourceAges :
           Push(t, id, targets, age)
    \/ Store(t)
    \/ \E id \in Ids : Clear(t, id)

Tunes(t) ==
    \/ \E id \in Ids, tier \in Tunable \cap SlotTiers,
          ttl \in Lifetimes \cup {None} : SetSlotTtl(t, id, tier, ttl)
    \/ \E tier \in Tunable \cap ServiceTiers :
          \/ \E ttl \in Lifetimes : SetServiceTtl(t, tier, ttl)
          \/ ClearServiceTtl(t, tier)
    \/ mark_present(t)

Reads(t) ==
    \/ \E id \in Ids : Get(t, id)
    \/ ReadGate(t) \/ ReadAccountTtl(t) \/ ReadGroupTtl(t) \/ Judge(t)

MarketNext ==
    \/ \E t \in Threads : Publishes(t) \/ Tunes(t) \/ Reads(t)
    \/ Tick

MarketSpec == MarketInit /\ [][MarketNext]_marketVars

-----------------------------------------------------------------------------
(* Properties *)

(* An id handed out for an instrument stays its id, whoever else registers *)
(* or names the instrument at the same time, and no two instruments share  *)
(* an id or a slot (service.rs:218, 804).                                  *)
IdsStable ==
    /\ \A t \in Threads :
           answer[t].kind = "id" => by_instrument[answer[t].instrument] = answer[t].id
    /\ \A i, j \in Instruments :
           i # j /\ by_instrument[i] # None => by_instrument[i] # by_instrument[j]
    /\ \A i, j \in Ids : i # j /\ by_id[i] # None => by_id[i] # by_id[j]

(* The account map's lifetimes of one moment over the group map's of       *)
(* another.                                                                *)
Mixed(s1, s2) == [s2 EXCEPT !["account"] = s1["account"]]

(* Only one of the two maps, or neither, changed between these moments.    *)
OneMapChanged(moments) ==
    \/ \A s1, s2 \in moments : s1["account"] = s2["account"]
    \/ \A s1, s2 \in moments :
           s1["group"] = s2["group"] /\ s1["default"] = s2["default"]

(* The lifetime a read has found is the cascade's as it stood during the   *)
(* read.                                                                   *)
FoundInForce(t, s1, s2) ==
    /\ arg[t].ttl = effective_ttl(slots[arg[t].slot], Mixed(s1, s2))
    /\ OneMapChanged(seen[t]) => s1 = s2

JudgedInForce(t) ==
    pc[t] = "judge" => \E s1, s2 \in seen[t] : FoundInForce(t, s1, s2)

(* The lifetime has run out by now.                                        *)
RunOut(quote, ttl) ==
    ttl # Infinite /\ quote.pushed_at + ttl <= clock + quote.source_age

AnsweredInForce(t) ==
    pc[t] = "judge" /\ pc'[t] # "judge" =>
        LET slot == slots[arg[t].slot]
            q    == select_quote(slot)
        IN  \E s1, s2 \in seen[t] :
                /\ FoundInForce(t, s1, s2)
                /\ answer'[t].quote = q
                /\ answer'[t].kind =
                       IF RunOut(q, effective_ttl(slot, Mixed(s1, s2)))
                       THEN "expired" ELSE "quote"

(* A read answers the quote that its slot holds when it answers, and calls *)
(* it expired exactly if the clock has then passed the lifetime of the     *)
(* cascade as it stood during the read, never of one that a setter,        *)
(* returned before the read began, had already replaced.  The two service  *)
(* maps have a lock each, so a read may combine the account's lifetime of  *)
(* one moment with its group's of another; where only one of the maps      *)
(* changed during the read it does not: the cascade is that of a single    *)
(* moment (service.rs:170, 704, 730).                                      *)
LifetimeInForce == [][\A t \in Threads : AnsweredInForce(t)]_marketVars

-----------------------------------------------------------------------------
(* The inductive invariant behind the two properties *)

Ttls     == Lifetimes \cup {None}
Services == [ServiceTiers -> Ttls]
Quotes   == [pushed_at : Nat, source_age : SourceAges]
Slots    == [quotes : [Buckets -> Quotes \cup {None}], ttls : [SlotTiers -> Ttls]]

(* What a thread carries: an instrument by name, a quote to store, a read. *)
NameArgs  == [instrument : Instruments, id : Ids \cup {None}]
StoreArgs == [targets : SUBSET Buckets, id : Ids, quote : Quotes,
              named : Instruments \cup {None}]
ReadArgs  == [slot : Nat, quote : Quotes, ttl : Ttls \cup {DefaultTtl}]

ReadSteps == {"gate", "tier4", "tier5", "judge"}
Steps     == {"idle", "resolve", "named", "store", "mark"} \cup ReadSteps

Carries(step, a) ==
    /\ step \in {"resolve", "named"} => a \in NameArgs
    /\ step = "store" => a \in StoreArgs
    /\ step \in ReadSteps => a \in ReadArgs

Answers == {Plain} \cup [kind : {"id"}, instrument : Instruments, id : Ids]
                   \cup [kind : {"quote", "expired"}, quote : Quotes]

MarketTypeOK ==
    /\ by_instrument \in [Instruments -> Ids \cup {None}]
    /\ by_id \in [Ids -> (1..Len(slots)) \cup {None}]
    /\ next_auto_id \in Nat
    /\ slots \in Seq(Slots)
    /\ service \in Services
    /\ gate \in BOOLEAN
    /\ guards \subseteq Threads
    /\ clock \in Nat /\ calls \in Nat
    /\ pc \in [Threads -> Steps]
    /\ arg \in [Threads -> {None} \cup NameArgs \cup StoreArgs \cup ReadArgs]
    /\ \A t \in Threads : Carries(pc[t], arg[t])
    /\ answer \in [Threads -> Answers]
    /\ seen \in [Threads -> SUBSET Services]

(* Every id that an instrument has, a thread carries or an answer names is *)
(* registered, and no two share an instrument, an id or a slot.            *)
Registered ==
    /\ \A i \in Instruments :
           by_instrument[i] # None => by_id[by_instrument[i]] # None
    /\ \A i, j \in Instruments :
           i # j /\ by_instrument[i] # None => by_instrument[i] # by_instrument[j]
    /\ \A i, j \in Ids : i # j /\ by_id[i] # None => by_id[i] # by_id[j]

Names(t) ==
    /\ pc[t] = "named" => /\ arg[t].id # None
                          /\ by_instrument[arg[t].instrument] = arg[t].id
    /\ pc[t] = "store" =>
           /\ by_id[arg[t].id] # None
           /\ arg[t].named # None => by_instrument[arg[t].named] = arg[t].id
    /\ answer[t].kind = "id" => by_instrument[answer[t].instrument] = answer[t].id

(* The gate is shut only over empty maps or before the first setter has    *)
(* returned.                                                               *)
GateShut == gate \/ service = NoService \/ \E t \in Threads : pc[t] = "mark"

(* A read holds its slot's guard, so the quote it selected stands, and has *)
(* met what the maps hold now; while it has not found a lifetime, its slot *)
(* has none in tiers 1-3.                                                  *)
Sees(t) ==
    /\ t \in guards <=> pc[t] \in ReadSteps
    /\ pc[t] \in ReadSteps => arg[t].slot \in 1..Len(slots) /\ service \in seen[t]
    /\ pc[t] \in ReadSteps => arg[t].quote = select_quote(slots[arg[t].slot])
    /\ pc[t] \in {"gate", "tier4", "tier5"} => SlotCascade(slots[arg[t].slot]) = None
    /\ pc[t] = "gate" /\ ~gate => NoService \in seen[t]
    /\ pc[t] = "tier5" => \E s \in seen[t] : s["account"] = None

MarketInv ==
    /\ MarketTypeOK /\ Registered /\ GateShut
    /\ \A t \in Threads : Names(t) /\ Sees(t) /\ JudgedInForce(t)

=============================================================================
