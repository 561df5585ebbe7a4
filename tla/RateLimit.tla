------------------------------ MODULE RateLimit ------------------------------
(***************************************************************************)
(* The rate-limit policy (crates/openpit/src/pretrade/policies/            *)
(* rate_limit.rs): the start-stage check on its four axes, the sliding     *)
(* logs of the account axes, the setters of a retune, and retirement.      *)
(*                                                                         *)
(* A check reads the clock and one settings snapshot, then counts on every *)
(* applicable axis, one access after another, and only then resolves.  A   *)
(* push on a fixed-window counter is one step here; module WindowCounter   *)
(* splits it into its atomic accesses.                                     *)
(***************************************************************************)
EXTENDS Integers, Sequences, FiniteSets, SequencesExt

CONSTANTS
    Threads, Accounts, Assets,
    BrokerLimits, AssetLimits,      \* limits the setters may be given
    AccountLimits, PairLimits,
    None,                           \* no barrier, no field
    ShortestWindow, LargestBudget,  \* of all valid limits
    MaxTime, MaxCalls, MaxRetunes   \* bounds

Pairs == Accounts \X Assets
Keys == Accounts \cup Pairs
AllLimits == BrokerLimits \cup AssetLimits \cup AccountLimits \cup PairLimits

(* validate_limit: a zero window is refused. *)
validate_limit(l) == l # None => l.window # 0

ASSUME AssetsAssumption == IsFiniteSet(Assets)

(* The logs of accounts and of pairs are kept apart. *)
ASSUME KeysAssumption == IsFiniteSet(Threads) /\ Accounts \cap Pairs = {}

ASSUME LimitsAssumption ==
    /\ ShortestWindow \in Nat \ {0} /\ LargestBudget \in Nat /\ MaxTime \in Nat
    /\ AllLimits \ {None} \subseteq [window : Nat, max_orders : Nat]
    /\ \A l \in AllLimits \ {None} :
          validate_limit(l) => /\ l.window >= ShortestWindow
                               /\ l.max_orders <= LargestBudget

VARIABLES
    settings,   \* the published RateLimitSettings
    counters,   \* the fixed-window counters ever created
    logs,       \* [Keys -> Seq]: the sliding-window logs
    clock,
    check,      \* each thread's check in progress
    retunes, calls,
    done,         \* [Keys -> bag of readings]: checks resolved
    admitted,     \* [Keys -> Seq]: the readings of the orders the axis let through
    late,         \* keys that have seen a reading older than a previous one
    granted       \* orders let through by each installation of a slot

vars == <<settings, counters, logs, clock, check, retunes, calls, done,
          admitted, late, granted>>

Axes == <<"broker", "asset", "account", "account_asset">>
Times == 0 .. MaxTime
NoReadings == [time \in Times |-> 0]

Idle == [step |-> 0, now |-> 0, record |-> FALSE, account |-> None,
         asset |-> None, snapshot |-> None, over |-> {}]

Init ==
    /\ settings = [broker |-> None, assets |-> [x \in Assets |-> None],
                   accounts |-> [a \in Accounts |-> None],
                   pairs |-> [p \in Pairs |-> None]]
    /\ counters = <<>>
    /\ logs = [k \in Keys |-> <<>>]
    /\ clock = 0
    /\ check = [t \in Threads |-> Idle]
    /\ retunes = 0 /\ calls = 0
    /\ done = [k \in Keys |-> NoReadings]
    /\ admitted = [k \in Keys |-> <<>>]
    /\ late = {}
    /\ granted = <<>>

-----------------------------------------------------------------------------
(* The fixed-window counter, one push or peek as a whole. *)

window_over(c, now, window) == now >= c.start /\ now - c.start >= window

push(c, now, window) ==
    IF window_over(c, now, window) THEN [start |-> now, count |-> 1]
                                   ELSE [c EXCEPT !.count = @ + 1]

(* The sliding-window log. *)

entry_expired(entry, now, window) == now >= entry /\ now - entry >= window

(* partition_point over a log that its time order has split in two. *)
ExpiredPrefix(log, now, window) ==
    CHOOSE n \in 0 .. Len(log) :
        /\ \A i \in 1 .. n : entry_expired(log[i], now, window)
        /\ n < Len(log) => ~entry_expired(log[n + 1], now, window)

(* Mutant: the order itself is left out of the count. *)
CountBefore(log, now, window) == Len(log) - ExpiredPrefix(log, now, window)

window_count(log, now, window) ==
    Len(log) - ExpiredPrefix(log, now, window) + 1

advance_window(log, now, window) ==
    SubSeq(log, ExpiredPrefix(log, now, window) + 1, Len(log))

NotAfter(log, now) ==
    CHOOSE n \in 0 .. Len(log) : /\ \A i \in 1 .. n : log[i] <= now
                                 /\ n < Len(log) => log[n + 1] > now

insert_in_time_order(log, now) ==
    IF log # <<>> /\ Last(log) > now THEN InsertAt(log, NotAfter(log, now) + 1, now)
                                     ELSE Append(log, now)

-----------------------------------------------------------------------------
(* Which key, slot or limit of its snapshot a check counts on. *)
AxisKey(c, axis) == IF axis = "account" THEN c.account ELSE <<c.account, c.asset>>

Barrier(c, axis) ==
    LET s == c.snapshot IN
    CASE axis = "broker" -> s.broker
      [] axis = "asset" -> s.assets[c.asset]
      [] axis = "account" -> s.accounts[c.account]
      [] axis = "account_asset" -> s.pairs[<<c.account, c.asset>>]

Fixed == {"broker", "asset"}
Sliding == {"account", "account_asset"}
Configured(f) == \E k \in DOMAIN f : f[k] # None
needs_settlement(s) == Configured(s.assets) \/ Configured(s.pairs)
needs_account(s) == Configured(s.accounts) \/ Configured(s.pairs)

over_limit(count, l) == count > l.max_orders

Tick ==
    /\ clock < MaxTime
    /\ clock' = clock + 1
    /\ UNCHANGED <<settings, counters, logs, check, retunes, calls, done,
                   admitted, late, granted>>

(* A check that records has been through an axis that counts under k. *)
Counted(c, k) ==
    c.record /\ \E n \in 1 .. 4 : /\ n < c.step /\ Axes[n] \in Sliding
                                 /\ AxisKey(c, Axes[n]) = k /\ Barrier(c, Axes[n]) # None

WithReading(bag, c) ==
    [k \in Keys |-> IF Counted(c, k) THEN [bag[k] EXCEPT ![c.now] = @ + 1] ELSE bag[k]]

(* check_start: the clock, then the snapshot, then the order's fields; an  *)
(* order whose field cannot be read is rejected before anything counts.    *)
Begin(t) ==
    /\ check[t].step = 0
    /\ calls < MaxCalls
    /\ calls' = calls + 1
    /\ \E account \in Accounts, asset \in Assets, record, readable \in BOOLEAN :
          LET c == [step |-> 1, now |-> clock, record |-> record,
                    account |-> account, asset |-> asset,
                    snapshot |-> settings, over |-> {}]
          IN  IF ~readable /\ (needs_settlement(settings) \/ needs_account(settings))
              THEN UNCHANGED check
              ELSE /\ readable
                   /\ check' = [check EXCEPT ![t] = c]
    /\ UNCHANGED <<settings, counters, logs, clock, retunes, done, admitted,
                   late, granted>>

(* The result of counting: over the limit or not, and on to the next axis. *)
Judge(t, axis, over) ==
    check' = [check EXCEPT ![t].step = @ + 1,
                           ![t].over = IF over THEN @ \cup {axis} ELSE @]

(* fixed_window_count on the broker or asset axis. *)
CountFixed(t) ==
    LET c == check[t]
        axis == Axes[c.step]
        slot == Barrier(c, axis)
        pushed == push(counters[slot.counter], c.now, slot.limit.window)
        over == over_limit(pushed.count, slot.limit)
    IN  /\ c.step \in 1 .. 4 /\ axis \in Fixed
        /\ slot # None
        /\ Judge(t, axis, over)
        /\ IF c.record
           THEN /\ counters' = [counters EXCEPT ![slot.counter] = pushed]
                /\ granted' = IF over THEN granted
                              ELSE [granted EXCEPT ![slot.installed] = @ + 1]
           ELSE UNCHANGED <<counters, granted>>
        /\ UNCHANGED <<settings, logs, clock, retunes, calls, done,
                       admitted, late>>

(* sliding_window_count: count, trim and insert in one access to the log.  *)
CountSliding(t) ==
    LET c == check[t]
        axis == Axes[c.step]
        l == Barrier(c, axis)
        k == AxisKey(c, axis)
        count == window_count(logs[k], c.now, l.window)
        over == over_limit(count, l)
    IN  /\ c.step \in 1 .. 4 /\ axis \in Sliding
        /\ l # None
        /\ Judge(t, axis, over)
        /\ IF c.record
           THEN /\ logs' = [logs EXCEPT ![k] = insert_in_time_order(
                                advance_window(@, c.now, l.window), c.now)]
                /\ late' = IF \E i \in DOMAIN logs[k] : logs[k][i] > c.now
                           THEN late \cup {k} ELSE late
                /\ admitted' = IF over THEN admitted
                               ELSE [admitted EXCEPT ![k] = Append(@, c.now)]
           ELSE UNCHANGED <<logs, late, admitted>>
        /\ UNCHANGED <<settings, counters, clock, retunes, calls, done,
                       granted>>

(* Mutant: an order that already breached an axis counts on no other. *)
SkipWhenOver(t) ==
    /\ check[t].step \in 1 .. 4
    /\ Barrier(check[t], Axes[check[t].step]) = None \/ check[t].over # {}
    /\ check' = [check EXCEPT ![t].step = @ + 1]
    /\ UNCHANGED <<settings, counters, logs, clock, retunes, calls, done, admitted, late, granted>>

(* An axis with no barrier for the order is passed over. *)
SkipAxis(t) ==
    /\ check[t].step \in 1 .. 4
    /\ Barrier(check[t], Axes[check[t].step]) = None
    /\ check' = [check EXCEPT ![t].step = @ + 1]
    /\ UNCHANGED <<settings, counters, logs, clock, retunes, calls, done, admitted, late, granted>>

(* All axes have counted: the check is resolved. *)
Resolve(t) ==
    /\ check[t].step = 5
    /\ done' = WithReading(done, check[t])
    /\ check' = [check EXCEPT ![t] = Idle]
    /\ UNCHANGED <<settings, counters, logs, clock, retunes, calls, admitted, late, granted>>

-----------------------------------------------------------------------------
(* Mutant: a retune starts a fresh window for a surviving slot. *)
FreshSlot(old, l, fresh) ==
    IF l = None THEN None
    ELSE IF old = None THEN [counter |-> fresh, installed |-> fresh, limit |-> l]
    ELSE [old EXCEPT !.limit = l, !.counter = fresh]

(* A setter carries the live counter of a surviving slot over. *)
Slot(old, l, fresh) ==
    IF l = None THEN None
    ELSE IF old = None THEN [counter |-> fresh, installed |-> fresh, limit |-> l]
    ELSE [old EXCEPT !.limit = l]

fresh_counter == [start |-> 0, count |-> 0]

(* Each retune may use one new counter per key it sets. *)
Allocate(n) ==
    /\ counters' = counters \o [i \in 1 .. n |-> fresh_counter]
    /\ granted' = granted \o [i \in 1 .. n |-> 0]

Retune ==
    /\ retunes < MaxRetunes
    /\ retunes' = retunes + 1
    /\ UNCHANGED <<logs, clock, check, calls, done, admitted, late>>

set_broker ==
    /\ Retune
    /\ \E l \in BrokerLimits \cup {None} :
          /\ validate_limit(l)
          /\ settings' = [settings EXCEPT !.broker = Slot(@, l, Len(counters) + 1)]
    /\ Allocate(1)

set_asset_barriers ==
    /\ Retune
    /\ \E f \in [Assets -> AssetLimits \cup {None}] :
          /\ \A x \in Assets : validate_limit(f[x])
          /\ LET ids == SetToSeq(Assets)
                 id(x) == Len(counters) + (CHOOSE i \in DOMAIN ids : ids[i] = x)
             IN  settings' = [settings EXCEPT !.assets =
                                 [x \in Assets |-> Slot(@[x], f[x], id(x))]]
    /\ Allocate(Cardinality(Assets))

set_account_barriers ==
    /\ Retune
    /\ \E f \in [Accounts -> AccountLimits \cup {None}] :
          /\ \A a \in Accounts : validate_limit(f[a])
          /\ settings' = [settings EXCEPT !.accounts = f]
    /\ UNCHANGED <<counters, granted>>

set_account_asset_barriers ==
    /\ Retune
    /\ \E f \in [Pairs -> PairLimits \cup {None}] :
          /\ \A p \in Pairs : validate_limit(f[p])
          /\ settings' = [settings EXCEPT !.pairs = f]
    /\ UNCHANGED <<counters, granted>>

Own(a) == {a} \cup ({a} \X Assets)

(* retire_account: refused while the configuration names the account; the  *)
(* commit removes its logs.  By the caller's contract no check of the      *)
(* account is under way.  What was counted before is no longer of interest.*)
retire_account(a) ==
    /\ \A t \in Threads : check[t].step # 0 => check[t].account # a
    /\ settings.accounts[a] = None
    /\ \A x \in Assets : settings.pairs[<<a, x>>] = None
    /\ \E k \in Own(a) : logs[k] # <<>>
    /\ logs' = [k \in Keys |-> IF k \in Own(a) THEN <<>> ELSE logs[k]]
    /\ done' = [k \in Keys |-> IF k \in Own(a) THEN NoReadings ELSE done[k]]
    /\ admitted' = [k \in Keys |-> IF k \in Own(a) THEN <<>> ELSE admitted[k]]
    /\ late' = late \ Own(a)
    /\ UNCHANGED <<settings, counters, clock, check, retunes, calls, granted>>

Next ==
    \/ Tick
    \/ \E t \in Threads : Begin(t) \/ CountFixed(t) \/ CountSliding(t)
                             \/ SkipAxis(t) \/ Resolve(t)
    \/ set_broker \/ set_asset_barriers \/ set_account_barriers
    \/ set_account_asset_barriers
    \/ \E a \in Accounts : retire_account(a)

Spec == Init /\ [][Next]_vars

-----------------------------------------------------------------------------
Newest(k) == IF logs[k] = <<>> THEN 0 ELSE Last(logs[k])
At(log, reading) == Cardinality({i \in DOMAIN log : log[i] = reading})

(* Flood semantics and the sliding log (rate_limit.rs:708-714, 820-846):   *)
(* every resolved check, rejected ones included, that is younger than the  *)
(* shortest window is still in the log of every axis that applied to it,   *)
(* through late readings, trims and retunes.                               *)
NothingForgotten ==
    \A k \in Keys, reading \in Times :
        reading > Newest(k) - ShortestWindow => At(logs[k], reading) >= done[k][reading]

(* "precise sliding-window logs" (rate_limit.rs:440-441): no span of a     *)
(* window's length holds more admitted orders than the limit.              *)
Precise(k) ==
    \A from \in Times :
        Cardinality({i \in DOMAIN admitted[k] :
                        admitted[k][i] \in from .. from + ShortestWindow - 1}) <= LargestBudget

PreciseSlidingWindow == \A k \in Keys : Precise(k)

(* The same where the checks of a key come in the order of their readings, *)
(* as the per-account sequential use of an engine guarantees.              *)
PreciseInOrder == \A k \in Keys \ late : Precise(k)

(* "a retune never resets the live window" (rate_limit.rs:373-377): the    *)
(* orders let through since a slot was installed stay within one budget    *)
(* per elapsed window and one more, however often its limit was retuned.   *)
RetuneKeepsBudget ==
    \A i \in DOMAIN granted :
        granted[i] <= LargestBudget * (1 + clock \div ShortestWindow)

-----------------------------------------------------------------------------
(* The inductive invariant behind RetuneKeepsBudget.  The settings, those  *)
(* published and those a check works from, name counters that exist, of    *)
(* n, and limits that were validated.                                      *)
Slots == {None} \cup [counter : Nat, installed : Nat, limit : AllLimits]
Settings == [broker : Slots, assets : [Assets -> Slots],
             accounts : [Accounts -> AccountLimits \cup {None}],
             pairs : [Pairs -> PairLimits \cup {None}]]

KnownSlot(slot, n) ==
    slot # None => /\ slot.counter \in 1 .. n
                   /\ slot.installed = slot.counter
                   /\ slot.limit # None /\ validate_limit(slot.limit)
Known(s, n) ==
    s \in Settings /\ KnownSlot(s.broker, n) /\ \A x \in Assets : KnownSlot(s.assets[x], n)

BudgetTypeOK ==
    /\ clock \in Nat /\ Known(settings, Len(counters))
    /\ counters \in Seq([start : Nat, count : Nat])
    /\ granted \in Seq(Nat) /\ Len(granted) = Len(counters)
    /\ check \in [Threads -> [step : 0 .. 5, now : Nat, record : BOOLEAN,
                              account : Accounts \cup {None}, asset : Assets \cup {None},
                              snapshot : Settings \cup {None},
                              over : SUBSET {"broker", "asset", "account", "account_asset"}]]

UnderWay ==
    \A t \in Threads : check[t].step # 0 =>
        /\ check[t].now <= clock /\ check[t].asset \in Assets
        /\ Known(check[t].snapshot, Len(counters))

(* What an installation has let through is paid for: a budget for every    *)
(* window that the start of its counter has left behind, and one order for *)
(* every order counted in the current window, up to a budget.              *)
Paid(c, n) ==
    \E k \in Nat : /\ k * ShortestWindow <= c.start
                   /\ n <= LargestBudget * k + c.count
                   /\ n <= LargestBudget * k + LargestBudget

BudgetInv ==
    /\ BudgetTypeOK /\ UnderWay
    /\ \A i \in DOMAIN counters : counters[i].start <= clock /\ Paid(counters[i], granted[i])

-----------------------------------------------------------------------------
(* The inductive invariant behind NothingForgotten and PreciseInOrder.     *)
(* The logs are in time order.  For every reading that no limit's window   *)
(* has passed yet, the log holds an entry for each check that is resolved  *)
(* and each that is under way and has counted; and for every order let     *)
(* through since such a reading.                                           *)
Validated(s) ==
    /\ \A a \in Accounts : validate_limit(s.accounts[a])
    /\ \A p \in Pairs : validate_limit(s.pairs[p])

InOrder(log) == \A m, n \in DOMAIN log : m <= n => log[m] <= log[n]
InFlight(k, reading) == {t \in Threads : Counted(check[t], k) /\ check[t].now = reading}
Since(s, from) == Cardinality({i \in DOMAIN s : s[i] >= from})

LogTypeOK ==
    /\ clock \in Times
    /\ logs \in [Keys -> Seq(Nat)] /\ admitted \in [Keys -> Seq(Nat)]
    /\ done \in [Keys -> [Times -> Nat]]
    /\ Validated(settings)
    /\ \A t \in Threads : check[t].step # 0 => /\ Validated(check[t].snapshot)
                                               /\ check[t].account \in Accounts

LogInv(k) ==
    /\ InOrder(logs[k])
    /\ \A reading \in Times : reading > Newest(k) - ShortestWindow =>
          /\ At(logs[k], reading) >= done[k][reading] + Cardinality(InFlight(k, reading))
          /\ Since(logs[k], reading) >= Since(admitted[k], reading)
    /\ k \notin late => Precise(k)

LogsInv == LogTypeOK /\ \A k \in Keys : LogInv(k)
=============================================================================
