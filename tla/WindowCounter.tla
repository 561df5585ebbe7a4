---------------------------- MODULE WindowCounter ----------------------------
(***************************************************************************)
(* AtomicWindowCounter of the rate-limit policy                            *)
(* (crates/openpit/src/pretrade/policies/rate_limit.rs): the lock-free     *)
(* fixed-window counter of the broker and asset axes.  Each atomic access  *)
(* is a step of its own.  A thread reads the clock and the settings before *)
(* it pushes, so it may arrive with an old reading, or with a limit that   *)
(* has been retuned since; the counter survives every retune.              *)
(***************************************************************************)
EXTENDS Integers, Sequences, FiniteSets

CONSTANTS
    Callers,    \* threads that check
    Limits,     \* the rate limits a configuration may hold
    MinWindow,  \* no limit has a shorter window
    MaxOrders,  \* no limit allows more orders in its window
    LastTick,   \* bound on the clock
    MaxChecks   \* bound on the checks made

ASSUME CounterAssumption ==
    /\ MinWindow \in Nat \ {0}
    /\ MaxOrders \in Nat
    /\ Limits # {}
    /\ Limits \subseteq [window : Nat, max_orders : Nat]
    /\ \A l \in Limits : l.window >= MinWindow /\ l.max_orders <= MaxOrders

ASSUME BoundsAssumption ==
    IsFiniteSet(Callers) /\ LastTick \in Nat /\ MaxChecks \in Nat

VARIABLES
    count, window_start,  \* the two atomics
    time,                 \* nanoseconds since the policy's epoch
    cell,                 \* the limit in the settings cell
    pc, now, limit,       \* each thread's step, clock reading, limit snapshot
    win_start,            \* the window start each thread has loaded
    admits,               \* the readings of the admitted orders, oldest first
    resets, stores,       \* windows opened; counts reset to 1
    checks

counterVars == <<count, window_start, time, cell, pc, now, limit, win_start,
          admits, resets, stores, checks>>

Steps == {"idle", "load", "cas", "store", "add", "peek", "peek_count"}

TypeOK ==
    /\ count \in Nat /\ window_start \in Nat /\ time \in Nat
    /\ cell \in Limits
    /\ pc \in [Callers -> Steps]
    /\ now \in [Callers -> Nat]
    /\ limit \in [Callers -> Limits]
    /\ win_start \in [Callers -> Nat]
    /\ admits \in Seq(Nat)
    /\ resets \in Nat /\ stores \in Nat /\ checks \in Nat

CounterInit ==
    /\ count = 0 /\ window_start = 0 /\ time = 0
    /\ cell \in Limits
    /\ pc = [t \in Callers |-> "idle"]
    /\ now = [t \in Callers |-> 0]
    /\ limit = [t \in Callers |-> cell]
    /\ win_start = [t \in Callers |-> 0]
    /\ admits = <<>>
    /\ resets = 0 /\ stores = 0 /\ checks = 0

(* Mutant: plain subtraction, which wraps for a reading before the start. *)
WrappingRolledOver(n, start, window) == n < start \/ n - start >= window

rolled_over(n, start, window) == n >= start /\ n - start >= window

(* The order is admitted unless its count breaches the limit. *)
OverLimit(n, l) == n > l.max_orders

Answer(t, n) ==
    /\ pc' = [pc EXCEPT ![t] = "idle"]
    /\ admits' = IF OverLimit(n, limit[t]) THEN admits ELSE Append(admits, now[t])

GoTo(t, step) == pc' = [pc EXCEPT ![t] = step]

(* Time passes. *)
CounterTick ==
    /\ time < LastTick
    /\ time' = time + 1
    /\ UNCHANGED <<count, window_start, cell, pc, now, limit, win_start,
                   admits, resets, stores, checks>>

(* set_broker / set_asset_barriers: a surviving slot keeps its counter. *)
CounterRetune ==
    /\ cell' \in Limits \ {cell}
    /\ UNCHANGED <<count, window_start, time, pc, now, limit, win_start,
                   admits, resets, stores, checks>>

(* check_start reads the clock, then takes the settings snapshot. *)
CounterBegin(t) ==
    /\ pc[t] = "idle"
    /\ checks < MaxChecks
    /\ checks' = checks + 1
    /\ now' = [now EXCEPT ![t] = time]
    /\ limit' = [limit EXCEPT ![t] = cell]
    /\ \E step \in {"load", "peek"} : GoTo(t, step)
    /\ UNCHANGED <<count, window_start, time, cell, win_start, admits,
                   resets, stores>>

(* push: load the window start and decide whether the window is over. *)
Load(t) ==
    /\ pc[t] = "load"
    /\ win_start' = [win_start EXCEPT ![t] = window_start]
    /\ GoTo(t, IF rolled_over(now[t], window_start, limit[t].window)
               THEN "cas" ELSE "add")
    /\ UNCHANGED <<count, window_start, time, cell, now, limit, admits,
                   resets, stores, checks>>

(* Mutant: a thread that loses the compare-exchange resets the count too. *)
LoserResets(t) ==
    /\ pc[t] = "cas"
    /\ window_start' = IF window_start = win_start[t] THEN now[t] ELSE window_start
    /\ resets' = resets + 1
    /\ GoTo(t, "store")
    /\ UNCHANGED <<count, time, cell, now, limit, win_start, admits,
                   stores, checks>>

(* push: the compare-exchange opens a window for one of the threads. *)
CompareExchange(t) ==
    /\ pc[t] = "cas"
    /\ \/ /\ window_start = win_start[t]
          /\ window_start' = now[t]
          /\ resets' = resets + 1
          /\ GoTo(t, "store")
       \/ /\ window_start # win_start[t]
          /\ GoTo(t, "add")
          /\ UNCHANGED <<window_start, resets>>
    /\ UNCHANGED <<count, time, cell, now, limit, win_start, admits,
                   stores, checks>>

(* push: the winner resets the count to its own order. *)
StoreCount(t) ==
    /\ pc[t] = "store"
    /\ count' = 1
    /\ stores' = stores + 1
    /\ Answer(t, 1)
    /\ UNCHANGED <<window_start, time, cell, now, limit, win_start,
                   resets, checks>>

(* push: everyone else counts with fetch_add. *)
FetchAdd(t) ==
    /\ pc[t] = "add"
    /\ count' = count + 1
    /\ Answer(t, count + 1)
    /\ UNCHANGED <<window_start, time, cell, now, limit, win_start,
                   resets, stores, checks>>

(* peek, of a dry run: load the window start. *)
PeekStart(t) ==
    /\ pc[t] = "peek"
    /\ win_start' = [win_start EXCEPT ![t] = window_start]
    /\ GoTo(t, IF rolled_over(now[t], window_start, limit[t].window)
               THEN "idle" ELSE "peek_count")
    /\ UNCHANGED <<count, window_start, time, cell, now, limit, admits,
                   resets, stores, checks>>

(* peek: load the count; a dry run admits nothing. *)
PeekCount(t) ==
    /\ pc[t] = "peek_count"
    /\ GoTo(t, "idle")
    /\ UNCHANGED <<count, window_start, time, cell, now, limit,
                   win_start, admits, resets, stores, checks>>

Thread(t) ==
    \/ CounterBegin(t) \/ Load(t) \/ CompareExchange(t) \/ StoreCount(t)
    \/ FetchAdd(t) \/ PeekStart(t) \/ PeekCount(t)

CounterNext == CounterTick \/ CounterRetune \/ \E t \in Callers : Thread(t)

CounterSpec == CounterInit /\ [][CounterNext]_counterVars

-----------------------------------------------------------------------------
(* The long-run rate of rate_limit.rs:392-404: whatever the interleaving,  *)
(* the late readings and the retunes, the counter never admits more than   *)
(* one budget per elapsed window and one more, since only a                *)
(* compare-exchange that moves the window start by a whole window earns    *)
(* a reset.                                                                *)
LongRunRate == Len(admits) <= MaxOrders * (1 + time \div MinWindow)

(* "the window start only moves forward" (rate_limit.rs:368-371), also for *)
(* a delayed thread whose reading is older than the current window.        *)
WindowStartForward == [][window_start' >= window_start]_counterVars

(* The burst bound of the doc (rate_limit.rs:363-366, 438-440): the orders *)
(* admitted with readings in one span of a window's length are at most     *)
(* twice the limit.                                                        *)
BurstAtMostTwice ==
    \A from \in 0 .. time :
        Cardinality({i \in DOMAIN admits :
                        admits[i] \in from .. from + MinWindow - 1})
            <= 2 * MaxOrders
=============================================================================
