# A formal model of the openpit pre-trade engine

openpit is an embeddable pre-trade risk engine. A caller asks it whether an
order may go out, gets a reservation when it may, and later feeds it execution
reports, drop copies, account adjustments and administrative commands. An
ordered list of policies (built in, or written by the user of the library)
keeps the state the answers depend on. With `FullSync` all of these calls may
run at the same time on any number of threads. That is the mode modelled here:
there is hardly a lock that is held across two accesses, so the correctness of
the engine lies in protocols: flags and maps read one after the other,
provisional values that other threads build on, compensation by inverse deltas,
lock-free counters, a two-level lease. The Go binding puts an asynchronous
engine on top: one queue and one worker per account.

Paths are relative to `crates/openpit/src`, those with `go/` to `bindings/`.

## 1. Inventory

| Component | State | Operations | What is hard |
|---|---|---|---|
| Blocked set, `core/account_control.rs` | cause per account, cause per group, global cause, three index flags, `mutation_guard` | block, unblock, replace reason, for accounts, groups, everyone; invalidate by provenance; `check` | `check` takes no lock: its reads interleave with every step of a mutator |
| Group registry, `core/account_groups.rs` | group of each account | register, unregister, retire | read by a check in flight |
| State-transition coordinator, `core/accounts.rs` | readers, waiting writers, writer | shared, bypassing shared, exclusive | writer preference against bypass, together with the PnL lease |
| Mutations, `core/mutation.rs` | commit/rollback pairs in registration order | `commit_all`, `rollback_all` | a finalizer fails half way; order of compensation |
| Pipelines, `core/engine.rs` | none of its own: calls on the stack | `start_pre_trade`, `execute`, `apply_drop_copy`, `apply_execution_report`, `apply_account_adjustment`, `retire_account` | no lock across hooks, finalizers and blocks; partial failure |
| Requests, reservations, `pretrade/` | mutations waiting for their owner | execute, commit, rollback, drop | lives for as long as the caller likes |
| Spot funds: account PnL, `pretrade/policies/spot_funds/` | value or halt, token of the open assertion, PnL lease, count of active holdings mutations | assert, add a delta, halt, commit, roll back, retire | deltas land on provisional values; blocks judged on them |
| Spot funds: holdings, `pretrade/holdings/` | available, held, incoming per account and asset; an index of assets by account | hold, fill, cancel, adjust, create and remove slots | compensation after fills and absolute adjustments; index and slots in two accesses |
| Rate limit | fixed-window counters, sliding logs | check on four axes, retune, retire | lock-free window rollover, clock readings that arrive late |
| PnL kill switch | realized PnL per account and asset, barriers | accumulate, check, retune, force, retire | settings and PnL are read one after the other, without a lock |
| Order size, validation | settings only | hooks | stateless |
| Runtime configuration, `core/configure.rs`, `storage/config_cell.rs` | settings snapshots | prepare, publish, sweep | readers keep an old snapshot |
| Market data, `marketdata/` | instruments, quotes, lifetimes | register, push, set lifetimes, read | a read crosses four locks and a gate |
| Storage, `storage/` | maps with a lock per key or none | keyed access | chosen by the sync mode |
| Go asynchronous engine, `go/asyncengine/` | a lane per account or shard, a backlog of releases, sections, a stop | submit, retire idle lanes, exclusive section, stop; chains of operations; asynchronous handles | lanes come and go under submissions; contexts expire; hooks panic; readers race finalizers |
| C++ asynchronous engine | the same | the same | the same |
| FFI, bindings, value types | handles, decimals | conversions | |

How they interact. Every pipeline first consults the blocked set, then calls the
policies in registration order. A policy writes its state at once and registers
a mutation that can commit or undo the write. The pipeline, or the owner of the
reservation, runs the finalizers, arms the kill switch if one failed, and writes
the blocks the policies asked for. Spot funds takes the coordinator's shared
lease around each state write, and the account's PnL lease while an assertion is
open. Administrative changes take the coordinator exclusively.

What makes each part correct: a block in force is never missed and is lifted
only by whom it belongs to; a state writer sees one configuration; leases are
released and nobody waits forever; a call is all or nothing; a rolled-back
assertion leaves exactly what everybody else did; a failed finalizer is visible;
funds are held once and books balance; budgets are neither leaked nor handed out
twice; an account in breach of a barrier cannot trade; operations of one key
take effect in order and a stop leaves nothing behind; a native handle is
resolved once and not used after.

`PROJECT.json` lists the components and, under `hazards`, the places where
these can go wrong.

## 2. Modules

| Module | Models | One step is |
|---|---|---|
| `BlockedAccounts` | the blocked set and the group registry | one access of a flag or of a map |
| `PnlLease` | the re-entrant PnL lease, as operators on a lease value | |
| `StateTransition` | the coordinator with everything that waits for it or for the PnL lease: reports, batches, finalizers, transitions, retirement | one acquisition or release |
| `AccountPnl` | the PnL line of one account and its block | one access of the entry, the lease or the blocked set |
| `Engine` | the pipelines over an ordered list of policies | one hook, one finalizer or one write of the blocked set |
| `RateLimit` | the rate-limit policy: four axes, retune, retirement | the count on one axis |
| `WindowCounter` | `AtomicWindowCounter` | one atomic access |
| `Holdings` | orders and adjustments on the holdings of one account | one access of a slot |
| `HoldingsIndex` | the holdings store and its index by account | one access of the storage, or half of an index closure |
| `BarrierRetune` | retune of the realized PnL barriers beside reports, orders and administration | one section of the code between two shared accesses |
| `KillSwitch` | the PnL bounds kill switch of one account | one shared access |
| `MarketData` | registry, quotes, lifetime cascade | one lock section |
| `AsyncEngine` | the Go queue strategies, sections and stops | one critical section or channel operation |
| `KeyedExecutor` | what they promise, in five actions | |
| `Chain` | one chain of the Go engine | one hook, driver call or handle access |
| `AsyncHandle` | asynchronous reservation or drop copy over a native handle | one section under its mutex or one native access |
| `HandleAccess` | what the handle promises the native object | |
| `StateTransitionProofs`, `EngineProofs`, `AsyncEngineProofs` | theorems about the module of that name | |
| `RegistriesProofs` | theorems about `BlockedAccounts`, `MarketData` | |
| `PolicyProofs` | theorems about `WindowCounter`, `RateLimit`, `AccountPnl` | |
| `ReservationProofs` | theorems about `HoldingsIndex`, `Holdings`, `AsyncHandle`, `Chain` | |
| `BarrierProofs` | theorems about `BarrierRetune`, `KillSwitch` | |
| `AsyncOrderProofs` | theorems about `AsyncEngine` that rest on those of `AsyncEngineProofs`: order and refinement | |

The modules look at the same calls from different levels. `Engine` has the whole
pipeline with a PnL assertion as one kind of mutation; `AccountPnl` takes that
assertion apart; `StateTransition` keeps only what its thread holds while it
runs; `BlockedAccounts` takes apart the single write of the blocked set that the
others make. `BarrierRetune` takes the coordinator as a readers-writer lock.
`RateLimit` counts a fixed window in one step and `WindowCounter` splits that
step. `Chain` runs on a lane of `AsyncEngine`, which knows it as one task.

**BlockedAccounts.** `accounts`, `blocked_groups`, `global_block` and the three
flags are the fields of the same names; `memberships` is the registry.
Each operation of the source is an action named like it that takes
`mutation_guard` and does the first access, followed by the flag stores and
probes it makes (`StoreAny`, `ProbeAccounts`, `ClearAny`, ...) until `Unlock`.
`check` is `CallCheck`, `LoadAll`, `LoadAny`, `LoadGroups`, `LookupAccounts`,
`GroupOf`, `LookupGroups`, `LookupGlobal`. `settled...` records which blocks have
returned to their caller and have not begun to be lifted, `held` what of it has
been in force ever since a check began. A cause with a provenance is its
token. Memory is sequentially consistent: the code pairs Release stores with
Acquire loads and takes each map's lock, and mutators take one guard, but
weaker orders between the three flags are not explored.

**StateTransition.** `readers`, `waiting_writers` and `writer` are
`StateTransitionAccess`; `pnl_leases` and `active` are the policy's maps
`pnl_leases` and `active_holdings_mutations`. A spinning loop (`back_off`) is an
action enabled by its condition. `epoch` counts configuration changes and `seen`
what a writer's section started from. A reservation is a batch of one balance
element that is finalized later.

**AccountPnl.** `entry` is `AccountPnlEntry`. An assertion (`AssertPnl`) writes
it at once with a fresh token; `CommitAssertion` and `RollbackEntry`,
`InvalidateProvenance`, `JudgeRestored` are its finalizers. A report adds its
delta in one access (`ApplyDelta`); a halt, or an overflow, is an absolute
transition and goes through the lease (`TakeLease`, `ApplyLocked`). The engine
records the block later (`RecordExecutionReport`). `standing` is the state the
account would have had without the assertions that are still open; it is `Lost`
once the rollback of a nested assertion has run over the range and halted the
line. Values are integers in `-Limit .. Limit`; every `checked_add` and
`checked_sub` of the code is a test of that range.

**Engine.** `call[c]` is the stack of a call: its pipeline, the next hook, the
mutations it owns, the blocks it will record. What a hook answers is a choice:
pass, reject, account-scope reject, block, fatal; with or without a mutation.
Custom policies register through the public constructors, whose failure
scope is global and whose finalizers may fail; the built-in ones report an
overflowing rollback by blocking the account. A start stage is slot 0, the main
stage slot 1, and the elements of a batch are slots 1, 2, ... Groups are left out
here (`BlockedAccounts` has them), the account of a report is read once, and a
retirement excludes other retirements only: what it may meet of the other
pipelines is `StateTransition`'s question.

**RateLimit, WindowCounter.** A check reads the clock (`Tick` may come between
the reading and its use), takes one settings snapshot and counts on every axis
that has a barrier, over the limit or not. `settings` holds for every key the
slot its counter lives in: a retune that keeps a barrier carries the slot over,
one that adds it again starts a new one. Sliding logs are sequences kept by
`insert_in_time_order` and trimmed by `advance_window`; the code's two calls of
`partition_point` are `ExpiredPrefix` and `NotAfter`. `done` counts per key and
reading the checks that are resolved, `admitted` has the readings of the orders let
through. In `WindowCounter` a push
is `Load`, `CompareExchange`, `StoreCount` or `FetchAdd`, a peek `PeekStart` and
`PeekCount`.

**Holdings.** A slot has `available`, `held` and `incoming`; an absent slot is
the zero slot. An order reserves its legs in the order of the code, with the hold
and the position limit judged in the same access, is committed or rolled back
newest leg first, filled better than its lock price, charged a fee, cancelled.
An adjustment sets or moves a field and can be rolled back by its inverse delta
after anything else has happened. Prices may be negative: a sell then reserves
settlement. Amounts are bounded by `MaxAmount`, and every checked operation of
the code is a test of that range. `base` is what adjustments, trades and fees
moved in total. A fee is in the settlement asset, one of the currencies the code
takes (`execution.rs:382-399`). Average entry price and position PnL are left out.

**HoldingsIndex.** Creating or removing a slot is one access; the index update
is a closure that has the account's entry to itself, first looks the slot up
(`LookUp`) and then writes (`IndexCreated`, `UnindexRemoved`); the holdings lock
is free in between. An entry left empty is pruned by a third access. The map-wide
lock that the storage takes for a new entry is modelled by the entry alone,
which allows more interleavings than the code.

**BarrierRetune.** A retune is `Prepare` (copy under the transition mutex),
`Publish` and `Sweep` inside the exclusive lease, then the writes of the blocks.
Reports snapshot the barrier inside the shared lease, judge, and record their
block after leaving it. The realized barrier is modelled, the unrealized one
and the group tier of the account currency are not. Holdings are no part of this
model, so an account known by its holdings alone, which a change of the global
barrier reaches in the code, is not among `Known`.

**KillSwitch.** `Accumulate` writes inside the entry's closure and `JudgeReport`
loads the settings still inside it; the block is recorded by `RecordBreach`. An
order's check is `BeginOrder`, `LoadBarriers`, `ReadRealized`. `total` sums the
results of the reports since the last forced value; a report whose addition
overflows changes neither the stored PnL nor `total` (the code writes nothing and
blocks), so `total` does not count it. The PnL starts at zero: `initial_pnl` of the
builder is left out, `ForcePnl` reaches its values. `inForce` has the settings published since a check began.

**MarketData.** The registry, each instrument's slot with its quote and lifetimes,
the service-level lifetimes behind their own locks, and the gate flag in front of
them are separate locks; a read holds its slot's guard to the end. `seen` collects
the service-level lifetimes that were in force at some moment of a read. The
account's group does not change, and the order account, group, default is the one
modelled. A slot starts without a lifetime of its own: what `register_with_ttl` and
`register_with_id_and_ttl` add is a `SetSlotTtl` that follows at once or later.

**AsyncEngine.** A client submits one task. `lane[l]` has the channel, the
mandatory backlog with its fences, the worker and its wake-up. A context may
expire whenever the code looks at it. `client`, `section`, `cleanup` and `made`
follow a submission, an exclusive section, the lifecycle lock and the effects.
`KeyedExecutor` has only calls, sections and the end of service;
`ServesAsExecutor` is the refinement, with operations on a lane, on a client and
on a section's drain mapped to its set of running calls. Stop calls come one after
another, also after one has timed out: two concurrent `StopGraceful` or `StopHard`
(`engine.go:784-804`) are not modelled. `CloseLanes` marks the engine as stopping and
closes every lane in one step where the code closes them one by one
(`strategy.go:882-893`): no registered submission is left then, and a section that
looks at the mark runs no fn.

**Chain, AsyncHandle.** A plan is a sequence of step kinds; drivers may fail or
answer with a handle and an error, hooks may fail, panic, or leak their result to
a goroutine that reads it. A finalizer takes `lifecycleMu`, announces itself,
waits for the readers, resolves, closes and finishes. The reservation and the drop
copy operation have the same code here (`reservation.go`, `drop_copy_operation.go`);
the map names the first. `methodMu`, which also serializes the native reads with
each other (`reservation.go:169, 184`), is left out: the model lets reads overlap.
A panic of the native rollback inside the chain's own cleanup is recovered by
`rollbackPending` (`scenario.go:978-986`) and joined to the error; the native side
lets no panic out, and `Cleanup` leaves this out. `HandleAccess` models no code: it
has readers that share, a finalizer alone, and one destruction; `GivesAccess` is
the refinement.

## 3. Runs

State counts are distinct states. Where a module has several interesting
configurations, `setup` is a variable that is chosen at the start and never
changes, so that one run covers all of them (`MCEngine`, `MCAccountPnl`,
`MCHoldings`, `MCAsyncEngine`). Where two modules describe parts that share no
state, one MC module runs either while the other rests (`MCRateLimit`,
`MCHoldings`, `MCHandles`, `MCBarrierRetune`): this adds no interleaving and
loses none that a property could tell apart.

| Run | Instance | Shows |
|---|---|---|
| `BlockedAccounts` | 2 accounts, the default group and one more, 2 mutators, 1 check; 0.6 million states | flags match the maps whenever the guard is free (`FlagsExact`), a settled block is never missed (`NoMissedBlock`), a cause is removed by its owner only (`CauseOwnership`) |
| `StateTransition` | 1 account, 1 report, 2 batches of 2 elements, a transition twice | one configuration per shared section (`StableSnapshot`), the lease mirrors the open mutations (`LeaseMatchesGuards`), a queued transition gets in (`TransitionGetsIn`), no deadlock |
| `AccountPnl` | 2 batches, 2 reports, 3 assertions, 3 reports; a wide range and a narrow one, both with nesting 2; 1.4 million states | a rollback leaves what the others did (`RollbackExact`), no deadlock |
| `Engine` | 2 calls of any pipeline over 2 policies, one custom; batches of 2 elements | `AllOrNothing`, `KillSwitchVisible`, `FailedLeavesNoBlock` |
| `RateLimit` | 2 threads, 3 checks, 3 ticks, 2 retunes; barriers of the broker (two limits and a refused one), of an asset and of an account, none of a pair, whose axis is skipped; 3 threads on one counter | attempts count on every axis (`NothingForgotten`), the sliding window is exact for readings in order (`PreciseInOrder`), a retune keeps the spent budget (`RetuneKeepsBudget`), the counter's rate (`LongRunRate`) |
| `Holdings` | three accounts: 2 orders and an adjustment near the limits of the amount, 3 orders short of funds, 3 orders against a position limit; 3 callers on 2 slots of one account; 2.9 million states | `BooksBalance`, `NoDoubleSpend`, `PositionWithinLimit`; `ListedOnceCreated`, `ExactAtRest` |
| `AsyncEngine` | six engines: at the queue limit, stopped once and twice, with a section beside operations and beside a stop, sharded | a section runs alone (`ExclusiveAlone`), effects in order (`EffectsInOrder`), a stop leaves nothing (`StopDrains`), refinement (`ServesAsExecutor`) |
| `AsyncEngineLive` | two operations or an operation and a section, with a stop | `CallsComplete`, `StopEnds`, `SectionsEnd` |
| `Handles` | 3 finalizers and 2 readers; every plan of up to 3 steps | `ResolvedOnce`, `ReadsLiveHandles`, `NothingLeftOpen`, `RetryVerdict`, `FinallyOnce`, refinement (`GivesAccess`), `FinalizersReturn`, `ChainResolves` |
| `MarketData` | 2 threads, 2 instruments, 4 calls, 2 ticks | ids stay (`IdsStable`); a read answers the quote its slot holds, expired exactly by the lifetimes in force during it, those of one moment if only one of the two service maps changed meanwhile (`LifetimeInForce`) |
| `BarrierRetune` | 2 accounts, 2 admins, 3 retunes, 2 reports, 1 order; kill switch with 2 assets, 2 report threads, 3 updates; 4.0 million states | a breach is blocked or about to be (`BreachBlocked`), `OrdersInsideBarrier`, `RetunesKept`; `NoOrderPastBreach` |

One run refutes what a comment of the repository says and stops at a
counterexample. `EngineKillSwitch`: a rollback that overflows leaves its slot
unchanged "and the account is blocked so the failure is visible end to end"
(`rollback.rs:339-342`). The blocked set has one place per account and the first
cause wins: when a block judged on a provisional assertion of the same batch
holds it, the new one is dropped, and the rollback of the assertion, which comes
later, takes the old one away. The account ends unblocked with state that was
not compensated. `KillSwitchVisible` is the property without this case.

### Claims that do not hold

These definitions state other sentences of the repository. They are not among
the runs; adding one as an INVARIANT to the configuration named shows its
counterexample. Each has a neighbour that does hold and is checked.

* `ActsOnSomeState` (`BlockedAccounts`): a check in flight "may still act on the
  old state" (`account_control.rs:521-523`). While a block of the account takes
  over from the global one it can act on a mixture and admit an account that is
  blocked at every instant. `NoMissedBlock` holds.
* `HaltRollbackExact` (`AccountPnl`, with halts among `Assertions`): "Restoring the
  prior entry is exact" (`rollback.rs:222-223`). A report that came in while the
  line was provisionally halted left no trace. `RollbackExact` is about values.
* `RejectedLeavesNoBlock` (`AccountPnl`): a block judged on a provisional value goes
  with the assertion (`mutation.rs:46`), unless the report that judged it records
  it after the rollback: blocks are recorded when the leases are gone.
* `ReportedBlockStands` (`AccountPnl`): a report's block is "the reason returned for
  all future pre-trade requests" (`account_control.rs:626-627`), unless a
  provisional cause holds the slot and goes later.
* `BurstAtMostTwice` (`RateLimit`): a burst reaches "up to `2 * max_orders` worst
  case" (`rate_limit.rs:364-365`). The winner of a rollover stores 1 after its
  compare-exchange, so what others counted in between is wiped. `LongRunRate`
  bounds what such races can add up to.
* `PreciseSlidingWindow` (`RateLimit`): "precise sliding-window logs"
  (`rate_limit.rs:440-441`). A check that read the clock earlier and comes later
  finds the entries of its window trimmed. `PreciseInOrder` holds.
* `SameKeyNeverOverlaps` (`AsyncEngine`): "operations routed by the same key never
  overlap" (`go/asyncengine/doc.go:30-31`). After a stop a release without a lane
  runs on its caller beside a producer that was in flight. `ServesAsExecutor` has
  the promise while the engine serves.

One case `RollbackExact` sets apart (`standing = Lost`): the rollback of a nested
assertion overflows and halts the line; the outer one then meets a halt and
restores its previous value without the deltas of the reports
(`rollback.rs:215-226`). The range of the real type makes this remote. The
attempt to prove the property without the case showed it, and TLC confirmed it
with a narrow `Limit` and nesting 2.

One case `EffectsInOrder` sets apart (in `Returned`): past the stop a section may
take over a release (`strategy.go:827`) that looked for its key's lane before a
producer still in flight created it (`getOrCreate` looks at the stop only at the
head of its loop). The call returns; a later call of the key finds the lane, and
its release runs there before the section drains the first. Working on the
proof of the property showed it, and TLC confirmed it with three clients of one
key and a section beside a stop. `doc.go` promises no order past the stop.

### Bounds

Two mutators are enough for every overlap of the guard, because at most
one is inside; a check meets any number of their operations, since mutators
start over as often as they like. Two batches and a nesting of two cover
re-entrance and hand-over of the lease; two transitions cover a writer queued
behind a writer. Three reports allow one before, one inside and one after an
assertion. Two calls suffice for every pair of pipelines to interleave. Three
threads on the window counter allow a winner, a loser and one that came late.
Three orders let two reservations be judged on the sum of a third. Three callers
on one slot allow a removal, a second creation and a second removal while an
index update sleeps. Two lanes allow a retired one beside its successor, and the
lanes of two keys beside each other. Three retunes let one admin's copy become stale twice. `MaxElements`, `MaxTransitions`,
`MaxTokens`, `MaxReports`, `MaxRetunes`, `MaxUpdates`, `MaxCalls`, `MaxTime`,
`MaxReads`, `MaxSteps`, `LastTick` and `MaxChecks` bound what would otherwise grow. Runs
whose components may stop (bounds used up, idle workers, every future resolved)
turn deadlock checking off; `BlockedAccounts`, `StateTransition`, `AccountPnl` and
`Engine` keep it.

### Fairness

* `StateTransition`: weak fairness for every thread that has started a call: it is
  scheduled, and a spinning loop looks at its condition again (`yield_now`, short
  sleeps). No arrival is fair. A batch that keeps its lease goes on to its next
  element or finalizes, which the engine does within one call.
* `AsyncEngine`: weak fairness of each client, worker, section and stop, which are
  goroutines. A client or section that waits when the engine has been stopped is
  told by the stop channel, hence weak fairness of giving up then. No context has
  to expire. Idle retirement is assumed to cease: with it for ever, a lane may be
  retired each time before a submission reaches it.
* `Chain`: the lane starts or aborts what it accepted (`AsyncEngine`'s
  `CallsComplete`); strong fairness of the run, because it waits for a mutex that
  readers take again and again and Go's mutex hands over to a waiter that
  starves; weak fairness for the end of a read.
* `AsyncHandle`: strong fairness of finalizers for the same reason, weak fairness
  for the end of a read. No reader has to come.

### Mutants

For every property of a passing run there is an operator marked `Mutant:` next
to the definition it would replace: a dropped guard, a swapped order, a missing
test that a change of the code could plausibly introduce. With it in place TLC
refutes the property; `PROJECT.json` pairs them.

Running: `tlc -config <run>.cfg <MC module>` for a run, `tlapm <module>.tla` for
the proofs. A run takes from ten seconds to three minutes on two workers.

## 4. Proofs

**`RegistriesProofs`, blocked accounts**, for any sets of accounts, groups, causes, mutators
and checkers, from `CausesAssumption` and `IdsAssumption` alone (the "none"
values are not members, provenance tokens are not operator causes):
`TypeCorrect`, `FlagsAreExact`, `BlocksAreNeverMissed`, `CausesAreOwned`.
`FlagsExact` speaks of moments without a mutator inside, and `NoMissedBlock` of a
check that has returned: neither is inductive. `IInv` adds what holds on the way.
`MutatorInv` says that the thread at a step is the holder of the guard
(`GuardHeld`), which operation can be at which step (`StepKinds`), and how far
the flags may lag behind the maps at that step (`AccountFlags`, `GroupFlags`,
`GlobalFlags`); `SettledStored` ties the history to the maps: a settled block is
stored and announced by its flag. `CheckInv` says that what a check still has to
find is in force (`HeldInForce`) and that the flags it has loaded so far lead it
there (`CheckOnTrack`). A mutator's step can only lift a block after removing it
from the settled ones, and with it from every check's `held` (`WitnessKeeps`);
a step that settles a block adds nothing to a check that is under way
(`GrowthKeeps`).

**`StateTransitionProofs`**, for any accounts, reports, batches and transitions:
`SnapshotsStable` and `LeasesMatchGuards`. `IInv` says where each kind of thread
can be (`Whereabouts`), that the coordinator is a readers-writer lock whose reader
count is the number of threads inside, whoever bypassed the queue (`Exclusion`),
and that the PnL lease of a report's section is its own and taken once
(`SectionLeases`): without the last a report's release could give up a batch's
lease.

**`EngineProofs`**, for any calls, accounts, number of policies, choice of custom
ones and length of a batch: `EngineInvariant`, `CallsAllOrNothing`,
`KillSwitchesVisible`, `FailuresLeaveNoBlock`. The three properties speak of calls
that are over. `IInv` follows a call to its end: which outcomes go with which stage
(`Staged`), that the mutations differ because hooks are asked in order (`InOrder`),
which of them it has yet to finalize and which it could not (`Unfinished`), and
that the state it leaves is at every moment the one its outcome calls for, less
what is still to be done (`Leaves`). `Armed` ties every failure owed to a block no
rollback can take away, `Sourced` every block to the stage of the call that raised
it.

**`PolicyProofs`**, first for one window counter and any threads, limits and
bounds: `Rate` (`LongRunRate`) and `Forward` (the window start never moves back).
`IInv` says that window starts and late readings lie in the past
(`StartsInThePast`), that a thread at its compare-exchange has seen a window that
was over (`SawRollover`), that every reset of the count is paid for by a window
that has passed (`ResetsEarned`, which counts the winners that have not stored
yet), and that admissions are covered by resets and the count (`CountCovers`).
Then for the policy with any accounts, assets, settings and threads:
`RetunesKeepBudgets`. `BudgetInv` says that published settings and the snapshots
of checks under way name counters that exist (`Known`, `UnderWay`), so a check
with stale settings still counts on the slot it was installed with, and that what
each slot has let through is paid for by windows behind its start and the count
of the current one (`Paid`).

For the sliding logs of the same policy: `NothingIsForgotten` (`NothingForgotten`) and
`PreciseWhenInOrder` (`PreciseInOrder`). Neither is inductive: the first is silent on
checks that have counted and are not resolved, the second on what the log holds.
`LogsInv` says that every log is in time order, which is what makes the expired
entries a prefix; that for each reading which the shortest window has not passed the
log holds an entry for every resolved check and every check under way that has
counted there (`InFlight`); and that since any such reading it holds at least as many
entries as orders were let through (`Since`). `LogRecords` is the lemma on one
recording: for any set of readings younger than the window, the trim drops none and
the insertion adds one. It is a bijection between the indices of the two sequences
(`HitsPair`), so no induction over the log is needed; that the partition points exist
is the well-foundedness of the natural numbers (`FirstOf`). An order that is admitted
for readings in order found fewer entries than its limit in its window, and these are
at least the orders let through there (`StaysPrecise`). A check counts once in a log
because the keys of accounts and of pairs are kept apart (`KeysAssumption`,
`CountsOnce`); every limit a snapshot carries was validated (`Validated`).

Last, for the account PnL with any batches, reports, ranges, deltas and
assertions of values: `RollbacksAreExact`. `PnlInv` has the states the line will go
through if the batch is taken back from here, which lead from the entry to what
the reports made of it (`WayBack`, `Recoverable`); that every delta moves all of
them alike is the heart of the proof (`TakenBackSums`). It also needs that tokens
are nested and the entry carries the newest (`TokensInOrder`, `TopToken`) and that
an absolute transition has the lease to itself (`LeaseHeld`). The hypothesis
`Numeric` says that what is asserted is a value; an asserted halt makes reports
drop their deltas, which is the counterexample `HaltRollbackExact` shows.

**`ReservationProofs`, holdings**, for any callers, accounts and assets of the store: `Listed`
and `Exact`. Both speak of calls that have returned. `IndexInv` adds the promises
of those under way: a slot that is not listed has a creator about to list it
(`SlotsListed`), whoever is about to drop a live slot precedes the creator, which
waits for the entry (`DropsOldSlot`), a listed key without a slot has somebody
about to drop it (`StaleDropped`), an empty entry somebody about to prune it
(`EntriesUsed`), and the closure on an entry has one owner (`EntryHeld`). For the
orders of an account with any set-up: `FundsReservedOnce` (`NoDoubleSpend`, which
speaks of accounts under an enforced limit whose operator takes nothing out:
`Sheltered`). `SpendInv` says that then no step still to be made takes from
`available` except a hold, which is judged in the access that makes it. What
reports have queued is typed by the sign of its delta (`Moves`), and that sign
comes from the price an order locked not being worse than the price it traded at.

On top of it, for any finite set of orders: `BooksAlwaysBalance` (`BooksBalance`) and
`PositionsStayWithin` (`PositionWithinLimit`). The books balance only between
operations, so `LedgerInv` says what they are in the middle of one: a slot is its base
plus the `Share` of every order, which for an order being reserved or rolled back is
what its legs have taken so far, and for one in a report what it will have when the
report is through, less what the report has still to move (`Moving`). `LegsInv` says
that the legs done and to do of a reservation make up the whole. Each access moves a
slot by one leg and the share of one order by the same. That the sum over the orders
then moves by as much (`SumChange`) is an induction over the size of the set: the
induction is on a set of natural numbers with the well-foundedness theorem `WFMin`,
which takes sets and no operator. The position limit needs that what the orders have
in the slot is there, also after an overflow has blocked the account, and that no leg
of a report brings the position nearer to the limit than the order was judged to
(`PositionInv`, `Settles`). `PositionWithinLimit` speaks of accounts that began within
the limit and whose operator adjusts nothing (`Confined`).

**`BarrierProofs`**, for any accounts, groups, barriers and threads: `RetunesAddUp`,
`OrdersChecked`, `BreachesBlocked`. `IInv` says who holds the lease and the settings'
mutex (`LeaseHolders`), that what a call read under them still stands
(`SnapshotsStand`), and, for `BreachBlocked`, that an account in breach of the
barrier it was last judged by (`Standing`: while a transition is about to judge a
change, the barrier before the change) is blocked or certain to be
(`BreachesHandled`, `WillBlock`). For the kill switch with any assets, bounds,
results, values and threads: `OrdersStopAtBreach` (`NoOrderPastBreach`). An admitted
order says nothing of the state it was judged by, so `SwitchInv` adds the types
and three facts: the stored PnL, zero where the entry is missing, equals `total`
(`NothingLost`), so no report's addition is overwritten by another's and an overflow,
a forced value or a retirement leaves the two together; the settings a check has
loaded have been in force since it began (`SnapshotWasInForce`); if one of them
lets the order pass, the history has noticed it (`PassableNoticed`). A check that
is admitted for want of a barrier is inside the settings it loaded; one that is
admitted by its bounds read a PnL that equals the real one.

**`ReservationProofs`, handles and chains**, for any readers and finalizers of a handle: `Once` (one native
resolution), `Undisturbed` (no read beside a finalizer or after destruction) and
`Implements`, the refinement of `HandleAccess`. `IInv` says who owns the lifecycle
mutex (`OwnerInv`), that announced finalizers keep readers out (`ReadersInv`), and
how the flags follow the native object (`OpenInv`, `NativeInv`). For chains of any
length and any plan: `RetryVerdictHolds`, `FinallyRunsOnce`, `ReadsSeeLiveHandles`,
`EverythingClosed`. `HandlesInv` says that at most the last handle is open, and only
while it is in hand (`LastHandle`, `PendingLast`, `OthersSettled`), and that a leaked
result can be read only while its hook runs (`ResultInHand`); `VerdictInv` follows
the run's error and effects to what Finally is told and the future tells (`Told`,
`ErrorSoFar`, `ToldTruth`).

**`RegistriesProofs`, market data**, for any threads, instruments, ids and lifetimes:
`MarketDataInvariant`, `IdsAreStable`, `ReadsFollowLifetimes`. `MarketInv` says that every
id in use is registered and shared by no two instruments (`Registered`), also where
a thread carries it between two locks (`Names`), that the gate is shut only over
empty maps or before the first setter has returned (`GateShut`), that a read under
way has met what the maps hold now and its slot still holds the quote it selected
(`Sees`), and that the lifetime it found is one in force (`JudgedInForce`). The answer
then follows from the clock of its step: only the read itself takes that step
(`OnlyJudge`), and the cascade always ends in a lifetime (`CascadeSet`).

**`AsyncEngineProofs`**, for any clients, sections, keys, lanes, capacity, queue limit
and number of stops, Dynamic or Sharded: `AsyncInvariant`, `SectionsRunAlone`,
`StopsDrain`. Neither property is inductive: that no call runs beside fn rests on how
the section got there, and that a stop left nothing on where each task was meanwhile.
`IInv` says what a lane is at each step of its worker (`LaneShape`) and that `pending`
counts what it has to do (`Pending`), which is what makes retirement safe; that a call
which is still submitting is registered and keeps its lane open (`ClientInv`), so
that nothing is sent behind a stop (`StopInv`). A section is published alone and
takes the releases that find no lane (`SectionInv`); every lane that works is in its
snapshot, has its barrier, or was created with one (`Covered`), it has no more
barriers out than it expects and no more arrivals than lanes that stand still
(`BarriersCounted`), so that when all have arrived all of them stand still. And what a
returned call left to do is done, on a lane, or postponed to a section (`Kept`).
One lemma per action keeps all of it; those that change one lane, one client or the
section share a frame lemma (`LaneStep`, `ClientStep`, `WorkerStep`, `SectionStep`).
Identities of lanes are reused in the model once nothing refers to them
(`Garbage`); `FreeHoldsNothing` shows that nothing is lost with one.

**`AsyncOrderProofs`**, under the same assumptions: `EffectsAreOrdered`, `ServesKeys`.
The first needs `OrderInv` on top of `IInv`, because an order of effects says
nothing of the calls that have had none yet. What a key has on a lane is on the lane
the engine routes the key to (`RoutesInv`), and entries wait for the submit fence only
past the stop (`FencesInv`); a lane's admitted tickets are
those settled, being sent, queued and under way (`TicketsInv`); a call that has not
begun has nothing anywhere (`FreshInv`), and a release postponed to a section has its
key held there (`HeldInv`). Then, for each call c that began after a call d of its key
had returned, `Behind` says where c can be while d is undone: in the channel, with d
before it and nothing of d in the backlog (`InChannel`); in the backlog, behind an
entry of d, and still waiting for d if d is in the channel or under way (`InBacklog`);
postponed to a section, behind d there, and with nothing of d left on a lane
(`InSection`); or not yet sent (`OnItsWay`). That an entry still waits is arithmetic:
its target is not below what is settled, plus d's place in the channel, plus the
older tickets still on their way (`Waits`), so it becomes due only after everything
admitted up to its cutoff. What one operation does to the order on its lane is a
lemma on lanes (`EnqueueKeepsOrder`, `UnmarkKeepsOrder` and the others, in terms of
`Orderly`), `OrderStep` is the frame, and each action has its lemma.

`ServesKeys` is the refinement of `KeyedExecutor`: initial states map to initial
states, and every step to a step of the executor or to none. It rests on `IInv`,
`OrderInv` and `OnceInv`. An operation is started once because it is in one place:
with its client, waiting at one place of one lane or one section, under way, or done
(`MadeOnce`), through every path that hands it on. Operations of a key do not overlap
before the stop because what runs on a caller has the key's barrier, and a key with a
barrier has neither a lane nor a postponed release (`BarriersInv`); `RoutesInv` and
`HeldInv` exclude the other pairs. That fn begins with nothing under way is `Covered`
again. `RetiredAborts` shows on the way that drainAndAbort of a retired lane never
finds a task to abort.

Each module's assumptions are the named ASSUMEs of the modules it extends: sets
that are finite where the code counts, "none" values that are not members, bounds
that are natural numbers. Each inductive invariant was checked with TLC on the
run's instance before it was proved.

Every invariant and action property of the passing runs is proved. Only
model-checked, and why:

* Liveness (`TransitionGetsIn`, `CallsComplete`, `StopEnds`, `SectionsEnd`,
  `FinalizersReturn`, `ChainResolves`): fairness and ENABLED are beyond the prover.

## 5. Not modelled

* `LocalSync` and `AccountSync` engines: their caller serializes; the debug-only
  contract check that watches it is left out.
* Dry runs, which change no state; the stateless policies, which `Engine` has as a
  choice of verdict.
* Market order pricing, unrealized PnL, average entry price, decimal arithmetic,
  formatting and parsing: computations on data, without interleaving.
* The C++ asynchronous engine: a second implementation of what `KeyedExecutor`
  promises, with a module of its own to come.
* The FFI, the interop and derive crates, the generated C header and the Python,
  JavaScript, C++ and Go wrappers. They are most of the repository's lines; they
  convert arguments and results one call at a time, and the state behind them is
  the core's.

`PROJECT.json` has the list with reasons.

## 6. Plan

Done: everything in section 2.

Next, in this order:

1. `BarrierRetune`: the unrealized barrier, the group tier of the currency.
2. `MarketData`: changing membership, the other resolution orders.
3. An abstract blocked set (block, unblock and check as single steps for
   settled blocks), shown to be implemented by `BlockedAccounts`.
4. The C++ strategies as a second implementation of `KeyedExecutor`.
