----------------------------- MODULE AsyncEngine -----------------------------
(***************************************************************************)
(* The Go asynchronous engine: clients submit one task each, routed by     *)
(* key, to lanes (keyQueue) drained by one worker goroutine per lane.  The *)
(* Dynamic strategy creates lanes on demand and retires idle ones, the     *)
(* Sharded strategy has a fixed pool.  A failed submit of an operation     *)
(* that owns a native handle hands the handle's release to the lane's      *)
(* mandatory backlog or, without a lane, runs it on the caller.  An        *)
(* Exclusive section stops every lane with a barrier; a stop drains it     *)
(* all, and may time out and be called again.                              *)
(*                                                                         *)
(* A critical section under s.mu, mandatoryMu, submitMu or                 *)
(* lifecycleCleanupMu is one step.  A context may expire whenever the code *)
(* looks at it, and the idle window may have passed whenever cleanup does. *)
(***************************************************************************)
EXTENDS Integers, FiniteSets, Sequences, SequencesExt

CONSTANTS
    Clients,    \* goroutines, each with one operation to submit
    Owners,     \* the clients whose operation owns a handle to release
    Admins,     \* goroutines, each with one Exclusive section to run
    Keys,       \* routing keys
    RouteOf,    \* the routing key of each client
    ShardOf,    \* shardFor: the lane of each key (Sharded)
    Lanes,      \* identities for lanes, 1..n
    Capacity,   \* queueCapacity
    Setups,     \* the engines to explore: who uses them, how they are built
    None

ASSUME AsyncAssumption ==
    /\ Owners \subseteq Clients
    /\ IsFiniteSet(Clients) /\ IsFiniteSet(Lanes)
    /\ Clients \cap Admins = {} /\ Clients \cap Lanes = {}
    /\ RouteOf \in [Clients -> Keys]
    /\ \A l \in Lanes : l \in Nat \ {0} /\ 1..l \subseteq Lanes
    /\ ShardOf \in [Keys -> Lanes]
    /\ Capacity \in Nat \ {0}
    /\ Setups \subseteq [clients : SUBSET Clients, admins : SUBSET Admins,
                         dynamic : BOOLEAN, lanes : SUBSET Lanes,
                         maxQueues : Nat, maxStops : Nat]
    /\ \A s \in Setups : s.dynamic \/ \A k \in Keys : ShardOf[k] \in s.lanes
    /\ None \notin Clients \cup Admins \cup Keys \cup Lanes

VARIABLES
    setup,      \* the engine this is, chosen once
    pc,         \* where each client is in its call
    phase,      \* "submit", then "release" once the submit has failed
    at,         \* the lane, or the owner of the cleanup barrier, it holds
    ticket,     \* admitTask's ticket
    registered, \* clients counted in inFlightSubmits by their submit
    handing,    \* clients counted in it once more by the handoff
    accepted,   \* clients whose task was sent to a lane
    lane,       \* keyQueue records
    queues,     \* s.queues (Sharded: shardFor)
    barriers,   \* s.cleanupBarriers: the client that runs the cleanup
    stopping,   \* s.stopping
    cleanupOn,  \* the background cleanup goroutine runs
    stopped,    \* stopCh closed
    hard,       \* hardStopCh closed
    stop,       \* where the stop call is
    stops,      \* stop calls so far
    lifecycle,  \* clients inside a tracked lifecycle cleanup
    lifeSealed, \* lifecycleCleanupSealed
    active,     \* activeSection: the admin that owns it
    apc,        \* where each admin is in Exclusive
    sec,        \* the section of each admin
    earlier,    \* history: calls of its key that had returned before it began
    starts,     \* history: how often each client's call was started
    finished    \* history: clients whose call has been made

client  == <<pc, phase, at, ticket, registered, handing, accepted, earlier>>
control == <<stopping, cleanupOn, stopped, hard, stop, stops>>
cleanup == <<lifecycle, lifeSealed>>
section == <<active, apc, sec>>
made    == <<starts, finished>>
vars    == <<setup, client, lane, queues, barriers, control, cleanup, section,
             made>>

Dynamic   == setup.dynamic    \* dynamicStrategy, or else shardedStrategy
MaxQueues == setup.maxQueues  \* maxQueues, 0 for unlimited
MaxStops  == setup.maxStops   \* bound: how many times a stop is called
Laid      == setup.lanes      \* lanes there are (Sharded), bound (Dynamic)

-----------------------------------------------------------------------------
(* Lanes *)

Absent == [ch |-> <<>>, closed |-> FALSE, readers |-> {}, backlog |-> <<>>,
           wake |-> FALSE, retired |-> FALSE, pending |-> 0, admitted |-> 0,
           settled |-> 0, worker |-> "none", cur |-> None, sealed |-> FALSE]

newKeyQueue == [Absent EXCEPT !.worker = "loop"]

Live(l) == l # None /\ ~lane[l].closed

(* submitFenceCh: closed once stopped with no submit in flight; no submit  *)
(* registers after the stop signal, so it stays closed.                    *)
SubmitFence == stopped /\ registered = {} /\ handing = {}

Barrier(x) == x \in Admins

KeyOfTask(t) == IF Barrier(t) THEN None ELSE RouteOf[t]

(* enqueueMandatory on a lane that is neither retired nor left.            *)
Takes(q) == ~q.retired /\ q.worker # "exited"

(* Mutant: the worker is not woken.                                        *)
EnqueueSilently(q, t, fence) ==
    [q EXCEPT !.pending = @ + 1,
              !.backlog = Append(@, [task |-> t, cutoff |-> q.admitted,
                                     target |-> q.admitted, fence |-> fence])]

enqueueMandatory(q, t, fence) ==
    [q EXCEPT !.pending = @ + 1,
              !.wake    = TRUE,
              !.backlog = Append(@, [task |-> t, cutoff |-> q.admitted,
                                     target |-> q.admitted, fence |-> fence])]

(* takeMandatoryCleanup: once the submit fence is closed, a head that      *)
(* waited for it owes an order to everything admitted by then.             *)
PassedFence(q) ==
    IF q.backlog # <<>> /\ Head(q.backlog).fence /\ SubmitFence
    THEN [q EXCEPT !.backlog[1] = [@ EXCEPT !.fence = FALSE,
                                            !.cutoff = q.admitted,
                                            !.target = q.admitted]]
    ELSE q

(* The head of the backlog is due.                                         *)
Ready(q) ==
    /\ q.backlog # <<>>
    /\ ~Head(q.backlog).fence
    /\ q.settled >= Head(q.backlog).target

(* Mutant: a later abandonment counts for the entries before it.           *)
UnmarkKeepsTargets(q, t) ==
    [q EXCEPT !.settled = @ + 1,
              !.pending = @ - 1,
              !.wake    = @ \/ q.backlog # <<>>]

(* unmarkSent: an abandoned admission settles, and raises the target of    *)
(* the entries that never waited for it.                                   *)
unmarkSent(q, t) ==
    [q EXCEPT !.settled = @ + 1,
              !.pending = @ - 1,
              !.wake    = @ \/ q.backlog # <<>>,
              !.backlog = [i \in DOMAIN q.backlog |->
                  IF t > q.backlog[i].cutoff THEN [q.backlog[i] EXCEPT !.target = @ + 1]
                                             ELSE q.backlog[i]]]

(* pendingCleanupForLocked: the first queued release of the key, if any.   *)
PendingCleanup(q, k) ==
    LET hits == {i \in DOMAIN q.backlog : KeyOfTask(q.backlog[i].task) = k}
    IN  {q.backlog[i] : i \in {j \in hits : \A h \in hits : j <= h}}

(* waitForMandatoryCleanup has nothing, or nothing more, to wait for.      *)
Unfenced(q, k) == \A e \in PendingCleanup(q, k) : e.fence /\ stopped

-----------------------------------------------------------------------------
(* A client: submitWithFailureHandoff, then, for an owner,                 *)
(* scheduleSubmitFailureCleanup                                            *)

Goto(c, l) == pc' = [pc EXCEPT ![c] = l]

(* A release that a section has taken over and not yet run.                *)
Postponed(s, c) ==
    \/ \E i \in 1..Len(s.deferred) : s.deferred[i] = c
    \/ \E i \in 1..Len(s.draining) : s.draining[i] = c

(* A call of c's key that returned and has, or will have, an effect.  Past *)
(* the stop a section may take a release over although the key has a lane: *)
(* that one is not ordered with what the lane is given next.               *)
Returned(k) == {d \in Clients : /\ pc[d] = "done"
                                /\ RouteOf[d] = k
                                /\ d \in accepted \cup Owners
                                /\ stopped => \A x \in Admins : ~Postponed(sec[x], d)}

(* The submit has failed: an owner's handle release is handed off while    *)
(* the submit is still registered; any other call returns (endSubmit).     *)
Fail(c) ==
    IF c \in Owners
    THEN /\ phase' = [phase EXCEPT ![c] = "release"]
         /\ Goto(c, IF Dynamic THEN "check" ELSE "register")
         /\ at' = [at EXCEPT ![c] = IF Dynamic THEN None ELSE ShardOf[RouteOf[c]]]
         /\ UNCHANGED registered
    ELSE /\ Goto(c, "done")
         /\ registered' = registered \ {c}
         /\ at' = [at EXCEPT ![c] = None]
         /\ UNCHANGED phase

(* beginSubmit, and for Sharded the choice of the shard.                   *)
Begin(c) ==
    /\ c \in setup.clients /\ pc[c] = "idle"
    /\ earlier' = [earlier EXCEPT ![c] = Returned(RouteOf[c])]
    /\ IF stopped
       THEN Fail(c)
       ELSE /\ registered' = registered \cup {c}
            /\ Goto(c, IF Dynamic THEN "check" ELSE "fence")
            /\ at' = [at EXCEPT ![c] = IF Dynamic THEN None ELSE ShardOf[RouteOf[c]]]
            /\ UNCHANGED phase
    /\ UNCHANGED <<ticket, handing, accepted, lane, queues, barriers, control,
                   cleanup, section, made>>

(* The stop was signalled, or markStopping seen, while routing the call.   *)
Refused(c) ==
    IF phase[c] = "submit" THEN Fail(c)
    ELSE /\ Goto(c, "stopped")
         /\ UNCHANGED <<phase, registered, at>>

(* isStopped, at the head of each loop and of getOrCreate.                 *)
Check(c) ==
    /\ pc[c] = "check"
    /\ IF stopped THEN Refused(c)
       ELSE Goto(c, "read") /\ UNCHANGED <<phase, registered, at>>
    /\ UNCHANGED <<ticket, handing, accepted, earlier, lane, queues, barriers,
                   control, cleanup, section, made>>

(* The lane of the key is found: go on to send, or to hand the release off.*)
Found(c, l) ==
    /\ at' = [at EXCEPT ![c] = l]
    /\ Goto(c, IF phase[c] = "submit" THEN "gate" ELSE "register")
    /\ UNCHANGED <<phase, registered>>

(* getOrCreate under the read lock.                                        *)
Read(c) ==
    LET k == RouteOf[c] IN
    /\ pc[c] = "read"
    /\ IF Live(queues[k]) THEN Found(c, queues[k])
       ELSE IF stopping THEN Refused(c)
       ELSE /\ at' = [at EXCEPT ![c] = barriers[k]]
            /\ Goto(c, IF barriers[k] = None THEN "create" ELSE "barrier")
            /\ UNCHANGED <<phase, registered>>
    /\ UNCHANGED <<ticket, handing, accepted, earlier, lane, queues, barriers,
                   control, cleanup, section, made>>

(* <-barrier: the cleanup that the barrier stood for has run.              *)
PassBarrier(c) ==
    /\ pc[c] = "barrier"
    /\ barriers[RouteOf[c]] # at[c]
    /\ Goto(c, "check")
    /\ at' = [at EXCEPT ![c] = None]
    /\ UNCHANGED <<phase, ticket, registered, handing, accepted, earlier, lane,
                   queues, barriers, control, cleanup, section, made>>

LiveQueues == Cardinality({k \in Keys : queues[k] # None})

(* No map entry and no goroutine refers to the lane any more: its identity *)
(* is free to stand for a new one.  The shards are kept for ever.          *)
Garbage(l) == Dynamic /\ l \notin {queues[k] : k \in Keys} \cup {at[c] : c \in Clients}

Free(l) == lane[l].worker \in {"none", "exited"} /\ Garbage(l)

(* Mutant: the section's barrier is left out.                              *)
NewLaneUnbarred == newKeyQueue

(* A lane created during a section starts with the section's barrier.      *)
NewLane ==
    IF active = None THEN newKeyQueue
    ELSE enqueueMandatory(newKeyQueue, active, FALSE)

(* getOrCreate under the write lock.                                       *)
Create(c) ==
    LET k == RouteOf[c] IN
    /\ pc[c] = "create"
    /\ IF stopping
       THEN Refused(c) /\ UNCHANGED <<lane, queues, sec>>
       ELSE IF Live(queues[k])
       THEN Found(c, queues[k]) /\ UNCHANGED <<lane, queues, sec>>
       ELSE IF barriers[k] # None
       THEN /\ at' = [at EXCEPT ![c] = barriers[k]]
            /\ Goto(c, "barrier")
            /\ UNCHANGED <<phase, registered, lane, queues, sec>>
       ELSE IF MaxQueues > 0 /\ LiveQueues >= MaxQueues
       THEN /\ IF phase[c] = "submit" THEN Fail(c)
               ELSE Goto(c, "limit") /\ UNCHANGED <<phase, registered, at>>
            /\ UNCHANGED <<lane, queues, sec>>
       ELSE \E l \in Laid :
            /\ Free(l)
            /\ \A m \in 1..(l - 1) : ~Free(m)
            /\ lane' = [lane EXCEPT ![l] = NewLane]
            /\ queues' = [queues EXCEPT ![k] = l]
            /\ sec' = IF active = None THEN sec
                      ELSE [sec EXCEPT ![active].expected = @ + 1]
            /\ Found(c, l)
    /\ UNCHANGED <<ticket, handing, accepted, earlier, barriers, control,
                   cleanup, active, apc, made>>

(* submitToRegisteredQueue: take the gate's read side; a lane retired in   *)
(* the meantime sends the client back to look for another.                 *)
Gate(c) ==
    LET l == at[c] IN
    /\ pc[c] = "gate"
    /\ IF lane[l].closed
       THEN /\ Goto(c, "check")
            /\ at' = [at EXCEPT ![c] = None]
            /\ UNCHANGED lane
       ELSE /\ lane' = [lane EXCEPT ![l].readers = @ \cup {c}]
            /\ Goto(c, "fence")
            /\ UNCHANGED at
    /\ UNCHANGED <<phase, ticket, registered, handing, accepted, earlier,
                   queues, barriers, control, cleanup, section, made>>

Leave(q, c) == [q EXCEPT !.readers = @ \ {c}]

(* waitForMandatoryCleanup: a queued release of the key holds c back.      *)
PassFence(c) ==
    /\ pc[c] = "fence"
    /\ Unfenced(lane[at[c]], RouteOf[c])
    /\ Goto(c, "admit")
    /\ UNCHANGED <<phase, at, ticket, registered, handing, accepted, earlier,
                   lane, queues, barriers, control, cleanup, section, made>>

(* ... until the context expires or the stop is signalled.                 *)
FenceFails(c) ==
    /\ pc[c] = "fence"
    /\ ~Unfenced(lane[at[c]], RouteOf[c])
    /\ Fail(c)
    /\ lane' = [lane EXCEPT ![at[c]] = Leave(@, c)]
    /\ UNCHANGED <<ticket, handing, accepted, earlier, queues, barriers,
                   control, cleanup, section, made>>

(* sendToQueue: the context is checked, then the task admitted.            *)
Expired(c) ==
    /\ pc[c] = "admit"
    /\ Fail(c)
    /\ lane' = [lane EXCEPT ![at[c]] = Leave(@, c)]
    /\ UNCHANGED <<ticket, handing, accepted, earlier, queues, barriers,
                   control, cleanup, section, made>>

admitTask(c) ==
    LET l == at[c] IN
    /\ pc[c] = "admit"
    /\ lane' = [lane EXCEPT ![l].admitted = @ + 1, ![l].pending = @ + 1]
    /\ ticket' = [ticket EXCEPT ![c] = lane[l].admitted + 1]
    /\ Goto(c, "send")
    /\ UNCHANGED <<phase, at, registered, handing, accepted, earlier, queues,
                   barriers, control, cleanup, section, made>>

(* The send: at once when there is room, else by waiting.                  *)
Send(c) ==
    LET l == at[c] IN
    /\ pc[c] \in {"send", "blocked"}
    /\ Len(lane[l].ch) < Capacity
    /\ lane' = [lane EXCEPT ![l] = Leave([lane[l] EXCEPT !.ch = Append(@, c)], c)]
    /\ accepted' = accepted \cup {c}
    /\ registered' = registered \ {c}
    /\ at' = [at EXCEPT ![c] = None]
    /\ Goto(c, "done")
    /\ UNCHANGED <<phase, ticket, handing, earlier, queues, barriers, control,
                   cleanup, section, made>>

Block(c) ==
    /\ pc[c] = "send"
    /\ Len(lane[at[c]].ch) >= Capacity
    /\ Goto(c, "blocked")
    /\ UNCHANGED <<phase, at, ticket, registered, handing, accepted, earlier,
                   lane, queues, barriers, control, cleanup, section, made>>

(* The context expires or the stop is signalled while c waits for room;    *)
(* the gate keeps the lane from being retired under it.                    *)
SendFails(c) ==
    LET l == at[c] IN
    /\ pc[c] = "blocked"
    /\ Fail(c)
    /\ lane' = [lane EXCEPT ![l] = Leave(unmarkSent(@, ticket[c]), c)]
    /\ UNCHANGED <<ticket, handing, accepted, earlier, queues, barriers,
                   control, cleanup, section, made>>

(* The end of the failed call: its own registration, if any, is given up.  *)
Return(c) ==
    /\ registered' = registered \ {c}
    /\ at' = [at EXCEPT ![c] = None]
    /\ Goto(c, "done")

(* scheduleSubmitFailureCleanup: beginSubmit before the handoff, to a lane *)
(* or, at the queue limit, without one.                                    *)
Register(c) ==
    /\ pc[c] \in {"register", "limit"}
    /\ IF stopped
       THEN Goto(c, "stopped") /\ UNCHANGED handing
       ELSE /\ Goto(c, IF pc[c] = "limit" THEN "nolane" ELSE "enqueue")
            /\ handing' = handing \cup {c}
    /\ UNCHANGED <<phase, at, ticket, registered, accepted, earlier, lane,
                   queues, barriers, control, cleanup, section, made>>

(* Mutant: the release is handed off and the stopped path taken as well.   *)
HandoffFallsThrough(c) ==
    LET l == at[c] IN
    /\ pc[c] = "enqueue"
    /\ handing' = handing \ {c}
    /\ lane' = IF Takes(lane[l])
               THEN [lane EXCEPT ![l] = enqueueMandatory(@, c, FALSE)] ELSE lane
    /\ Goto(c, "stopped")
    /\ UNCHANGED <<phase, at, ticket, registered, accepted, earlier, queues,
                   barriers, control, cleanup, section, made>>

(* enqueueSubmitFailureCleanup with its endSubmit; a refusal is retried.   *)
Handoff(c) ==
    LET l == at[c] IN
    /\ pc[c] = "enqueue"
    /\ handing' = handing \ {c}
    /\ IF Takes(lane[l])
       THEN /\ lane' = [lane EXCEPT ![l] = enqueueMandatory(@, c, FALSE)]
            /\ Return(c)
       ELSE /\ Goto(c, IF Dynamic THEN "check" ELSE "stopped")
            /\ at' = [at EXCEPT ![c] = None]
            /\ UNCHANGED <<lane, registered>>
    /\ UNCHANGED <<phase, ticket, accepted, earlier, queues, barriers, control,
                   cleanup, section, made>>

(* The release has, or will find, another place than the calling goroutine.*)
HasPlace(k) == stopping \/ Live(queues[k]) \/ barriers[k] # None

(* cleanupWithoutLiveLane: under s.mu, refuse, postpone to the section, or *)
(* install the key's barrier and run the release on the caller.            *)
WithoutLane(c) ==
    LET k == RouteOf[c] IN
    /\ pc[c] = "nolane"
    /\ IF HasPlace(k)
       THEN /\ Goto(c, "check")
            /\ handing' = handing \ {c}
            /\ UNCHANGED <<registered, at, barriers, sec, starts>>
       ELSE IF active # None
       THEN /\ sec' = [sec EXCEPT ![active].deferred = Append(@, c)]
            /\ handing' = handing \ {c}
            /\ Return(c)
            /\ UNCHANGED <<barriers, starts>>
       ELSE /\ barriers' = [barriers EXCEPT ![k] = c]
            /\ starts' = [starts EXCEPT ![c] = @ + 1]
            /\ Goto(c, "offlane")
            /\ UNCHANGED <<handing, registered, at, sec>>
    /\ UNCHANGED <<phase, ticket, accepted, earlier, lane, queues, control,
                   cleanup, active, apc, finished>>

(* cleanupAfterStoppedLane, or the tail of the Sharded handoff: look the   *)
(* lane up ...                                                             *)
StoppedLane(c) ==
    /\ pc[c] = "stopped"
    /\ at' = [at EXCEPT ![c] = queues[RouteOf[c]]]
    /\ Goto(c, IF queues[RouteOf[c]] = None THEN "lifecycle" ELSE "late")
    /\ UNCHANGED <<phase, ticket, registered, handing, accepted, earlier, lane,
                   queues, barriers, control, cleanup, section, made>>

(* ... and leave the release in its backlog, behind the submit fence.      *)
LateHandoff(c) ==
    LET l == at[c] IN
    /\ pc[c] = "late"
    /\ IF Takes(lane[l])
       THEN /\ lane' = [lane EXCEPT ![l] = enqueueMandatory(@, c, TRUE)]
            /\ Return(c)
       ELSE Goto(c, "lifecycle") /\ UNCHANGED <<lane, registered, at>>
    /\ UNCHANGED <<phase, ticket, handing, accepted, earlier, queues, barriers,
                   control, cleanup, section, made>>

(* beginLifecycleCleanup: untracked once sealed, postponed to a section,   *)
(* tracked otherwise.                                                      *)
beginLifecycleCleanup(c) ==
    /\ pc[c] = "lifecycle"
    /\ IF ~lifeSealed /\ active # None
       THEN /\ sec' = [sec EXCEPT ![active].deferred = Append(@, c)]
            /\ Return(c)
            /\ UNCHANGED <<lifecycle, starts>>
       ELSE /\ lifecycle' = IF lifeSealed THEN lifecycle ELSE lifecycle \cup {c}
            /\ starts' = [starts EXCEPT ![c] = @ + 1]
            /\ Goto(c, "offlane")
            /\ UNCHANGED <<registered, at, sec>>
    /\ UNCHANGED <<phase, ticket, handing, accepted, earlier, lane, queues,
                   barriers, control, lifeSealed, active, apc, finished>>

(* The release run on the caller ends: endLifecycleCleanup, or the key's   *)
(* barrier is lifted and endSubmit called.                                 *)
OffLaneEnds(c) ==
    LET k == RouteOf[c] IN
    /\ pc[c] = "offlane"
    /\ barriers' = [barriers EXCEPT ![k] = IF @ = c THEN None ELSE @]
    /\ lifecycle' = lifecycle \ {c}
    /\ handing' = handing \ {c}
    /\ finished' = finished \cup {c}
    /\ Return(c)
    /\ UNCHANGED <<phase, ticket, accepted, earlier, lane, queues, control,
                   lifeSealed, section, starts>>

Client(c) ==
    \/ Check(c) \/ Read(c) \/ PassBarrier(c) \/ Create(c) \/ Gate(c)
    \/ PassFence(c) \/ admitTask(c) \/ Send(c) \/ Block(c)
    \/ Register(c) \/ Handoff(c) \/ WithoutLane(c) \/ StoppedLane(c)
    \/ LateHandoff(c) \/ beginLifecycleCleanup(c) \/ OffLaneEnds(c)

(* A client's context expires, or it gives up on the stop signal.          *)
GiveUp(c) == FenceFails(c) \/ Expired(c) \/ SendFails(c)

-----------------------------------------------------------------------------
(* The worker of a lane *)

(* Take the head of the backlog when it is due: a release is run (also     *)
(* when hard-stopped), a barrier arrives or, hard-stopped, is aborted.     *)
Take(l) ==
    LET q == lane[l]
        t == Head(q.backlog).task
    IN
    /\ q.worker = "loop" /\ Ready(PassedFence(q))
    /\ lane' = [lane EXCEPT ![l].backlog = Tail(@),
                            ![l].cur = t,
                            ![l].worker = IF ~Barrier(t) THEN "release"
                                          ELSE IF hard THEN "parked"
                                          ELSE "barrier"]
    /\ starts' = IF Barrier(t) THEN starts ELSE [starts EXCEPT ![t] = @ + 1]
    /\ sec' = IF Barrier(t) /\ hard THEN [sec EXCEPT ![t].aborted = TRUE] ELSE sec
    /\ UNCHANGED <<client, queues, barriers, control, cleanup, active, apc,
                   finished>>

(* Mutant: a sealed lane is left whatever its backlog holds.               *)
WaitLeavesBacklog(l) ==
    LET q == lane[l] IN
    /\ q.worker = "loop" /\ ~Ready(PassedFence(q))
    /\ lane' = [lane EXCEPT ![l].worker = IF q.closed THEN "exited" ELSE "select"]
    /\ UNCHANGED <<client, queues, barriers, control, cleanup, section, made>>

(* Nothing due: wait, or leave a sealed lane that owes nothing             *)
(* (finishWorker).                                                         *)
Wait(l) ==
    LET q == lane[l] IN
    /\ q.worker = "loop" /\ ~Ready(PassedFence(q))
    /\ IF q.sealed /\ q.backlog = <<>>
       THEN lane' = [lane EXCEPT ![l] =
                         IF Garbage(l) THEN Absent ELSE [@ EXCEPT !.worker = "exited"]]
       ELSE lane' = [lane EXCEPT ![l] = [PassedFence(q) EXCEPT !.worker = "select"]]
    /\ UNCHANGED <<client, queues, barriers, control, cleanup, section, made>>

Awake(l) == lane' = [lane EXCEPT ![l].worker = "loop"]

(* The select: a task to run or, hard-stopped, abort.                      *)
Receive(l) ==
    LET q == lane[l] IN
    /\ q.worker = "select" /\ ~q.sealed /\ q.ch # <<>>
    /\ lane' = [lane EXCEPT ![l].ch = Tail(@), ![l].cur = Head(q.ch),
                            ![l].worker = "task"]
    /\ starts' = [starts EXCEPT ![Head(q.ch)] = @ + 1]
    /\ UNCHANGED <<client, queues, barriers, control, cleanup, section, finished>>

(* The channel is closed and drained.                                      *)
SeeClosed(l) ==
    LET q == lane[l] IN
    /\ q.worker = "select" /\ ~q.sealed
    /\ q.closed /\ ~q.retired /\ q.ch = <<>>
    /\ lane' = [lane EXCEPT ![l].sealed = TRUE, ![l].worker = "loop"]
    /\ UNCHANGED <<client, queues, barriers, control, cleanup, section, made>>

(* quit is closed: drainAndAbort whatever is left in the channel.          *)
SeeRetired(l) ==
    LET q == lane[l] IN
    /\ q.worker = "select" /\ ~q.sealed /\ q.retired
    /\ lane' = [lane EXCEPT ![l].sealed = TRUE, ![l].worker = "loop",
                            ![l].ch = <<>>,
                            ![l].pending = @ - Len(q.ch),
                            ![l].settled = @ + Len(q.ch)]
    /\ starts' = [c \in Clients |-> IF c \in ToSet(q.ch) THEN starts[c] + 1
                                    ELSE starts[c]]
    /\ finished' = finished \cup ToSet(q.ch)
    /\ UNCHANGED <<client, queues, barriers, control, cleanup, section>>

(* mandatoryWake, or the submit fence that the head of the backlog awaits. *)
SeeWake(l) ==
    LET q == lane[l] IN
    /\ q.worker = "select"
    /\ \/ /\ q.wake
          /\ lane' = [lane EXCEPT ![l].worker = "loop", ![l].wake = FALSE]
       \/ /\ q.backlog # <<>> /\ Head(q.backlog).fence /\ SubmitFence
          /\ Awake(l)
    /\ UNCHANGED <<client, queues, barriers, control, cleanup, section, made>>

(* The task or release ends; only channel work counts as settled.          *)
Finish(l) ==
    LET q == lane[l] IN
    /\ q.worker \in {"task", "release"}
    /\ lane' = [lane EXCEPT ![l].worker = "loop", ![l].cur = None,
                            ![l].pending = @ - 1,
                            ![l].settled = IF q.worker = "task" THEN @ + 1 ELSE @]
    /\ finished' = finished \cup {q.cur}
    /\ UNCHANGED <<client, queues, barriers, control, cleanup, section, starts>>

(* exclusiveBarrierTask: hand over to the section, or find it released.    *)
Park(l) ==
    LET q == lane[l] IN
    /\ q.worker = "barrier"
    /\ apc[q.cur] = "parking"
    /\ sec[q.cur].parked < sec[q.cur].expected
    /\ lane' = [lane EXCEPT ![l].worker = "parked"]
    /\ sec' = [sec EXCEPT ![q.cur].parked = @ + 1]
    /\ UNCHANGED <<client, queues, barriers, control, cleanup, active, apc, made>>

Unpark(l) ==
    LET q == lane[l] IN
    /\ q.worker \in {"barrier", "parked"}
    /\ apc[q.cur] = "done"
    /\ lane' = [lane EXCEPT ![l].worker = "loop", ![l].cur = None,
                            ![l].pending = @ - 1]
    /\ UNCHANGED <<client, queues, barriers, control, cleanup, section, made>>

Worker(l) ==
    \/ Take(l) \/ Wait(l) \/ Receive(l) \/ SeeClosed(l) \/ SeeRetired(l)
    \/ SeeWake(l) \/ Finish(l) \/ Park(l) \/ Unpark(l)

(* retireIfIdle, under s.mu and the gate's write side: a lane with nothing *)
(* pending, no producer at its gate and an empty backlog, outside sections.*)
Retire(k) ==
    LET l == queues[k] IN
    /\ Dynamic /\ cleanupOn /\ active = None
    /\ l # None
    /\ lane[l].pending = 0 /\ lane[l].ch = <<>>
    /\ lane[l].readers = {}
    /\ lane[l].backlog = <<>>
    /\ lane' = [lane EXCEPT ![l].retired = TRUE, ![l].closed = TRUE]
    /\ queues' = [queues EXCEPT ![k] = None]
    /\ UNCHANGED <<client, barriers, control, cleanup, section, made>>

-----------------------------------------------------------------------------
(* An Exclusive section: runExclusive *)

Sections == {x \in Admins : apc[x] \notin {"idle", "done"}}

AGoto(x, l) == apc' = [apc EXCEPT ![x] = l]

(* exclusiveTurn, and beginSection: refused once stopped.                  *)
Enter(x) ==
    /\ x \in setup.admins /\ apc[x] = "idle" /\ Sections = {}
    /\ AGoto(x, IF stopped THEN "done" ELSE "install")
    /\ UNCHANGED <<client, lane, queues, barriers, control, cleanup, active,
                   sec, made>>

(* installExclusive: publish the section, snapshot the lanes and the       *)
(* off-lane releases already running.                                      *)
installExclusive(x) ==
    /\ apc[x] = "install"
    /\ active' = x
    /\ sec' = [sec EXCEPT ![x].lanes =
                    IF Dynamic
                    THEN {l \in Lanes : Live(l) /\ \E k \in Keys : queues[k] = l}
                    ELSE Laid,
                ![x].running =
                    lifecycle \cup ({barriers[k] : k \in Keys} \ {None})]
    /\ AGoto(x, "running")
    /\ UNCHANGED <<client, lane, queues, barriers, control, cleanup, made>>

AwaitRunning(x) ==
    /\ apc[x] = "running"
    /\ \A c \in sec[x].running : pc[c] # "offlane"
    /\ AGoto(x, "barriers")
    /\ UNCHANGED <<client, lane, queues, barriers, control, cleanup, active,
                   sec, made>>

(* enqueueBarrier on the snapshot, lane by lane.                           *)
enqueueBarrier(x) ==
    /\ apc[x] = "barriers"
    /\ IF sec[x].lanes = {}
       THEN AGoto(x, "parking") /\ UNCHANGED <<lane, sec>>
       ELSE \E l \in sec[x].lanes :
            /\ UNCHANGED apc
            /\ IF Takes(lane[l])
               THEN /\ lane' = [lane EXCEPT ![l] = enqueueMandatory(@, x, FALSE)]
                    /\ sec' = [sec EXCEPT ![x].lanes = @ \ {l},
                                          ![x].expected = @ + 1]
               ELSE /\ sec' = [sec EXCEPT ![x].lanes = @ \ {l}]
                    /\ UNCHANGED lane
    /\ UNCHANGED <<client, queues, barriers, control, cleanup, active, made>>

AllParked(x) ==
    /\ apc[x] = "parking"
    /\ sec[x].parked >= sec[x].expected
    /\ AGoto(x, "ready")
    /\ UNCHANGED <<client, lane, queues, barriers, control, cleanup, active,
                   sec, made>>

(* Mutant: fn runs without a last look at stopCh.                          *)
RunFnUnchecked(x) ==
    /\ apc[x] = "ready"
    /\ AGoto(x, "fn")
    /\ UNCHANGED <<client, lane, queues, barriers, control, cleanup, active,
                   sec, made>>

(* The last look at stopCh before fn.                                      *)
RunFn(x) ==
    /\ apc[x] = "ready"
    /\ AGoto(x, IF stopped THEN "withdraw" ELSE "fn")
    /\ UNCHANGED <<client, lane, queues, barriers, control, cleanup, active,
                   sec, made>>

(* The context expires, the stop is signalled or a barrier aborted.        *)
Abandon(x) ==
    /\ apc[x] \in {"running", "parking", "ready"}
    /\ AGoto(x, "withdraw")
    /\ UNCHANGED <<client, lane, queues, barriers, control, cleanup, active,
                   sec, made>>

FnEnds(x) ==
    /\ apc[x] = "fn"
    /\ AGoto(x, "withdraw")
    /\ UNCHANGED <<client, lane, queues, barriers, control, cleanup, active,
                   sec, made>>

(* withdrawExclusive: take the postponed releases, or unpublish the section*)
(* if there are none.                                                      *)
withdrawExclusive(x) ==
    /\ apc[x] = "withdraw"
    /\ IF sec[x].deferred = <<>>
       THEN AGoto(x, "release") /\ active' = None /\ UNCHANGED sec
       ELSE /\ AGoto(x, "drain")
            /\ sec' = [sec EXCEPT ![x].draining = sec[x].deferred,
                                  ![x].deferred = <<>>]
            /\ UNCHANGED active
    /\ UNCHANGED <<client, lane, queues, barriers, control, cleanup, made>>

DrainNext(x) ==
    /\ apc[x] = "drain"
    /\ IF sec[x].draining = <<>>
       THEN AGoto(x, "withdraw") /\ UNCHANGED starts
       ELSE /\ AGoto(x, "draining")
            /\ starts' = [starts EXCEPT ![Head(sec[x].draining)] = @ + 1]
    /\ UNCHANGED <<client, lane, queues, barriers, control, cleanup, active,
                   sec, finished>>

DrainEnds(x) ==
    /\ apc[x] = "draining"
    /\ AGoto(x, "drain")
    /\ sec' = [sec EXCEPT ![x].draining = Tail(@)]
    /\ finished' = finished \cup {Head(sec[x].draining)}
    /\ UNCHANGED <<client, lane, queues, barriers, control, cleanup, active,
                   starts>>

(* close(release), sections.Done and the turn.                             *)
Release(x) ==
    /\ apc[x] = "release"
    /\ AGoto(x, "done")
    /\ UNCHANGED <<client, lane, queues, barriers, control, cleanup, active,
                   sec, made>>

Admin(x) ==
    \/ installExclusive(x) \/ AwaitRunning(x) \/ enqueueBarrier(x)
    \/ AllParked(x) \/ RunFn(x) \/ FnEnds(x) \/ withdrawExclusive(x)
    \/ DrainNext(x) \/ DrainEnds(x) \/ Release(x)

-----------------------------------------------------------------------------
(* stopGraceful and stopHard *)

(* stopCleanup, and for a hard stop signalHardStopOnce.                    *)
StopCall(h) ==
    /\ stop = "idle" /\ stops < MaxStops
    /\ stops' = stops + 1
    /\ cleanupOn' = FALSE
    /\ hard' = (hard \/ h)
    /\ stop' = "signal"
    /\ UNCHANGED <<client, lane, queues, barriers, stopping, stopped, cleanup,
                   section, made>>

signalStopOnce ==
    /\ stop = "signal"
    /\ stopped' = TRUE
    /\ stop' = "fence"
    /\ UNCHANGED <<client, lane, queues, barriers, stopping, cleanupOn, hard,
                   stops, cleanup, section, made>>

(* Mutant: only the channels of idle lanes are closed.                     *)
CloseIdleLanes ==
    /\ stop = "fence" /\ SubmitFence
    /\ stopping' = TRUE
    /\ lane' = [l \in Lanes |->
                  IF lane[l].ch = <<>> THEN [lane[l] EXCEPT !.closed = TRUE]
                  ELSE lane[l]]
    /\ stop' = "workers"
    /\ UNCHANGED <<client, queues, barriers, cleanupOn, stopped, hard, stops,
                   cleanup, section, made>>

(* waitInFlightSubmits, then markStoppingAndSnapshot and                   *)
(* closeQueueChannels.                                                     *)
CloseLanes ==
    /\ stop = "fence" /\ SubmitFence
    /\ stopping' = TRUE
    /\ lane' = [l \in Lanes |->
                  IF (~Dynamic /\ l \in Laid) \/ \E k \in Keys : queues[k] = l
                  THEN [lane[l] EXCEPT !.closed = TRUE] ELSE lane[l]]
    /\ stop' = "workers"
    /\ UNCHANGED <<client, queues, barriers, cleanupOn, stopped, hard, stops,
                   cleanup, section, made>>

waitWorkers ==
    /\ stop = "workers"
    /\ \A l \in Lanes : lane[l].worker \in {"none", "exited"}
    /\ stop' = "sections"
    /\ UNCHANGED <<client, lane, queues, barriers, stopping, cleanupOn, stopped,
                   hard, stops, cleanup, section, made>>

waitSections ==
    /\ stop = "sections" /\ Sections = {}
    /\ stop' = "lifecycle"
    /\ UNCHANGED <<client, lane, queues, barriers, stopping, cleanupOn, stopped,
                   hard, stops, cleanup, section, made>>

(* finishLifecycleCleanups; then the wrapped engine is released.           *)
finishLifecycleCleanups ==
    /\ stop = "lifecycle" /\ lifecycle = {}
    /\ lifeSealed' = TRUE
    /\ stop' = "done"
    /\ UNCHANGED <<client, lane, queues, barriers, stopping, cleanupOn, stopped,
                   hard, stops, lifecycle, section, made>>

Stop == signalStopOnce \/ CloseLanes \/ waitWorkers \/ waitSections
        \/ finishLifecycleCleanups

(* The stop's context expires while it waits; it may be called again.      *)
StopTimeout ==
    /\ stop \in {"fence", "workers", "sections", "lifecycle"}
    /\ stops < MaxStops
    /\ stop' = "idle"
    /\ UNCHANGED <<client, lane, queues, barriers, stopping, cleanupOn, stopped,
                   hard, stops, cleanup, section, made>>

-----------------------------------------------------------------------------

Init ==
    /\ setup \in Setups
    /\ pc = [c \in Clients |-> "idle"]
    /\ phase = [c \in Clients |-> "submit"]
    /\ at = [c \in Clients |-> None]
    /\ ticket = [c \in Clients |-> 0]
    /\ registered = {} /\ handing = {} /\ accepted = {}
    /\ lane = [l \in Lanes |-> IF Dynamic \/ l \notin Laid THEN Absent
                              ELSE newKeyQueue]
    /\ queues = [k \in Keys |-> IF Dynamic THEN None ELSE ShardOf[k]]
    /\ barriers = [k \in Keys |-> None]
    /\ stopping = FALSE /\ cleanupOn = Dynamic
    /\ stopped = FALSE /\ hard = FALSE /\ stop = "idle" /\ stops = 0
    /\ lifecycle = {} /\ lifeSealed = FALSE
    /\ active = None
    /\ apc = [x \in Admins |-> "idle"]
    /\ sec = [x \in Admins |-> [lanes |-> {}, running |-> {}, expected |-> 0,
                                parked |-> 0, aborted |-> FALSE,
                                deferred |-> <<>>, draining |-> <<>>]]
    /\ earlier = [c \in Clients |-> {}]
    /\ starts = [c \in Clients |-> 0]
    /\ finished = {}

Steps ==
    \/ \E c \in Clients : Begin(c) \/ Client(c) \/ GiveUp(c)
    \/ \E l \in Lanes : Worker(l)
    \/ \E k \in Keys : Retire(k)
    \/ \E x \in Admins : Enter(x) \/ Admin(x) \/ Abandon(x)
    \/ \E h \in BOOLEAN : StopCall(h)
    \/ Stop
    \/ StopTimeout

Next == Steps /\ UNCHANGED setup

Spec == Init /\ [][Next]_vars

(* Goroutines that can go on do: tasks, releases and fn end, and a select  *)
(* with the stop channel closed is left.  The idle window is long against  *)
(* the time from finding a lane to using it, so the lanes that finitely    *)
(* many calls find are not retired under them for ever.  No context need   *)
(* expire, and no call need be made.                                       *)
Fairness ==
    /\ <>[][\A k \in Keys : ~Retire(k)]_vars
    /\ \A c \in Clients : /\ WF_vars(Client(c) /\ UNCHANGED setup)
                         /\ WF_vars(stopped /\ GiveUp(c) /\ UNCHANGED setup)
    /\ \A l \in Lanes : WF_vars(Worker(l) /\ UNCHANGED setup)
    /\ \A x \in Admins : /\ WF_vars(Admin(x) /\ UNCHANGED setup)
                        /\ WF_vars(stopped /\ Abandon(x) /\ UNCHANGED setup)
    /\ WF_vars(Stop /\ UNCHANGED setup)

FairSpec == Spec /\ Fairness

-----------------------------------------------------------------------------
(* Properties *)

(* Engine calls in progress: on a lane, on a client, on a section's drain. *)
Calls ==
    {lane[l].cur : l \in {m \in Lanes : lane[m].worker \in {"task", "release"}}}
    \cup {c \in Clients : pc[c] = "offlane"}
    \cup {Head(sec[x].draining) : x \in {y \in Admins : apc[y] = "draining"}}

(* doc.go:30: "operations routed by the same key never overlap".           *)
SameKeyNeverOverlaps ==
    \A c, d \in Calls : c # d => RouteOf[c] # RouteOf[d]

(* The section whose fn runs.                                              *)
Alone == IF \E x \in Admins : apc[x] = "fn"
         THEN CHOOSE x \in Admins : apc[x] = "fn" ELSE None

Executor == INSTANCE KeyedExecutor WITH alone <- Alone

(* An engine that is not stopped implements the keyed executor: lanes,     *)
(* backlogs, barriers and the off-lane paths together make every operation *)
(* once, one at a time per key, and none beside a section (doc.go:28-47).  *)
ServesAsExecutor == Executor!Spec

(* While fn of an Exclusive section runs, no lane and no off-lane release  *)
(* makes an engine call (exclusive.go:27).                                 *)
ExclusiveAlone == \A x \in Admins : apc[x] = "fn" => Calls = {}

(* A call that begins after another call of its key has returned takes     *)
(* effect after it: a release keeps its place in the lane, through the     *)
(* backlog, the fences, retirement and the off-lane paths (strategy.go:617,*)
(* dynamic.go:296).  Returned leaves out what a section took over past the *)
(* stop.                                                                   *)
EffectsInOrder ==
    \A c \in Clients : starts[c] > 0 => earlier[c] \subseteq finished

(* A stop that has returned success left nothing behind: every accepted    *)
(* task and every release of a call that had returned by the last seal is  *)
(* done, and no section is open (engine.go:784, strategy.go:870).          *)
StopDrains ==
    stop = "done" =>
        /\ accepted \subseteq finished
        /\ \A c \in Clients : pc[c] = "done" /\ c \in Owners => c \in finished
        /\ Sections = {}

(* Every call returns, and what it submitted or released is done.          *)
CallsComplete ==
    \A c \in Clients :
        pc[c] # "idle" ~> /\ pc[c] = "done"
                          /\ c \in accepted \cup Owners => c \in finished

(* Every section ends, also when it is stopped or its lanes are retired.   *)
SectionsEnd == \A x \in Admins : apc[x] # "idle" ~> apc[x] = "done"

(* Every stop ends, by success unless its context expires.                 *)
StopEnds == stop # "idle" ~> stop \in {"done", "idle"}

-----------------------------------------------------------------------------
(* The inductive invariant behind ExclusiveAlone and StopDrains *)

ClientSteps == {"idle", "check", "read", "barrier", "create", "gate", "fence", "admit",
                "send", "blocked", "register", "limit", "enqueue", "nolane", "stopped",
                "late", "lifecycle", "offlane", "done"}
WorkerSteps == {"none", "loop", "select", "task", "release", "barrier", "parked", "exited"}
Published == {"running", "barriers", "parking", "ready", "fn", "withdraw", "drain", "draining"}
Entries == [task : Clients \cup Admins, cutoff : Nat, target : Nat, fence : BOOLEAN]
LaneRecords ==
    [ch : Seq(Clients), closed : BOOLEAN, readers : SUBSET Clients, backlog : Seq(Entries),
     wake : BOOLEAN, retired : BOOLEAN, pending : Int, admitted : Nat, settled : Nat,
     worker : WorkerSteps, cur : Clients \cup Admins \cup {None}, sealed : BOOLEAN]
SectionRecords ==
    [lanes : SUBSET Lanes, running : SUBSET Clients, expected : Nat, parked : Nat,
     aborted : BOOLEAN, deferred : Seq(Clients), draining : Seq(Clients)]

ClientTypes ==
    /\ pc \in [Clients -> ClientSteps] /\ phase \in [Clients -> {"submit", "release"}]
    /\ at \in [Clients -> Lanes \cup Clients \cup {None}] /\ ticket \in [Clients -> Nat]
    /\ registered \subseteq Clients /\ handing \subseteq Clients /\ accepted \subseteq Clients
    /\ earlier \in [Clients -> SUBSET Clients]
RoutingTypes ==
    /\ queues \in [Keys -> Lanes \cup {None}] /\ barriers \in [Keys -> Clients \cup {None}]
    /\ lifecycle \subseteq Clients /\ lifeSealed \in BOOLEAN
StopTypes ==
    /\ stopping \in BOOLEAN /\ cleanupOn \in BOOLEAN /\ stopped \in BOOLEAN /\ hard \in BOOLEAN
    /\ stop \in {"idle", "signal", "fence", "workers", "sections", "lifecycle", "done"}
    /\ stops \in Nat
SectionTypes ==
    /\ active \in Admins \cup {None}
    /\ apc \in [Admins -> Published \cup {"idle", "install", "release", "done"}]
    /\ sec \in [Admins -> SectionRecords]
TypeOK ==
    /\ setup \in Setups /\ lane \in [Lanes -> LaneRecords]
    /\ ClientTypes /\ RoutingTypes /\ StopTypes /\ SectionTypes
    /\ starts \in [Clients -> Nat] /\ finished \subseteq Clients

(* What a lane is at each step of its worker: a sealed lane has been closed *)
(* and drained, a retired one has nothing left and gets nothing more.       *)
LaneShape(q) ==
    /\ q.worker \in {"task", "release"} => q.cur \in Clients
    /\ q.worker \in {"barrier", "parked"} => q.cur \in Admins
    /\ q.worker \in {"none", "loop", "select", "exited"} => q.cur = None
    /\ q.worker = "none" => q.ch = <<>> /\ \A i \in 1..Len(q.backlog) : q.backlog[i].task \in Admins
    /\ q.worker = "exited" => q.sealed /\ q.backlog = <<>>
    /\ q.sealed => q.closed /\ q.ch = <<>>
    /\ q.retired => /\ q.closed /\ q.ch = <<>> /\ q.backlog = <<>>
                    /\ q.worker \in {"loop", "select", "exited"}

(* pending counts what is being sent, queued, owed and under way.           *)
Sending(l) == {c \in Clients : at[c] = l /\ pc[c] \in {"send", "blocked"}}
Pending(l) ==
    lane[l].pending = Cardinality(Sending(l)) + Len(lane[l].ch) + Len(lane[l].backlog)
                      + (IF lane[l].cur = None THEN 0 ELSE 1)

LanesInv ==
    \A l \in Lanes : /\ LaneShape(lane[l]) /\ Pending(l)
                     /\ lane[l].retired => Dynamic
                     /\ lane[l].closed => lane[l].retired \/ stopping

(* A call that is still submitting is registered; on its lane, which it     *)
(* keeps open, it is a reader of the gate (Dynamic).  No client and no key  *)
(* refers to a lane that is gone.                                           *)
Submitting == {"gate", "fence", "admit", "send", "blocked"}
Releasing == {"register", "limit", "enqueue", "nolane"}
ClientInv(c) ==
    /\ pc[c] \in Submitting \cup {"idle"} => phase[c] = "submit"
    /\ pc[c] \in Releasing => phase[c] = "release"
    /\ pc[c] \in Submitting \cup {"check", "read", "barrier", "create"} /\ phase[c] = "submit"
           => c \in registered
    /\ pc[c] \in Submitting \cup {"register", "enqueue", "late"} => at[c] \in Lanes
    /\ pc[c] \in Submitting \ {"gate"} => /\ ~lane[at[c]].closed
                                          /\ Dynamic => c \in lane[at[c]].readers
    /\ at[c] \in Lanes => lane[at[c]].worker # "none"
    /\ pc[c] = "offlane" => c \in lifecycle \/ barriers[RouteOf[c]] = c \/ lifeSealed

QueuesInv ==
    /\ \A k \in Keys : queues[k] # None => lane[queues[k]].worker # "none"
    /\ ~Dynamic => \A l \in Lanes : l \in Laid <=> lane[l].worker # "none"

(* Nothing is registered once the stop has closed the lanes; the lifecycle  *)
(* is sealed after the workers and the sections are gone.                   *)
StopInv ==
    /\ stopping => SubmitFence
    /\ stop \in {"fence", "workers", "sections", "lifecycle", "done"} => stopped
    /\ stop \in {"workers", "sections", "lifecycle", "done"} => stopping
    /\ stop \in {"sections", "lifecycle", "done"} =>
           \A l \in Lanes : lane[l].worker \in {"none", "exited"}
    /\ stop \in {"lifecycle", "done"} \/ lifeSealed => stopped /\ Sections = {}

(* One section at a time; it is published from its installation to its      *)
(* withdrawal, and meanwhile takes the releases that find no lane.          *)
SectionInv(x) ==
    /\ \A y \in Sections : x \in Sections => x = y
    /\ apc[x] \in Published <=> active = x
    /\ apc[x] \in {"parking", "ready", "fn"} => sec[x].lanes = {}
    /\ apc[x] \notin Published => sec[x].deferred = <<>>
    /\ apc[x] \notin {"drain", "draining"} => sec[x].draining = <<>>
    /\ apc[x] = "draining" => sec[x].draining # <<>>
    /\ apc[x] = "running" => \A c \in Clients : pc[c] = "offlane" => c \in sec[x].running
    /\ apc[x] \in {"barriers", "parking", "ready", "fn"} =>
           \A c \in Clients : pc[c] # "offlane"

(* The lanes that have the section's barrier before them or in hand, and    *)
(* those that stand still on it.                                            *)
HasTask(q, t) == q.cur = t \/ \E i \in 1..Len(q.backlog) : q.backlog[i].task = t
Barred(x) == {l \in Lanes : HasTask(lane[l], x)}
ParkedOn(x) == {l \in Lanes : lane[l].worker = "parked" /\ lane[l].cur = x}

BarriersCounted(x) ==
    apc[x] # "done" => /\ Cardinality(Barred(x)) <= sec[x].expected
                       /\ sec[x].parked <= Cardinality(ParkedOn(x))

(* A lane that makes no more calls, and one that makes none before the      *)
(* section is over.                                                         *)
Quiet(q) == q.worker \in {"none", "exited"} \/ q.retired
Holds(q, x) ==
    \/ q.worker \in {"barrier", "parked"} /\ q.cur = x
    \/ q.worker = "loop" /\ Ready(q) /\ Head(q.backlog).task = x

Listed(l) == IF Dynamic THEN \E k \in Keys : queues[k] = l ELSE l \in Laid

(* Before the stop every lane that works is listed; the section then has,   *)
(* or will reach, each of them, and finally holds them all.                 *)
Covered ==
    /\ ~stopped => \A l \in Lanes : Quiet(lane[l]) \/ Listed(l)
    /\ \A x \in Admins :
          /\ apc[x] \in {"running", "barriers", "parking"} /\ ~stopped =>
                \A l \in Lanes : Quiet(lane[l]) \/ l \in sec[x].lanes \/ l \in Barred(x)
          /\ apc[x] = "fn" \/ (apc[x] = "ready" /\ ~stopped) =>
                \A l \in Lanes : Quiet(lane[l]) \/ Holds(lane[l], x)

(* What a call that has returned left to be done is done, on a lane, or     *)
(* with a section.                                                          *)
Owed == accepted \cup {c \in Owners : pc[c] = "done"}
OnLane(q, c) == HasTask(q, c) \/ \E i \in 1..Len(q.ch) : q.ch[i] = c
Kept(c) ==
    \/ c \in finished
    \/ \E l \in Lanes : OnLane(lane[l], c)
    \/ \E x \in Admins : Postponed(sec[x], c)

IInv ==
    /\ TypeOK /\ LanesInv /\ QueuesInv /\ StopInv /\ Covered
    /\ \A c \in Clients : ClientInv(c)
    /\ \A x \in Admins : SectionInv(x) /\ BarriersCounted(x)
    /\ \A c \in Owed : Kept(c)

-----------------------------------------------------------------------------
(* The inductive invariant behind EffectsInOrder *)

(* What a key has on a lane is on its lane, which is not retired before it  *)
(* is taken out of the map; two keys share none (Dynamic).                  *)
RoutesInv ==
    /\ \A l \in Lanes, d \in Clients : OnLane(lane[l], d) => queues[RouteOf[d]] = l
    /\ \A c \in Clients : /\ at[c] \in Lanes /\ ~lane[at[c]].retired => queues[RouteOf[c]] = at[c]
                          /\ pc[c] \in {"stopped", "late", "lifecycle"} => stopped
                          /\ pc[c] = "late" => ~lane[at[c]].retired
    /\ \A k \in Keys : queues[k] # None => ~lane[queues[k]].retired
    /\ Dynamic => \A k, j \in Keys : queues[k] = queues[j] /\ queues[k] # None => k = j
    /\ ~Dynamic => queues = ShardOf

(* Lanes are retired, and entries wait for the submit fence, only on one    *)
(* side of the stop.                                                        *)
FencesInv ==
    /\ stopped \/ stop # "idle" => ~cleanupOn
    /\ \A l \in Lanes : \A i \in 1..Len(lane[l].backlog) : lane[l].backlog[i].fence => stopped

(* Of the tickets of a lane some are settled; the others are being sent,    *)
(* queued or under way.                                                     *)
Tasks(q) == IF q.worker = "task" THEN 1 ELSE 0
TicketsAt(l) ==
    /\ lane[l].admitted = lane[l].settled + Cardinality(Sending(l)) + Len(lane[l].ch) + Tasks(lane[l])
    /\ \A c \in Sending(l) : ticket[c] <= lane[l].admitted
    /\ \A i \in 1..Len(lane[l].backlog) : lane[l].backlog[i].cutoff <= lane[l].admitted
TicketsInv == \A l \in Lanes : TicketsAt(l)

OffLanes(c) == \A l \in Lanes : ~OnLane(lane[l], c)

(* A call that has not begun is nowhere.                                    *)
FreshInv ==
    \A c \in Clients : pc[c] = "idle" => /\ starts[c] = 0 /\ earlier[c] = {} /\ OffLanes(c)
                                         /\ \A x \in Admins : ~Postponed(sec[x], c)

(* The key of a postponed release has no lane that works beside the section.*)
KeyHeld(d, x) ==
    LET l == queues[RouteOf[d]] IN l = None \/ Quiet(lane[l]) \/ Holds(lane[l], x)
HeldInv == ~stopped => \A d \in Clients, x \in Admins : Postponed(sec[x], d) => KeyHeld(d, x)

(* How many of the tickets up to n are on their way into the channel.       *)
Older(l) == [n \in Nat |-> Cardinality({c \in Sending(l) : ticket[c] <= n})]

(* An entry of the backlog still waits for the i-th task in the channel, or *)
(* for the one under way (i = 0), and for the older tickets on their way.   *)
Waits(q, o, e, i) == q.settled + i + Tasks(q) + o[e.cutoff] <= e.target

(* Where c stands on a lane and with a section, and how far it may have     *)
(* come, while d, which returned before c began, is not yet done.           *)
NotOwed(q, d) == \A i \in 1..Len(q.backlog) : q.backlog[i].task # d
Unbarred(q, d) ==
    \A i \in 1..Len(q.backlog) : q.backlog[i].task = d => \A j \in 1..i : ~q.backlog[j].fence
InChannel(q, c, d) ==
    \A j \in 1..Len(q.ch) : q.ch[j] = c =>
        NotOwed(q, d) /\ \A i \in 1..Len(q.ch) : q.ch[i] = d => i < j
InBacklog(q, o, c, d) ==
    \A j \in 1..Len(q.backlog) : q.backlog[j].task = c =>
        /\ \A i \in 1..Len(q.backlog) : q.backlog[i].task = d => i < j
        /\ \A i \in 1..Len(q.ch) : q.ch[i] = d => Waits(q, o, q.backlog[j], i)
        /\ q.worker = "task" /\ q.cur = d => Waits(q, o, q.backlog[j], 0)
InSection(s, c, d) ==
    /\ \A j \in 1..Len(s.draining) : s.draining[j] = c =>
           /\ \A i \in 1..Len(s.deferred) : s.deferred[i] # d
           /\ \A i \in 1..Len(s.draining) : s.draining[i] = d => i < j
    /\ \A i, j \in 1..Len(s.deferred) : s.deferred[i] = d /\ s.deferred[j] = c => i < j
OnItsWay(c, d) ==
    /\ pc[c] = "lifecycle" => OffLanes(d)
    /\ pc[c] \in {"admit", "send", "blocked"} => \A l \in Lanes : NotOwed(lane[l], d)
    /\ pc[c] \notin {"idle", "done"} /\ phase[c] = "submit" => \A l \in Lanes : Unbarred(lane[l], d)
Behind(c, d) ==
    /\ starts[c] = 0
    /\ \A l \in Lanes : InChannel(lane[l], c, d) /\ InBacklog(lane[l], Older(l), c, d)
    /\ \A x \in Admins : /\ InSection(sec[x], c, d)
                         /\ Postponed(sec[x], c) => OffLanes(d)
                         /\ Postponed(sec[x], d) => KeyHeld(d, x)
    /\ OnItsWay(c, d)
PairInv(c, d) ==
    /\ d \in Clients /\ pc[d] = "done" /\ d \in accepted \cup Owners /\ RouteOf[d] = RouteOf[c]
    /\ d \in finished \/ Behind(c, d)

OrderInv ==
    /\ RoutesInv /\ FencesInv /\ TicketsInv /\ FreshInv /\ HeldInv
    /\ \A c \in Clients : \A d \in earlier[c] : PairInv(c, d)

-----------------------------------------------------------------------------
(* The inductive invariant behind ServesAsExecutor *)

(* Before the stop the release that runs on its caller has the key's        *)
(* barrier; a key with a barrier has no lane, and no release postponed.     *)
BarriersInv ==
    ~stopped => /\ \A c \in Clients : pc[c] = "offlane" => barriers[RouteOf[c]] = c
                /\ \A k \in Keys : barriers[k] # None => queues[k] = None
                /\ \A x \in Admins, c \in Clients : Postponed(sec[x], c) => barriers[RouteOf[c]] = None

(* A call is queued on a lane at one place, and with a section at one.      *)
Queued(q, c) ==
    \/ \E i \in 1..Len(q.ch) : q.ch[i] = c
    \/ \E i \in 1..Len(q.backlog) : q.backlog[i].task = c
QueuedOnce(q, c) ==
    /\ \A i, j \in 1..Len(q.ch) : q.ch[i] = c /\ q.ch[j] = c => i = j
    /\ \A i, j \in 1..Len(q.backlog) : q.backlog[i].task = c /\ q.backlog[j].task = c => i = j
    /\ \A i \in 1..Len(q.ch), j \in 1..Len(q.backlog) : ~(q.ch[i] = c /\ q.backlog[j].task = c)
PostponedOnce(s, c) ==
    /\ \A i, j \in 1..Len(s.deferred) : s.deferred[i] = c /\ s.deferred[j] = c => i = j
    /\ \A i, j \in 1..Len(s.draining) : s.draining[i] = c /\ s.draining[j] = c => i = j
    /\ \A i \in 1..Len(s.deferred), j \in 1..Len(s.draining) : ~(s.deferred[i] = c /\ s.draining[j] = c)

(* What a section still has to run, and what it is running.                 *)
LeftTo(s, step, c) ==
    \/ \E i \in 1..Len(s.deferred) : s.deferred[i] = c
    \/ \E i \in 1..Len(s.draining) : s.draining[i] = c /\ (step = "draining" => i > 1)
Drains(s, step, c) == step = "draining" /\ Head(s.draining) = c

Waiting(c) == \/ \E l \in Lanes : Queued(lane[l], c)
              \/ \E x \in Admins : LeftTo(sec[x], apc[x], c)
UnderWay(c) == \/ pc[c] = "offlane"
               \/ \E l \in Lanes : lane[l].cur = c
               \/ \E x \in Admins : Drains(sec[x], apc[x], c)

(* A call is made once: it is with its client, or it waits at one place, or *)
(* it is under way at one place, or it is done.                             *)
MadeOnce(c) ==
    /\ starts[c] \in {0, 1} /\ (c \in finished => starts[c] = 1)
    /\ UnderWay(c) <=> starts[c] = 1 /\ c \notin finished
    /\ Waiting(c) \/ pc[c] \notin {"offlane", "done"} => starts[c] = 0
    /\ pc[c] # "done" => OffLanes(c) /\ \A x \in Admins : ~Postponed(sec[x], c)
    /\ \A l \in Lanes : QueuedOnce(lane[l], c)
    /\ \A x \in Admins : PostponedOnce(sec[x], c) /\ (Postponed(sec[x], c) => OffLanes(c))

OnceInv == BarriersInv /\ \A c \in Clients : MadeOnce(c)

=============================================================================
