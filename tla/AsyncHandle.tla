----------------------------- MODULE AsyncHandle -----------------------------
(***************************************************************************)
(* An asynchronous operation handle (AsyncReservation and                  *)
(* AsyncDropCopyOperation, bindings/go/asyncengine/reservation.go and      *)
(* drop_copy_operation.go) over a native reservation                       *)
(* (bindings/go/pretrade/reservation.go).  Finalizers come from the lane's *)
(* worker and from off-lane cleanup; readers are any goroutine.  A step is *)
(* a section under the handle's mutex or one native access.                *)
(***************************************************************************)
EXTENDS Naturals, FiniteSets

CONSTANTS
    Readers, Finalizers,
    MaxReads,     \* bound: reads begun
    Nobody

ASSUME AsyncHandleAssumption ==
    /\ Nobody \notin Readers \cup Finalizers
    /\ Readers \cap Finalizers = {}
    /\ MaxReads \in Nat

\* reservationCommit .. reservationClose: what the operation resolves to and
\* whether it closes.
Ops == [resolves : {"commit", "rollback"}, closes : BOOLEAN]
       \cup [resolves : {"no"}, closes : {TRUE}]

VARIABLES
    lifecycleMu,           \* its owner
    state, closed,         \* the lifecycle, under mu
    readers, readersDone,  \* readers counted; whether a channel awaits them
    resolved, open,        \* of the native reservation
    pc, op,                \* finalizers' steps and operations
    rpc,                   \* readers' steps
    reads,
    natives                \* history: native commits and rollbacks made

handleVars == <<lifecycleMu, state, closed, readers, readersDone, resolved, open,
                pc, op, rpc, reads, natives>>

life   == <<state, closed, readers, readersDone>>
native == <<resolved, open, natives>>
finals == <<pc, op>>

HandleInit ==
    /\ lifecycleMu = Nobody
    /\ state = "open" /\ closed = FALSE
    /\ readers = {} /\ readersDone = FALSE
    /\ resolved = FALSE /\ open = TRUE
    /\ pc = [f \in Finalizers |-> "idle"]
    /\ op \in [Finalizers -> Ops]
    /\ rpc = [r \in Readers |-> "idle"]
    /\ reads = 0 /\ natives = 0

-----------------------------------------------------------------------------
(* runInner *)

(* Mutant: finalizers do not exclude each other.                           *)
LockNothing(f) ==
    /\ pc[f] = "idle"
    /\ pc' = [pc EXCEPT ![f] = "announce"]
    /\ UNCHANGED <<lifecycleMu, life, native, op, rpc, reads>>

LockLifecycle(f) ==
    /\ pc[f] = "idle" /\ lifecycleMu = Nobody
    /\ lifecycleMu' = f
    /\ pc' = [pc EXCEPT ![f] = "announce"]
    /\ UNCHANGED <<life, native, op, rpc, reads>>

(* Mutant: the channel is awaited also when there is no reader to close it.*)
AnnounceAlways(f) ==
    /\ pc[f] = "announce"
    /\ state' = "finalizing"
    /\ readersDone' = TRUE
    /\ pc' = [pc EXCEPT ![f] = "wait"]
    /\ UNCHANGED <<lifecycleMu, closed, readers, native, op, rpc, reads>>

(* New reads are refused from here on; present ones are awaited.           *)
Announce(f) ==
    /\ pc[f] = "announce"
    /\ state' = "finalizing"
    /\ readersDone' = (readersDone \/ readers # {})
    /\ pc' = [pc EXCEPT ![f] = IF readers # {} THEN "wait" ELSE "resolve"]
    /\ UNCHANGED <<lifecycleMu, closed, readers, native, op, rpc, reads>>

ReadersGone(f) ==
    /\ pc[f] = "wait" /\ ~readersDone
    /\ pc' = [pc EXCEPT ![f] = "resolve"]
    /\ UNCHANGED <<lifecycleMu, life, native, op, rpc, reads>>

(* Mutant: only a destroyed reservation is left alone.                     *)
ResolveAgain(f) ==
    /\ pc[f] = "resolve"
    /\ pc' = [pc EXCEPT ![f] = IF op[f].resolves # "no" /\ open
                               THEN "native" ELSE "close"]
    /\ UNCHANGED <<lifecycleMu, life, native, op, rpc, reads>>

(* commit and rollback of the native reservation: the first wins.          *)
Resolve(f) ==
    /\ pc[f] = "resolve"
    /\ pc' = [pc EXCEPT ![f] = IF op[f].resolves # "no" /\ ~resolved /\ open
                               THEN "native" ELSE "close"]
    /\ UNCHANGED <<lifecycleMu, life, native, op, rpc, reads>>

Native(f) ==
    /\ pc[f] = "native"
    /\ resolved' = TRUE
    /\ natives' = natives + 1
    /\ pc' = [pc EXCEPT ![f] = "close"]
    /\ UNCHANGED <<lifecycleMu, life, open, op, rpc, reads>>

(* close: destroying an unresolved reservation rolls it back.              *)
Close(f) ==
    /\ pc[f] = "close"
    /\ IF op[f].closes /\ open
       THEN /\ open' = FALSE /\ resolved' = TRUE
            /\ natives' = IF resolved THEN natives ELSE natives + 1
       ELSE UNCHANGED native
    /\ pc' = [pc EXCEPT ![f] = "finish"]
    /\ UNCHANGED <<lifecycleMu, life, op, rpc, reads>>

(* The deferred end: closed is sticky; the future is resolved.             *)
Finish(f) ==
    /\ pc[f] = "finish"
    /\ closed' = (closed \/ op[f].closes)
    /\ state' = IF closed' THEN "closed" ELSE "open"
    /\ lifecycleMu' = Nobody
    /\ pc' = [pc EXCEPT ![f] = "done"]
    /\ UNCHANGED <<readers, readersDone, native, op, rpc, reads>>

-----------------------------------------------------------------------------
(* Lock, AccountAdjustments and the other reads *)

(* Mutant: only a closed handle refuses reads.                             *)
BeginReadUnlessClosed(r) ==
    /\ rpc[r] = "idle" /\ reads < MaxReads
    /\ reads' = reads + 1
    /\ \/ /\ ~closed
          /\ readers' = readers \cup {r}
          /\ rpc' = [rpc EXCEPT ![r] = "reading"]
       \/ closed /\ UNCHANGED <<readers, rpc>>
    /\ UNCHANGED <<lifecycleMu, state, closed, readersDone, native, finals>>

(* beginRead: refused while a finalizer is at work, and for good when      *)
(* closed.                                                                 *)
BeginRead(r) ==
    /\ rpc[r] = "idle" /\ reads < MaxReads
    /\ reads' = reads + 1
    /\ \/ /\ ~closed /\ state = "open"
          /\ readers' = readers \cup {r}
          /\ rpc' = [rpc EXCEPT ![r] = "reading"]
       \/ (closed \/ state # "open") /\ UNCHANGED <<readers, rpc>>
    /\ UNCHANGED <<lifecycleMu, state, closed, readersDone, native, finals>>

(* endRead: the last reader closes the channel, if one is awaited.         *)
EndRead(r) ==
    /\ rpc[r] = "reading"
    /\ rpc' = [rpc EXCEPT ![r] = "idle"]
    /\ readers' = readers \ {r}
    /\ readersDone' = (readersDone /\ readers' # {})
    /\ UNCHANGED <<lifecycleMu, state, closed, native, finals, reads>>

Finalizes(f) ==
    \/ LockLifecycle(f) \/ Announce(f) \/ ReadersGone(f) \/ Resolve(f)
    \/ Native(f) \/ Close(f) \/ Finish(f)

HandleNext ==
    \/ \E f \in Finalizers : Finalizes(f)
    \/ \E r \in Readers : BeginRead(r) \/ EndRead(r)

HandleSpec == HandleInit /\ [][HandleNext]_handleVars

(* A goroutine gets a mutex that others release, and a read ends.          *)
HandleFairness ==
    /\ \A f \in Finalizers : SF_handleVars(Finalizes(f))
    /\ \A r \in Readers : WF_handleVars(EndRead(r))

-----------------------------------------------------------------------------
(* Properties *)

TypeOK ==
    /\ lifecycleMu \in Finalizers \cup {Nobody}
    /\ state \in {"open", "finalizing", "closed"}
    /\ closed \in BOOLEAN /\ readersDone \in BOOLEAN
    /\ readers \in SUBSET Readers
    /\ resolved \in BOOLEAN /\ open \in BOOLEAN
    /\ pc \in [Finalizers -> {"idle", "announce", "wait", "resolve", "native",
                              "close", "finish", "done"}]
    /\ op \in [Finalizers -> Ops]
    /\ rpc \in [Readers -> {"idle", "reading"}]
    /\ reads \in Nat /\ natives \in Nat

InsideLock == {"resolve", "native", "close", "finish"}

(* Several finalizers, on the lane and off it, resolve the native          *)
(* reservation once between them: the first decision is the only native    *)
(* one (reservation.go:69, pretrade/reservation.go:127).                   *)
ResolvedOnce == natives <= 1

(* No reader is inside the native reservation while a finalizer is, or     *)
(* after it was destroyed (reservation.go:69, 110).                        *)
ReadsAlone ==
    readers # {} => /\ open
                    /\ \A f \in Finalizers : pc[f] \notin InsideLock

(* Who is inside the native reservation, for the abstract specification.   *)
Alone ==
    IF lifecycleMu # Nobody /\ pc[lifecycleMu] \in InsideLock
    THEN lifecycleMu ELSE Nobody

Access == INSTANCE HandleAccess
            WITH reading <- readers, finalizing <- Alone, alive <- open

(* The handle gives its native reservation shared reads and exclusive      *)
(* finalization (reservation.go:69-135).                                   *)
GivesAccess == Access!Spec

(* Every finalizer returns: readers that are awaited do signal, and the    *)
(* handle is not left locked (reservation.go:76).                          *)
FinalizersReturn == \A f \in Finalizers : <>(pc[f] = "done")

-----------------------------------------------------------------------------
(* The inductive invariant *)

Busy == {"announce", "wait"} \cup InsideLock

(* A finalizer in its run holds lifecycleMu, and no one else does.         *)
OwnerInv == \A f \in Finalizers : pc[f] \in Busy <=> lifecycleMu = f

(* From its announcement to its end a finalizer keeps reads out; it goes   *)
(* inside when the last reader, if any, has signalled.                     *)
ReadersInv ==
    /\ \A r \in Readers : rpc[r] = "reading" <=> r \in readers
    /\ \A f \in Finalizers :
          /\ pc[f] \in {"wait"} \cup InsideLock => state = "finalizing"
          /\ pc[f] = "wait" => readersDone \/ readers = {}
          /\ pc[f] \in InsideLock => readers = {}

(* A destroyed native object is closed to reads.                           *)
OpenInv ==
    /\ ~open => closed \/ \E f \in Finalizers : pc[f] = "finish" /\ op[f].closes
    /\ readers # {} => open

(* One native resolution, made by whoever finds none.                      *)
NativeInv ==
    /\ natives = IF resolved THEN 1 ELSE 0
    /\ \A f \in Finalizers : pc[f] = "native" => ~resolved

IInv == TypeOK /\ OwnerInv /\ ReadersInv /\ OpenInv /\ NativeInv

=============================================================================
