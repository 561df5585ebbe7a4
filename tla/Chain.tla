-------------------------------- MODULE Chain --------------------------------
(***************************************************************************)
(* One chain of the Go asynchronous engine: a plan of steps that runs as a *)
(* single task of its lane, with caller hooks that may fail or panic, an   *)
(* engine driver that may fail or answer out of shape, operation handles   *)
(* that must be finalized, results a hook may leak to another goroutine,   *)
(* and the outcome the future resolves with                                *)
(* (bindings/go/asyncengine/scenario.go, scenario_admin.go).               *)
(*                                                                         *)
(* The lane is AsyncEngine's subject: here a submission is refused, or     *)
(* accepted and then started or aborted.                                   *)
(***************************************************************************)
EXTENDS Naturals, Sequences

CONSTANTS
    Kinds,       \* step kinds that plans are made of
    Sources,     \* "order", "account", "group"
    MaxSteps,    \* bound: steps of a plan
    Nothing

\* Operations that leave a handle, to be committed or rolled back.
Operations == {"preTrade", "dropCopy"}
\* Calls that ask the caller for their input first.
WithInput  == {"report", "adjust", "block", "setCurrency", "setPnl", "blockGroup"}
\* Calls that do not.
Plain      == {"unblock", "clearCurrency", "unblockGroup"}
GroupOnly  == {"blockGroup", "unblockGroup"}
OrderOnly  == Operations \cup {"check"}
AllKinds   == {"then"} \cup OrderOnly \cup WithInput \cup Plain

ASSUME ChainAssumption ==
    /\ Kinds \subseteq AllKinds
    /\ Sources \subseteq {"order", "account", "group"}
    /\ MaxSteps \in Nat
    /\ Nothing \notin Nat \cup {"live", "closed"}

VARIABLES
    plan, source, fin,   \* the steps, the source's kind, whether Finally is set
    at, i,               \* where the task is, and in which step
    pending,             \* the operation to roll back on the way out
    handles,             \* operations and dry-run reports of the run
    result,              \* what a hook was given: [handle, available]
    reading,             \* a goroutine reads the leaked result under its mutex
    retryUnsafe, err, status, ready,
    future,
    \* History: a call that can change state was entered; operations whose
    \* hook decided to commit; how Finally was called.
    entered, decided, toldFinally

chainVars == <<plan, source, fin, at, i, pending, handles, result, reading,
               retryUnsafe, err, status, ready, future, entered, decided,
               toldFinally>>

shape == <<plan, source, fin>>
flags == <<retryUnsafe, entered>>
ghost == <<decided, toldFinally>>

Kind == plan[i]

Handle(s) == [open |-> s, resolved |-> "no"]

(* validate, per step kind.                                                *)
Valid(kind) ==
    CASE kind \in OrderOnly -> source = "order"
      [] kind \in GroupOnly -> source = "group"
      [] kind = "then" -> TRUE
      [] OTHER -> source # "group"

(* resolvedOutcome.                                                        *)
Outcome(e) ==
    [status |-> IF e # {} THEN "failed" ELSE status, err |-> e,
     retryUnsafe |-> retryUnsafe]

Failed == [status |-> "failed", err |-> {"error"}, retryUnsafe |-> FALSE]

-----------------------------------------------------------------------------
(* Submission *)

(* runChain: a plan that is not valid is not submitted.                    *)
Run ==
    /\ at = "new"
    /\ \/ /\ \E n \in DOMAIN plan : ~Valid(plan[n])
          /\ at' = "done" /\ future' = Failed
       \/ /\ \A n \in DOMAIN plan : Valid(plan[n])
          /\ at' = "queued" /\ UNCHANGED future
       \/ /\ \A n \in DOMAIN plan : Valid(plan[n])   \* submit returns an error
          /\ at' = "done" /\ future' = Failed
    /\ UNCHANGED <<shape, i, pending, handles, result, reading, flags, err, status,
                   ready, ghost>>

(* abort: a hard stop or a drain takes the task before it starts.          *)
Abort ==
    /\ at = "queued"
    /\ at' = "done" /\ future' = Failed
    /\ UNCHANGED <<shape, i, pending, handles, result, reading, flags, err, status,
                   ready, ghost>>

(* A hook's or a driver's error, or a panic that the deferred function     *)
(* recovers: the run goes to its cleanup.                                  *)
Fail ==
    /\ at' = "cleanup"
    /\ err' = {"error"}

(* The next step, or the end of the plan.                                  *)
Advance ==
    /\ i' = i + 1
    /\ at' = IF i = Len(plan) THEN "cleanup" ELSE "step"
    /\ UNCHANGED err

Begin ==
    /\ at = "queued"
    /\ \/ ready' = TRUE /\ Advance
       \/ Fail /\ UNCHANGED <<i, ready>>
    /\ UNCHANGED <<shape, pending, handles, result, reading, flags, status, future,
                   ghost>>

-----------------------------------------------------------------------------
(* Steps *)

(* A caller's hook without a result: the step ends or the run fails.       *)
Hook(l, done) ==
    /\ at = l
    /\ done \/ (Fail /\ UNCHANGED <<i, status>>)
    /\ UNCHANGED <<shape, pending, handles, result, reading, flags, ready, future,
                   ghost>>

Then == Kind = "then" /\ Hook("step", Advance /\ UNCHANGED status)

(* Mutant: the flag is set once the driver has answered with a handle.     *)
MarkAnswered(answered) == retryUnsafe' = (retryUnsafe \/ answered)

(* t.retryUnsafe is set before the driver is entered.                      *)
MarkUnsafe(answered) == retryUnsafe' = TRUE

(* executePreTrade and applyDropCopy: the driver's answer is a handle,     *)
(* live or closed, rejects and an error, in any combination; exactly one   *)
(* of a live handle, rejects and an error is in shape.  It may panic too.  *)
Operate ==
    /\ at = "step" /\ Kind \in Operations
    /\ entered' = TRUE
    /\ \/ \E h \in {Nothing, "live", "closed"}, rejects, failed \in BOOLEAN :
          /\ MarkUnsafe(h = "live")
          /\ handles' = IF h = Nothing THEN handles ELSE Append(handles, Handle(h = "live"))
          /\ pending' = IF h = Nothing THEN pending ELSE Len(handles) + 1
          /\ \/ /\ h = "live" /\ ~rejects /\ ~failed
                /\ result' = [handle |-> Len(handles) + 1, available |-> TRUE]
                /\ at' = "decide" /\ UNCHANGED err
             \/ /\ h = Nothing /\ rejects /\ ~failed
                /\ at' = "rejected" /\ UNCHANGED <<result, err>>
             \/ /\ ~(h = "live" /\ ~rejects /\ ~failed)
                /\ ~(h = Nothing /\ rejects /\ ~failed)
                /\ Fail /\ UNCHANGED result
       \/ Fail /\ MarkUnsafe(FALSE) /\ UNCHANGED <<handles, pending, result>>
    /\ UNCHANGED <<shape, i, reading, status, ready, future, ghost>>

(* OnRejected: the chain ends rejected.                                    *)
OnRejected ==
    Hook("rejected", /\ status' = "rejected" /\ at' = "cleanup"
                     /\ UNCHANGED <<i, err>>)

(* Mutant: the result is invalidated without its mutex.                    *)
InvalidateUnlocked == result' = [result EXCEPT !.available = FALSE]

(* invalidate waits for a read in progress.                                *)
Invalidate == ~reading /\ result' = [result EXCEPT !.available = FALSE]

(* OnReserved and OnApplied: a decision, valid or not, an error or a panic.*)
Decide ==
    /\ at = "decide"
    /\ Invalidate
    /\ \/ \E d \in {"commit", "rollback", "invalid"} :
             /\ at' = d /\ UNCHANGED err
             /\ decided' = IF d = "commit" THEN decided \cup {result.handle} ELSE decided
       \/ Fail /\ UNCHANGED decided
    /\ UNCHANGED <<shape, i, pending, handles, reading, flags, status, ready, future,
                   toldFinally>>

Resolved(h, how) ==
    [handles EXCEPT ![h] =
        [open |-> FALSE,
         resolved |-> IF @.open /\ @.resolved = "no" THEN how ELSE @.resolved]]

(* finalizeDecision: an invalid decision rolls back and fails.             *)
Finalize ==
    /\ at \in {"commit", "rollback", "invalid"}
    /\ handles' = Resolved(pending, IF at = "commit" THEN "commit" ELSE "rollback")
    /\ pending' = Nothing
    /\ \/ at = "commit" /\ Advance /\ UNCHANGED status
       \/ at = "rollback" /\ at' = "cleanup" /\ status' = "rejected" /\ UNCHANGED <<i, err>>
       \/ at = "invalid" /\ Fail /\ UNCHANGED <<i, status>>
    /\ UNCHANGED <<shape, result, reading, flags, ready, future, ghost>>

(* checkOrder: a dry run changes no state.  A report that is missing,      *)
(* closed or unreadable fails the chain; the verdict does not.             *)
CheckOrder ==
    /\ at = "step" /\ Kind = "check"
    /\ \/ /\ handles' = Append(handles, Handle(TRUE))
          /\ \/ /\ result' = [handle |-> Len(handles) + 1, available |-> TRUE]
                /\ at' = "checked" /\ UNCHANGED err
             \/ /\ at' = "closeFailed" /\ UNCHANGED <<result, err>>
       \/ Fail /\ UNCHANGED <<handles, result>>
    /\ UNCHANGED <<shape, i, pending, reading, flags, status, ready, future, ghost>>

OnChecked ==
    /\ at = "checked"
    /\ Invalidate
    /\ at' \in {"closeChecked", "closeFailed"}
    /\ UNCHANGED <<shape, i, pending, handles, reading, flags, err, status, ready,
                   future, ghost>>

(* The deferred report.Close, after the deferred invalidation.             *)
CloseReport ==
    /\ at \in {"closeChecked", "closeFailed"}
    /\ handles' = Resolved(Len(handles), "read")
    /\ \/ at = "closeChecked" /\ Advance
       \/ at = "closeFailed" /\ Fail /\ UNCHANGED i
    /\ UNCHANGED <<shape, pending, result, reading, flags, status, ready, future, ghost>>

(* Report, Adjustments, Reason, Currency, Assignment: the caller's input,  *)
(* or an error, or a report of another account.                            *)
Input ==
    /\ Kind \in WithInput
    /\ Hook("step", at' = "call" /\ UNCHANGED <<i, err, status>>)

(* The call itself, after which the caller hears of it.                    *)
CallDriver ==
    /\ at = IF Kind \in WithInput THEN "call" ELSE "step"
    /\ Kind \in WithInput \cup Plain
    /\ entered' = TRUE
    /\ MarkUnsafe(TRUE)
    /\ \/ at' = "told" /\ UNCHANGED err
       \/ Fail    \* an error, where the call returns one, or a panic
    /\ UNCHANGED <<shape, i, pending, handles, result, reading, status, ready, future,
                   ghost>>

OnTold == Hook("told", Advance /\ UNCHANGED status)

-----------------------------------------------------------------------------
(* The deferred function of execute *)

(* Mutant: a pending operation is rolled back after a panic only.          *)
CleanupForgets ==
    /\ at = "cleanup"
    /\ err' = IF err # {} /\ retryUnsafe THEN err \cup {"retry"} ELSE err
    /\ at' = IF ready /\ fin THEN "finally" ELSE "resolve"
    /\ UNCHANGED <<shape, i, pending, handles, result, reading, flags, status, ready,
                   future, ghost>>

(* Mutant: Finally also runs when begin failed.                            *)
CleanupUnready ==
    /\ at = "cleanup"
    /\ handles' = IF pending = Nothing THEN handles ELSE Resolved(pending, "rollback")
    /\ pending' = Nothing
    /\ err' = IF err # {} /\ retryUnsafe THEN err \cup {"retry"} ELSE err
    /\ at' = IF fin THEN "finally" ELSE "resolve"
    /\ UNCHANGED <<shape, i, result, reading, flags, status, ready, future, ghost>>

(* rollbackPending, then the retry verdict is joined to an error.          *)
Cleanup ==
    /\ at = "cleanup"
    /\ handles' = IF pending = Nothing THEN handles ELSE Resolved(pending, "rollback")
    /\ pending' = Nothing
    /\ err' = IF err # {} /\ retryUnsafe THEN err \cup {"retry"} ELSE err
    /\ at' = IF ready /\ fin THEN "finally" ELSE "resolve"
    /\ UNCHANGED <<shape, i, result, reading, flags, status, ready, future, ghost>>

(* callFinally, with its own recovery.                                     *)
Finally ==
    /\ at = "finally"
    /\ \/ err' = err
       \/ err' = err \cup {"error"} \cup
                 (IF err = {} /\ retryUnsafe THEN {"retry"} ELSE {})
    /\ toldFinally' = Append(toldFinally, Outcome(err))
    /\ at' = "resolve"
    /\ UNCHANGED <<shape, i, pending, handles, result, reading, flags, status, ready,
                   future, decided>>

ResolveFuture ==
    /\ at = "resolve"
    /\ at' = "done"
    /\ future' = Outcome(err)
    /\ UNCHANGED <<shape, i, pending, handles, result, reading, flags, err, status,
                   ready, ghost>>

-----------------------------------------------------------------------------
(* A goroutine that kept a result: its reads run under the result's mutex, *)
(* and only while the result is available.                                 *)
ReadResult ==
    /\ result # Nothing /\ result.available /\ ~reading
    /\ reading' = TRUE
    /\ UNCHANGED <<shape, at, i, pending, handles, result, flags, err, status, ready,
                   future, ghost>>

(* Mutant: the read returns and keeps the result's mutex.                  *)
EndReadKeepsLock == reading /\ UNCHANGED chainVars

EndResultRead ==
    /\ reading
    /\ reading' = FALSE
    /\ UNCHANGED <<shape, at, i, pending, handles, result, flags, err, status, ready,
                   future, ghost>>

-----------------------------------------------------------------------------

Plans == UNION {[1..n -> Kinds] : n \in 0..MaxSteps}

ChainInit ==
    /\ plan \in Plans /\ source \in Sources /\ fin \in BOOLEAN
    /\ at = "new" /\ i = 0
    /\ pending = Nothing /\ handles = <<>> /\ result = Nothing /\ reading = FALSE
    /\ retryUnsafe = FALSE /\ err = {} /\ status = "completed" /\ ready = FALSE
    /\ future = Nothing
    /\ entered = FALSE /\ decided = {} /\ toldFinally = <<>>

InStep == i \in DOMAIN plan

Executes ==
    \/ Begin
    \/ InStep /\ (Then \/ Operate \/ OnRejected \/ Decide \/ Finalize)
    \/ InStep /\ (CheckOrder \/ OnChecked \/ CloseReport)
    \/ InStep /\ (Input \/ CallDriver \/ OnTold)
    \/ Cleanup \/ Finally \/ ResolveFuture

ChainNext == Run \/ Abort \/ Executes \/ ReadResult \/ EndResultRead

ChainSpec == ChainInit /\ [][ChainNext]_chainVars

(* The lane starts what it accepted (or aborts it) and goes on with it,    *)
(* and a read ends.  The run gets the result's mutex between two reads:    *)
(* Go's mutex hands over to a waiter.                                      *)
ChainFairness == SF_chainVars(Executes) /\ WF_chainVars(EndResultRead)

-----------------------------------------------------------------------------
(* Properties *)

(* A goroutine that kept a hook's result never reads an operation or a     *)
(* report that is finalized or closed under it, however the hook ended     *)
(* (scenario.go:806, 1001).                                                *)
ReadsLiveHandles ==
    reading => /\ handles[result.handle].open
               /\ handles[result.handle].resolved = "no"

(* When the future resolves, and already when Finally runs, every handle   *)
(* of the run is closed, and an operation is committed exactly when its    *)
(* hook decided so: whatever hook, driver call or step failed or panicked  *)
(* in between (scenario.go:691, 927).                                      *)
NothingLeftOpen ==
    at \in {"finally", "resolve", "done"} =>
        \A h \in DOMAIN handles :
            /\ ~handles[h].open
            /\ handles[h].resolved = "commit" <=> h \in decided

(* An outcome that does not call a retry unsafe is of a run that entered   *)
(* no call which can change state, and a failed outcome carries the verdict*)
(* in its error as well, also when Finally is what failed (scenario.go:701,*)
(* 707).                                                                   *)
RetryVerdict ==
    future # Nothing =>
        /\ ~future.retryUnsafe => ~entered
        /\ future.status = "failed" <=> future.err # {}
        /\ future.err # {} => (future.retryUnsafe <=> "retry" \in future.err)

(* Finally runs once, if the run has a state, and the future tells what it *)
(* was told unless it failed itself (scenario.go:705).                     *)
FinallyOnce ==
    future # Nothing =>
        /\ Len(toldFinally) = IF ready /\ fin THEN 1 ELSE 0
        /\ \A n \in DOMAIN toldFinally :
               toldFinally[n] # future => /\ toldFinally[n].status # "failed"
                                     /\ future.status = "failed"

(* A chain that its lane accepted resolves its future, whatever begin, its *)
(* hooks and the driver do and although invalidate waits for a leaked      *)
(* read (scenario.go:691, 1001).                                           *)
ChainResolves == at = "queued" ~> future # Nothing

-----------------------------------------------------------------------------
(* The inductive invariants.  Deciding: an operation waits for its hook or *)
(* its finalization; Checking: a dry-run report waits to be closed.        *)
Deciding == {"decide", "commit", "rollback", "invalid"}
Checking == {"checked", "closeChecked", "closeFailed"}
Locations == {"new", "queued", "step", "rejected", "call", "told", "cleanup", "finally",
              "resolve", "done"} \cup Deciding \cup Checking

HandleRecords == [open : BOOLEAN, resolved : {"no", "commit", "rollback", "read"}]
Results == [handle : Nat, available : BOOLEAN]

(* The handle in hand, if there is one, is the last.                       *)
InHand == at \in Deciding \cup Checking \/ pending # Nothing
Newest == Len(handles)

LastHandle ==
    /\ InHand => /\ handles # <<>> /\ handles[Newest].resolved = "no"
                 /\ Newest \in decided <=> at = "commit"
    /\ at \in Deciding \cup Checking => handles[Newest].open

(* What is pending is that operation, until the deferred cleanup.          *)
PendingLast ==
    /\ at \in Deciding => pending = Newest
    /\ at \notin Deciding \cup {"cleanup"} => pending = Nothing
    /\ pending # Nothing => pending = Newest

(* All other handles are settled as their hooks decided.                   *)
OthersSettled ==
    \A h \in DOMAIN handles :
        h # Newest \/ ~InHand => /\ ~handles[h].open
                                 /\ handles[h].resolved = "commit" <=> h \in decided

(* A result can be read while its hook runs only.                          *)
ResultInHand ==
    /\ at \in {"decide", "checked"} => result \in Results /\ result.handle = Newest
    /\ result # Nothing /\ result.available => at \in {"decide", "checked"}
    /\ reading => result # Nothing /\ result.available

HandlesInv ==
    /\ at \in Locations /\ handles \in Seq(HandleRecords) /\ decided \subseteq DOMAIN handles
    /\ reading \in BOOLEAN
    /\ LastHandle /\ PendingLast /\ OthersSettled /\ ResultInHand

(* The error of a run and what Finally was told of it.                     *)
Told ==
    IF at \in {"resolve", "done"} /\ ready /\ fin
    THEN Len(toldFinally) = 1 ELSE toldFinally = <<>>

ErrorSoFar ==
    /\ at \notin {"cleanup", "finally", "resolve", "done"} => err = {}
    /\ at = "cleanup" => err \in {{}, {"error"}}
    /\ at \in {"finally", "resolve"} =>
           err \in {{}, {"error"} \cup (IF retryUnsafe THEN {"retry"} ELSE {})}

Verdict ==
    IF at = "done"
    THEN /\ future.status = "failed" <=> future.err # {}
         /\ ~future.retryUnsafe => ~entered
         /\ future.err # {} => (future.retryUnsafe <=> "retry" \in future.err)
    ELSE future = Nothing

ToldTruth ==
    \A n \in DOMAIN toldFinally :
        LET known == IF at = "done" THEN future ELSE Outcome(err)
        IN  toldFinally[n] # known => /\ toldFinally[n].status # "failed"
                                     /\ known.status = "failed"

VerdictInv ==
    /\ at \in Locations
    /\ retryUnsafe \in BOOLEAN /\ entered = retryUnsafe
    /\ ready \in BOOLEAN /\ fin \in BOOLEAN
    /\ status \in {"completed", "rejected"}
    /\ at \in {"new", "queued"} => ~ready /\ ~retryUnsafe
    /\ at = "finally" => ready /\ fin
    /\ Told /\ ErrorSoFar /\ Verdict /\ ToldTruth

=============================================================================
