----------------------------- MODULE MCHandles -----------------------------
(***************************************************************************)
(* The handle and the chain of the Go engine for TLC.  They share no       *)
(* state, so a behaviour of one is checked beside the other at its end: a  *)
(* handle whose finalizers have returned, a chain that was refused.        *)
(***************************************************************************)
EXTENDS AsyncHandle, Chain

CONSTANTS f1, f2, f3, r1, r2

HandleOver ==
    /\ lifecycleMu = Nobody
    /\ state = "open" /\ closed = FALSE
    /\ readers = {} /\ readersDone = FALSE
    /\ resolved = TRUE /\ open = TRUE /\ natives = 1
    /\ pc = [f \in Finalizers |-> "done"]
    /\ op = [f \in Finalizers |-> [resolves |-> "commit", closes |-> FALSE]]
    /\ rpc = [r \in Readers |-> "idle"]
    /\ reads = MaxReads

ChainOver ==
    /\ plan = <<>> /\ source = "order" /\ fin = FALSE
    /\ at = "done" /\ i = 0 /\ future = Failed
    /\ pending = Nothing /\ handles = <<>> /\ result = Nothing /\ reading = FALSE
    /\ retryUnsafe = FALSE /\ err = {} /\ status = "completed" /\ ready = FALSE
    /\ entered = FALSE /\ decided = {} /\ toldFinally = <<>>

MCInit == (HandleInit /\ ChainOver) \/ (ChainInit /\ HandleOver)

MCNext == (HandleNext /\ UNCHANGED chainVars) \/ (ChainNext /\ UNCHANGED handleVars)

MCSpec ==
    /\ MCInit /\ [][MCNext]_<<handleVars, chainVars>>
    /\ HandleFairness /\ ChainFairness

=============================================================================
