---------------------------- MODULE KeyedExecutor ----------------------------
(***************************************************************************)
(* What the asynchronous engine promises (doc.go:28-47): each operation is *)
(* made at most once, operations of one routing key do not overlap while   *)
(* the engine serves, and an exclusive section runs alone.  AsyncEngine is *)
(* shown to implement it.                                                  *)
(***************************************************************************)
EXTENDS Naturals

CONSTANTS
    Clients,  \* one operation each
    Admins,   \* one exclusive section each
    RouteOf,  \* the routing key of each operation
    None

VARIABLES
    starts,   \* how often each operation was started
    finished, \* the operations that have ended
    alone,    \* the exclusive section that runs, or None
    stopped   \* the engine was stopped, for good

vars == <<starts, finished, alone, stopped>>

Running == {c \in Clients : starts[c] > 0} \ finished

Init ==
    /\ starts = [c \in Clients |-> 0]
    /\ finished = {}
    /\ alone = None
    /\ stopped = FALSE

Start(c) ==
    /\ starts[c] = 0
    /\ alone = None
    /\ stopped \/ \A d \in Running : RouteOf[d] # RouteOf[c]
    /\ starts' = [starts EXCEPT ![c] = 1]
    /\ UNCHANGED <<finished, alone, stopped>>

Finish(c) ==
    /\ c \in Running
    /\ finished' = finished \cup {c}
    /\ UNCHANGED <<starts, alone, stopped>>

Enter(x) ==
    /\ alone = None
    /\ Running = {}
    /\ alone' = x
    /\ UNCHANGED <<starts, finished, stopped>>

Leave ==
    /\ alone # None
    /\ alone' = None
    /\ UNCHANGED <<starts, finished, stopped>>

Stop ==
    /\ stopped' = TRUE
    /\ UNCHANGED <<starts, finished, alone>>

Next ==
    \/ \E c \in Clients : Start(c) \/ Finish(c)
    \/ \E x \in Admins : Enter(x)
    \/ Leave
    \/ Stop

Spec == Init /\ [][Next]_vars

=============================================================================
