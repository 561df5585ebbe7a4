----------------------------- MODULE HandleAccess -----------------------------
(***************************************************************************)
(* What an asynchronous operation handle promises to the native object it  *)
(* wraps: reads share it, a finalizer has it alone, and it is destroyed by *)
(* a finalizer at most once, after which it is not read.                   *)
(***************************************************************************)
CONSTANTS Readers, Finalizers, Nobody

VARIABLES
    reading,      \* readers inside the native object
    finalizing,   \* the finalizer inside it, or Nobody
    alive         \* it has not been destroyed

vars == <<reading, finalizing, alive>>

Init == reading = {} /\ finalizing = Nobody /\ alive = TRUE

StartRead(r) ==
    /\ finalizing = Nobody /\ alive
    /\ reading' = reading \cup {r}
    /\ UNCHANGED <<finalizing, alive>>

StopRead(r) ==
    /\ reading' = reading \ {r}
    /\ UNCHANGED <<finalizing, alive>>

StartFinalize(f) ==
    /\ finalizing = Nobody /\ reading = {}
    /\ finalizing' = f
    /\ UNCHANGED <<reading, alive>>

Destroy(f) ==
    /\ finalizing = f /\ alive
    /\ alive' = FALSE
    /\ UNCHANGED <<reading, finalizing>>

StopFinalize(f) ==
    /\ finalizing = f
    /\ finalizing' = Nobody
    /\ UNCHANGED <<reading, alive>>

Next ==
    \/ \E r \in Readers : StartRead(r) \/ StopRead(r)
    \/ \E f \in Finalizers : StartFinalize(f) \/ Destroy(f) \/ StopFinalize(f)

Spec == Init /\ [][Next]_vars

=============================================================================
