-------------------------- MODULE ProcessLifecycle --------------------------
(***************************************************************************)
(* What the process control of a worker promises to its callers: one       *)
(* instance of the process at a time.  An instance is launched once, stays *)
(* the same while it is being stopped, and is given up only by the stop;   *)
(* the next one is launched from idle.  A failed start ends the life of    *)
(* the control.  The transitions are those of ProcessStates.               *)
(***************************************************************************)
CONSTANTS Handle, NoHandle

VARIABLES
    state,      \* the state a caller is told
    instance,   \* the launched process, until it is stopped
    past        \* every instance so far

vars == <<state, instance, past>>

States == INSTANCE ProcessStates

Init == States!Init /\ instance = NoHandle /\ past = {}

BeginStart == States!BeginStart /\ UNCHANGED <<instance, past>>

Started ==
    /\ States!Started
    /\ \E h \in Handle \ past : instance' = h /\ past' = past \cup {h}

StartFailed == States!StartFailed /\ UNCHANGED <<instance, past>>

BeginStop == States!BeginStop /\ UNCHANGED <<instance, past>>

Stopped ==
    /\ States!Stopped
    /\ instance' = NoHandle
    /\ UNCHANGED past

Next == BeginStart \/ Started \/ StartFailed \/ BeginStop \/ Stopped

Spec == Init /\ [][Next]_vars
====
