----------------------------- MODULE ProcessStates -----------------------------
(***************************************************************************)
(* The states of a process control, as a caller is told of them.           *)
(* ProcessLifecycle says what happens to the process on each transition.   *)
(***************************************************************************)
VARIABLE state

Init == state = "idle"

Trans(a, b) == state = a /\ state' = b

BeginStart == Trans("idle", "starting")
Started == Trans("starting", "running")
StartFailed == Trans("starting", "failed_start")
BeginStop == Trans("running", "stopping")
Stopped == Trans("stopping", "idle")

Next == BeginStart \/ Started \/ StartFailed \/ BeginStop \/ Stopped

Spec == Init /\ [][Next]_state
=============================================================================
