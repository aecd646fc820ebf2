--------------------------- MODULE CollectorRegistry ---------------------------
(***************************************************************************)
(* What the log collection service promises about the collectors of its    *)
(* workers, whoever calls it and in whatever order.  A worker gets a new   *)
(* collector when it has none.  A collector is told to stop once, and then *)
(* no reader takes up a line for it; when its stop returns no line is      *)
(* being handed over, and only then may its worker be forgotten.  A stream *)
(* is read for one collector, for ever.                                    *)
(*                                                                         *)
(* Locks, callers, outputs and files are left to LogCollection.            *)
(***************************************************************************)
CONSTANTS Worker, Stream, Collector, None

VARIABLES
    registered,  \* the collector of a worker, or None
    known,       \* every collector so far
    closing,     \* those that were told to stop
    stopped,     \* those whose stop has returned
    on,          \* the collector a stream is read for, or None
    handing      \* streams of which a line is being handed over

vars == <<registered, known, closing, stopped, on, handing>>

Init ==
    /\ registered = [w \in Worker |-> None] /\ known = {} /\ closing = {} /\ stopped = {}
    /\ on = [s \in Stream |-> None] /\ handing = {}

Register(w, k) ==
    /\ registered[w] = None /\ k \notin known
    /\ registered' = [registered EXCEPT ![w] = k]
    /\ known' = known \cup {k}
    /\ UNCHANGED <<closing, stopped, on, handing>>

\* Only the collector of a worker is told to stop.
Close(w) ==
    /\ registered[w] \in known \ closing
    /\ closing' = closing \cup {registered[w]}
    /\ UNCHANGED <<registered, known, stopped, on, handing>>

Quiet(k) == \A s \in handing : on[s] # k

Forget(k) == [w \in Worker |-> IF registered[w] = k THEN None ELSE registered[w]]

\* The stop returns, and the worker is kept or forgotten.
StopReturns(k) ==
    /\ k \in closing \ stopped /\ Quiet(k)
    /\ stopped' = stopped \cup {k}
    /\ registered' \in {registered, Forget(k)}
    /\ UNCHANGED <<known, closing, on, handing>>

\* Who looked the collector up may have it read a stream at any time later.
Attach(s, k) ==
    /\ on[s] = None /\ k \in known
    /\ on' = [on EXCEPT ![s] = k]
    /\ UNCHANGED <<registered, known, closing, stopped, handing>>

TakeUp(s) ==
    /\ s \notin handing /\ on[s] \in known \ closing
    /\ handing' = handing \cup {s}
    /\ UNCHANGED <<registered, known, closing, stopped, on>>

HandedOver(s) ==
    /\ s \in handing
    /\ handing' = handing \ {s}
    /\ UNCHANGED <<registered, known, closing, stopped, on>>

Next ==
    \/ \E w \in Worker, k \in Collector : Register(w, k)
    \/ \E w \in Worker : Close(w)
    \/ \E k \in Collector : StopReturns(k)
    \/ \E s \in Stream, k \in Collector : Attach(s, k)
    \/ \E s \in Stream : TakeUp(s) \/ HandedOver(s)

Spec == Init /\ [][Next]_vars
=============================================================================
