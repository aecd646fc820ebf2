---------------------------- MODULE MCSupervision ----------------------------
(* Instances of Supervision for TLC. *)
EXTENDS Supervision

MCContext ==
    {[trigger |-> t, severity |-> "critical"] :
        t \in {"health_failure", "resource_violation", "manual"}}

\* Only failed checks.
MCHealth == {c \in MCContext : c.trigger = "health_failure"}

\* A second is one tick, and the delay doubles with every attempt.
MCDefault == [maxRetries |-> 1, retryDelay |-> 1, backoffRate |-> 4]

MCTwoRetries == [MCDefault EXCEPT !.maxRetries = 2]

MCOverride == [resource_violation |-> [maxRetries |-> 2, retryDelay |-> 1, backoffRate |-> 4]]

MCSeverity == [warning |-> 1, critical |-> 2, emergency |-> 4]

MCProfile == [batch |-> 6, web |-> 2]
====
