--------------------------- MODULE MCResourceLimits ---------------------------
(* Values of the constants of ResourceLimits for TLC. *)
EXTENDS ResourceLimits

Of(rss, virtual, cpu, cpuTime, fds, children) ==
    [rss |-> rss, virtual |-> virtual, cpu |-> cpu, cpuTime |-> cpuTime, fds |-> fds,
     children |-> children]

Sections(memory, cpu, process) == [memory |-> memory, cpu |-> cpu, process |-> process]

Limits(limited, monitoring, limit, rss, cpu, policy) ==
    [limited |-> limited, monitoring |-> monitoring, limit |-> limit,
     warning |-> [rss |-> rss, cpu |-> cpu], policy |-> policy]

\* No limits; memory and CPU with warnings; everything; an unmonitored process without warnings.
MCConfig ==
    {Limits(FALSE, TRUE, Of(0, 0, 0, 0, 0, 0), 0, 0, Sections("", "", "")),
     Limits(TRUE, TRUE, Of(10, 0, 4, 0, 0, 0), 80, 100, Sections("restart", "log", "")),
     Limits(TRUE, TRUE, Of(0, 4, 0, 5, 2, 0), 0, 50, Sections("", "graceful_shutdown", "restart")),
     Limits(TRUE, FALSE, Of(8, 0, 0, 4, 0, 1), 0, 0, Sections("immediate_kill", "alert", "log"))}

\* Below, at and above the warnings and the limits; CPU time in halves of a second.
MCUsage ==
    {Of(0, 0, 0, 0, 0, 0), Of(9, 5, 4, 5, 2, 1), Of(10, 4, 5, 6, 3, 1), Of(8, 0, 2, 4, 2, 2),
     Of(11, 9, 4, 7, 0, 1), Of(12, 5, 9, 8, 9, 9)}
=============================================================================
