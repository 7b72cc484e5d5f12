----------------------------- MODULE MCPidLease -----------------------------
(* Three processes: a running engine, one that starts and one that follows *)
(* on another host, where it has the pid of the second.                    *)
EXTENDS PidLease, FiniteSets

CONSTANTS p1, p2, p3

MCProc   == {p1, p2, p3}
MCRemote == {p3}
MCPidOf  == [p \in MCProc |-> IF p = p1 THEN 1 ELSE 2]

\* One gap at a time.
OneGap == Cardinality(amiss) <= 1
=============================================================================
