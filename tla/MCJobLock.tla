------------------------------ MODULE MCJobLock ------------------------------
(* JobLock with two processes, the first of which may have two runs. *)
EXTENDS JobLock

CONSTANTS p1, p2, r1, r2, r3

MCProcesses == {p1, p2}
MCRuns == {r1, r2, r3}
MCOwner == [r \in MCRuns |-> IF r = r3 THEN p2 ELSE p1]
=============================================================================
