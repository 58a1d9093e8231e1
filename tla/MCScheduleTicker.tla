-------------------------- MODULE MCScheduleTicker --------------------------
EXTENDS ScheduleTicker
CONSTANTS p1, p2

\* The processes do the same: the one that meets the fault may be called p1.
MCFaults == [p \in Procs |-> IF p = p1 THEN 1 ELSE 0]
=============================================================================
