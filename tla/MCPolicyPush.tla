----------------------------- MODULE MCPolicyPush -----------------------------
(* Model-checking instance of PolicyPush. *)
EXTENDS PolicyPush, TLC

CONSTANTS g1, g2, c1, m1, k1, k2

\* One machine that opens two streams.
OneMachine == [m \in {m1} |-> c1]
TwoStreams == [k \in {k1, k2} |-> m1]

\* Sound with TwoStreams only: the streams are of the same machine.
StreamSymmetry == Permutations({g1, g2}) \cup Permutations({k1, k2})
=============================================================================
