---------------------------- MODULE MCLinuxAgent ----------------------------
(***************************************************************************)
(* LinuxAgent for TLC: the processes of each run are chosen in its         *)
(* configuration.                                                          *)
(***************************************************************************)
EXTENDS LinuxAgent, TLC

Symmetry == Permutations(Groups)
=============================================================================
