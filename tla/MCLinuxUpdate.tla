--------------------------- MODULE MCLinuxUpdate ---------------------------
(***************************************************************************)
(* LinuxUpdate for TLC: two groups (so that a policy can be left and come  *)
(* back), a few policy changes and failures, two checkpoints.              *)
(***************************************************************************)
EXTENDS LinuxUpdate, TLC

Symmetry == Permutations(Groups)
=============================================================================
