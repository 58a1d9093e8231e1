--------------------------- MODULE MCSseListener ---------------------------
(***************************************************************************)
(* SseListener for TLC: two or three subshell identities, a cooldown of    *)
(* two seconds and a clock long enough for two cooldowns and a restart.    *)
(***************************************************************************)
EXTENDS SseListener, TLC

Symmetry == Permutations(Deferred)
=============================================================================
