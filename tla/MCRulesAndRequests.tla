------------------------- MODULE MCRulesAndRequests -------------------------
EXTENDS RulesAndRequests, TLC

CONSTANTS g1, g2, d1, d2, admin, teacher

MCApproves == [u \in {admin, teacher} |-> IF u = teacher THEN {g1} ELSE {}]
MCSymmetry == Permutations({d1, d2})
=============================================================================
