------------------------ MODULE MCClassroomSchedules ------------------------
EXTENDS ClassroomSchedules, TLC

CONSTANTS gA, admin, teacher

MCApproves == [u \in Users |-> IF u = teacher THEN {gA} ELSE {}]
MCLessons == {[kind |-> "weekly", group |-> gA, owner |-> teacher, start |-> 0, end |-> 4]}
MCSymmetry == Permutations(RowIds)
=============================================================================
