---------------------------- MODULE MCOtaSystem ----------------------------
(* Two tasks and one reset, or one task with three resets and one failed
   operation, or with one reset and two failed operations, in any order. *)
EXTENDS OtaHistory, TLC
Budget(t, r, f) == [tasks |-> t, resets |-> r, faults |-> f]
Power     == {Budget(2, 1, 0), Budget(1, 3, 1), Budget(1, 1, 2)}
Stranded  == {Budget(1, 2, 0)}
Duplicate == {Budget(1, 0, 1)}
Symmetry  == Permutations(Tasks)
=============================================================================
