--------------------------- MODULE MCIndexUpdate ---------------------------
(* Instances of IndexUpdate for TLC: the symbol at position 1 is in every  *)
(* version of a file, the second version drops the one at position 2 and   *)
(* adds one at position 3.                                                 *)
EXTENDS IndexUpdate, TLC

MCVersions == {1, 2}
MCEmits == [v \in MCVersions |-> IF v = 1 THEN {1, 2} ELSE {1, 3}]

CommandSymmetry == Permutations(Commands)

=============================================================================
