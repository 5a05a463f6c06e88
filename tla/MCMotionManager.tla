--------------------------- MODULE MCMotionManager ---------------------------
(* Instances of MotionManager for TLC; the .cfg files give the constants. *)
EXTENDS MotionManager, TLC

CONSTANTS m1, m2

Hasty == {"hasty"}
Readds == {"readds"}
Nests == {"nests"}
Modest == {}

MotionsAlike == Permutations(Motions)
=============================================================================
