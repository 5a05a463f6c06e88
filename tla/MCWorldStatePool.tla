--------------------------- MODULE MCWorldStatePool ---------------------------
(* The pool as it is built, with WORLDSTATEPOOL_NUM_STATES = 3, and Motion     *)
(* completing each frame with feedback, as it does in the simulator.           *)
EXTENDS WorldStatePool
===============================================================================
