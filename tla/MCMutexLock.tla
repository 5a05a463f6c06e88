---------------------------- MODULE MCMutexLock ----------------------------
(* Instances of MutexLock for TLC; the .cfg file gives the constants. *)
EXTENDS MutexLock
=============================================================================
