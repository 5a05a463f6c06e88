------------------------------ MODULE MCMemBuf ------------------------------
(* Instances of MemBuf for TLC; the .cfg file gives the number of entries. *)
EXTENDS MemBuf
=============================================================================
