-------------------------- MODULE MCEventGenerator --------------------------
(* A chain of two generators: G1 turns events of generator 0 into events of *)
(* generator 2, and G2 those into events of generator 3.  The router's own  *)
(* events are generator 1, so that one source comes before it and one after.*)
EXTENDS EventGenerator

CONSTANTS L, M, G1, G2

Chain == {G1, G2}
ChainGenID == G1 :> 2 @@ G2 :> 3
ChainSourceID == G1 :> 0 @@ G2 :> 0
ChainSource == G1 :> <<0>> @@ G2 :> <<2, 0>>

NoTrappers == {}
AllListeners == {L, M, G1, G2}
NoPosts == {}
EndPatterns == {<<2>>, <<3, 0>>}

Unsubscribed ==
  [kind \in {"trappers", "listeners"} |->
     IF kind = "trappers" THEN NoMapping ELSE [NoMapping EXCEPT !.all[1] = <<M>>]]
=============================================================================
