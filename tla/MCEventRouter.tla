---------------------------- MODULE MCEventRouter ----------------------------
(* Instances of EventRouter for TLC: generator 0 is the router's own, 1 any  *)
(* other; a listener, an always subscribed monitor, and a trapper.           *)
EXTENDS EventRouter

CONSTANTS L, M, T1

OneTrapper == {T1}
AllListeners == {L, M}
AllClients == {L, M, T1}

OnePost == {<<1, 1, "status">>}
ThreePatterns == {<<1>>, <<1, 1>>, <<1, 1, "status">>}

\* The monitor to all of the router's own events, the trapper to generator 1 and
\* twice to the event that says nobody listens to it any more, and the listener to
\* all of its events and to one of them again.
AllSubscribed ==
  [kind \in {"trappers", "listeners"} |->
     IF kind = "trappers"
       THEN [NoMapping EXCEPT !.all[1] = <<T1>>,
                               !.filtered[<<0, 1, "deactivate">>] = <<T1, T1>>]
       ELSE [NoMapping EXCEPT !.all[0] = <<M>>, !.all[1] = <<L>>,
                               !.filtered[<<1, 1, "status">>] = <<L>>]]
=============================================================================
