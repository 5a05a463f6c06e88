---------------------------- MODULE MCStateMachine ----------------------------
(***************************************************************************)
(* A machine of two parts.  One goes from a on x to b and c, and when both *)
(* of them have completed back to a; or from a on y to d, and from d on    *)
(* its completion to a.  The other goes from e to f and back, on any two   *)
(* of the events of the first part.                                        *)
(***************************************************************************)
EXTENDS StateMachine, TLC

MCNodes == <<"a", "b", "c", "d", "e", "f">>
X == Event("input", "x")
Y == Event("input", "y")
Z == Event("input", "z")

MCSources ==
  [fork |-> <<"a">>, join |-> <<"b", "c">>, side |-> <<"a">>, back |-> <<"d">>,
   follow |-> <<"e">>, return |-> <<"f">>]
MCDestinations ==
  [fork |-> <<"b", "c">>, join |-> <<"a">>, side |-> <<"d">>, back |-> <<"a">>,
   follow |-> <<"f">>, return |-> <<"e">>]
MCOutgoing ==
  [a |-> <<"fork", "side">>, b |-> <<"join">>, c |-> <<"join">>, d |-> <<"back">>,
   e |-> <<"follow">>, f |-> <<"return">>]
MCThreshold == [t \in DOMAIN MCSources |-> 0]
NodeEvents == {Event(kind, n) : kind \in {"start", "stop"}, n \in {"a", "b", "c", "d"}}
Announcements == {Event("firing", "fork"), Event("fired", "join")}
Wired(side, follow, return) ==
  [fork |-> X, join |-> "completion", side |-> side, back |-> "completion",
   follow |-> follow, return |-> return]
Apart == {Wired(Y, f, r) : f, r \in NodeEvents \cup Announcements \cup {X, Y}}
Shared == {Wired(X, Event("start", "b"), Event("stop", "b"))}
MCInputs == {X, Y, Z}
MCFirst == <<"a", "e">>

ASSUME WellMade

(* Between events each part of the machine is in one of its states: no     *)
(* event makes two transitions out of one state be made both.              *)
OneStateEach ==
  AtRest /\ "root" \in active =>
    /\ active \cap {"a", "b", "c", "d"} \in {{"a"}, {"b", "c"}, {"d"}}
    /\ active \cap {"e", "f"} \in {{"e"}, {"f"}}
===============================================================================
