-------------------------- MODULE MCMessageReceiver --------------------------
(* Instances of MessageReceiver for TLC; the .cfg files give the constants. *)
EXTENDS MessageReceiver, TLC

CONSTANTS r1, r2, s1, s2

OneReceiver == {r1}
TwoReceivers == {r1, r2}
OneSender == {s1}
TwoSenders == {s1, s2}
Dropping == {"DROP_OLDEST", "DROP_NEWEST"}
None == {}

SendersAlike == Permutations(Senders)
=============================================================================
