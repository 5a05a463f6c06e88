SPECIFICATION Spec
CONSTANTS
  Nodes <- MCNodes
  Outgoing <- MCOutgoing
  Sources <- MCSources
  Destinations <- MCDestinations
  Wirings <- Apart
  Threshold <- MCThreshold
  Inputs <- MCInputs
  StopOn <- Z
  First <- MCFirst
INVARIANTS
  ActivityAgrees
  OneStateEach
PROPERTY
  ComesToRest
