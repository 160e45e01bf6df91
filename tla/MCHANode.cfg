\* Two peers that send heartbeats while the node starts.
CONSTANTS
  Peers = {"node2", "node3"}
SPECIFICATION HASpec
PROPERTIES
  HAStartReturns
CHECK_DEADLOCK FALSE
