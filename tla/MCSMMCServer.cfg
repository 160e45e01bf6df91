\* Three connections and room for two: the limit, and Stop while a message is delivered.
CONSTANTS
  c1 = c1
  c2 = c2
  c3 = c3
  NoConn = NoConn
  Conns <- ThreeConns
  MaxConnections = 2
  MissThreshold = 1
  Faults = {}
  MaxIdle = 0
  MaxDeliveries = 1
SYMMETRY Symmetry
SPECIFICATION Spec
ACTION_CONSTRAINT Contends
INVARIANTS
  ConnectionLimit
  StopLeavesNothing
  SteadyIsWritten
PROPERTIES
  ImplementsMembership
CHECK_DEADLOCK FALSE
