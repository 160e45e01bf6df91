\* A session that breaks, cannot be written to or is idle for a day is dropped; Stop returns.
CONSTANTS
  c1 = c1
  c2 = c2
  c3 = c3
  NoConn = NoConn
  Conns <- OneConn
  MaxConnections = 0
  MissThreshold = 2
  Faults = {"silent", "deaf", "broken"}
  MaxIdle = 2
  MaxDeliveries = 0
SPECIFICATION LiveSpec
PROPERTIES
  UnservedIsDropped
  StopTerminates
CHECK_DEADLOCK FALSE
