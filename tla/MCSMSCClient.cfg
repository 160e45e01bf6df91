\* Breaks, failed binds, reconnections, heartbeats and Stop.
CONSTANTS
  s1 = s1
  s2 = s2
  s3 = s3
  Nil = Nil
  Sockets <- ThreeSockets
  MaxRetries = 2
SPECIFICATION LiveSpec
INVARIANTS
  ConnectedIsOpen
PROPERTIES
  ImplementsLink
  Reconnects
  StopEnds
CHECK_DEADLOCK FALSE
