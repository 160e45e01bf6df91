\* A goroutine uses the connection another one has just cleared.
CONSTANTS
  s1 = s1
  s2 = s2
  s3 = s3
  Nil = Nil
  Sockets <- TwoSockets
  MaxRetries = 2
SPECIFICATION Spec
INVARIANTS
  NoNilUse
CHECK_DEADLOCK FALSE
