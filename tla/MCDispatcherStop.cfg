\* Stop against a worker that has just taken a message.
CONSTANTS
  m1 = m1
  m2 = m2
  w1 = w1
  w2 = w2
  h1 = h1
  h2 = h2
  Nobody = Nobody
  Messages <- OneMessage
  Workers <- OneWorker
  Handlers <- OneHandler
  Capacity = 1
SPECIFICATION FairSpec
PROPERTIES
  StopTerminates
CHECK_DEADLOCK FALSE
