\* Two workers and a full queue, handlers that outlive their timeout, stops and restarts.
CONSTANTS
  m1 = m1
  m2 = m2
  w1 = w1
  w2 = w2
  h1 = h1
  h2 = h2
  Nobody = Nobody
  Messages <- TwoMessages
  Workers <- TwoWorkers
  Handlers <- TwoHandlers
  Capacity = 1
SPECIFICATION FairSpec
INVARIANTS
  Conservation
  NoSendOnClosedErrCh
  StoppedIsQuiet
PROPERTIES
  ImplementsHandOut
  AcceptedIsFinished
CHECK_DEADLOCK FALSE
