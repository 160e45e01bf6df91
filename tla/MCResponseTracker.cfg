\* Safety, refinement and liveness of one tracker.
CONSTANTS
  r1 = r1
  r2 = r2
  w1 = w1
  w2 = w2
  ne1 = ne1
  ne2 = ne2
  other = other
  NoDecision = NoDecision
  Responders <- MCResponders
  Waiters <- MCWaiters
  Sources <- MCSources
  Expected <- MCExpected
SPECIFICATION FairSpec
INVARIANTS
  InterceptPriority
  TimeoutOnlyForSilence
  ChannelHoldsFinal
PROPERTIES
  ImplementsDecisionOnce
  ImplementsTrackedMessage
  WaitersReturn
CHECK_DEADLOCK FALSE
