\* The rule "first received" of the source's comments: two responders, no waiter.
CONSTANTS
  r1 = r1
  r2 = r2
  w1 = w1
  w2 = w2
  ne1 = ne1
  ne2 = ne2
  other = other
  NoDecision = NoDecision
  Responders <- MCResponders
  Waiters <- MCWaiters
  Sources <- MCSources
  Expected <- MCExpected
SPECIFICATION Spec
INVARIANTS
  FirstReceivedWins
CHECK_DEADLOCK FALSE
