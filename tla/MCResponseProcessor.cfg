\* A response, a caller of GetDecision, timers and cleanup; one tracker at a time.
CONSTANTS
  m1 = m1
  m2 = m2
  p1 = p1
  c1 = c1
  MessageIDs <- TwoMessages
  Systems <- WithUnknown
  MaxTrackers = 1
  Responses <- OneResponse
  Getters <- OneGetter
  RetainFor = 2
  AbandonAfter = 4
  MaxGens = 2
SPECIFICATION FairSpec
INVARIANTS
  InterceptIsReported
  OneVerdict
PROPERTIES
  ImplementsDecisionOnce
  CleanupSparesPending
  RetentionShields
  MessagesAnswered
  CapacityReturns
CHECK_DEADLOCK FALSE
