\* Network elements ne1 and ne2 against the error text on line 160.
CONSTANTS
  m1 = m1
  m2 = m2
  p1 = p1
  c1 = c1
  MessageIDs <- OneMessage
  Systems <- NamedSystems
  MaxTrackers = 1
  Responses <- OneResponse
  Getters = {}
  RetainFor = 2
  AbandonAfter = 4
  MaxGens = 2
SPECIFICATION Spec
INVARIANTS
  RefusedOnlyWhenDone
CHECK_DEADLOCK FALSE
