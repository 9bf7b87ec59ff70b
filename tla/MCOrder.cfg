CONSTANTS
  c1 = c1
  c2 = c2
  w1 = w1
  w2 = w2
  Clients = {c1, c2}
  Workers = {w1, w2}
  COD = FALSE
  MaxAmount = 1
  MaxRevision = 15
SPECIFICATION MCSpec
INVARIANT
  ReturnCaseAgrees
PROPERTIES
  ActsOnWhatWasSeen
  DeliveredIsFinal
  MCEventuallyDelivered
CHECK_DEADLOCK FALSE
