CONSTANTS
  Methods = {"PAYSTACK"}
  UsesPoints = FALSE
  Shoppers = {"s1"}
  Cancellers = {}
  Retriers = {}
  Faults = {}
  MaxCrashes = 1
SPECIFICATION FairSpec
PROPERTIES
  PaidIsPlaced
CHECK_DEADLOCK FALSE
