CONSTANTS
  Methods = {"PAYSTACK", "COD", "WALLET"}
  UsesPoints = TRUE
  Shoppers = {"s1"}
  Cancellers = {"c1"}
  Retriers = {"r1", "r2"}
  Faults = {"HOLD_LAPSES", "REFUND_FAILS"}
  MaxCrashes = 1
SPECIFICATION Spec
INVARIANTS
  PlacedIsBacked
  UndoneAsAWhole
CHECK_DEADLOCK FALSE
