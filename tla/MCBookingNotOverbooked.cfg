CONSTANTS
  Customers = {"a", "b"}
  Slots = {"s1", "s2"}
  Capacity = 1
  Holds = {"h1", "h2", "h3"}
  Owner <- MCOwner
  Method <- MCMethod
  MaxReschedules = 1
SPECIFICATION MCSpec
INVARIANT
  NotOverbooked
CHECK_DEADLOCK FALSE
