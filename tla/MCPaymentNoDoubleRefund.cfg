CONSTANTS
  Methods = {"RAZORPAY"}
  Handlers = {h1}
  Recovery = {r1}
  Amount = 2
  MaxSessions = 1
  MaxRefunds = 2
  PageSize = 1
SPECIFICATION Spec
INVARIANT
  NoDoubleRefund
CHECK_DEADLOCK FALSE
