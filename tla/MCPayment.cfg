CONSTANTS
  Methods = {"RAZORPAY", "PAYSTACK", "COD", "WALLET"}
  Handlers = {h1, h2}
  Recovery = {r1}
  Amount = 1
  MaxSessions = 2
  MaxRefunds = 1
  PageSize = 1
SPECIFICATION FairSpec
INVARIANT
  CapturedMeansPaid
PROPERTY
  WebhooksHold
CHECK_DEADLOCK FALSE
