\* Two riders and one task, small enough to be reassigned at every step.  A
\* settled order with a rounding gross amount and one of two vendors; two
\* payouts compete for the entries, two people may approve.  One vendor with
\* two bank accounts and one item that is edited under review.  Two customers
\* who may refer one another, a rewarded event, a refill of the first and two
\* transactions at a time.  Two variants, two calls and one key that both may use;
\* two addresses and two commands on them; a book with one address, and two
\* requests for a quote under one key.
CONSTANTS
  MaxKey = 4
  MaxPoints = 2
  MaxLife = 2
  Horizon = 2
  Riders = {"r1", "r2"}
  Tasks = {"t1"}
  Zones = {"z"}
  ZonesOf <- InOneZone
  ZoneOf <- OfOneZone
  MaxConcurrent = 1
  MaxTaskRevision = 6
  MaxSequence <- FirstOffline
  Accounts = {"a"}
  MaxEntry = 2
  AccountOf <- OneAccount
  Gross <- OneGross
  Lines <- OrderLines
  SettledVendor <- OneVendor
  CommissionBasisPoints = 1000
  TaxBasisPoints = 1800
  MaxPayout = 2
  Approvers = {"f", "g"}
  References = {"x", "y"}
  MaxAttempts = 2
  FoodKeys = {"k1", "k2"}
  FoodCarts = {"a"}
  FoodOptions = {"o"}
  CartOf <- OneCart
  Method <- PointsAndOnline
  Sellers = {"v"}
  Banks = {"b1", "b2"}
  Items = {"i"}
  OwnerOf <- OneOwner
  Contents = {"x", "y"}
  MaxRevision = 12
  MaxEdits = 4
  Customers = {1, 2}
  Events = {"e1"}
  CustomerOf <- OneEarner
  DeviceOf <- OneDevice
  DailyDeviceCap = 1
  Transactions = {"t", "u"}
  Refills = {"r"}
  PayerOf <- OnePayer
  MaxDay = 1
  Variants = {"x", "y"}
  Quantities = {0, 1}
  CartKeys = {"k"}
  CartCalls = {"c", "d"}
  MaxCartRevision = 1
  AddressIds = {1, 2}
  AddressCommands = {"t", "u"}
  AddressQuotes = {}
  AddressCalls = {}
  MaxAddressRevision = 2
  QuotedIds = {1}
  QuoteCommands = {"t"}
  QuoteKeys = {"q"}
  QuoteCalls = {"c", "d"}
  MaxQuotedRevision = 3
SPECIFICATION MCSpec
INVARIANTS
  RefusedIsSettled
  PaidOutOnce
  LiveWasVouchedFor
  RefundsFit
  GrowthIsSound
  ReadersAreTold
PROPERTIES
  DeliveriesHeld
  WalletIsSound
  CartImplementsMemory
  AddressedAsShown
CHECK_DEADLOCK FALSE
