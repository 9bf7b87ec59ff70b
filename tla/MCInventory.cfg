CONSTANTS
  Variants <- MCVariants
  InitialStock <- TwoAndOne
  MaxKey = 2
  MaxRestockKey = 2
  MaxQuantity = 2
  MaxHold = 2
  ClockLag = 1
  Horizon = 2
  Txs = {t1}
  BatchLimit = 2
SPECIFICATION AtomicSpec
INVARIANTS
  StockConserved
  RestockBounded
  RestockLogComplete
PROPERTIES
  OneWay
  DueIsReleased
CHECK_DEADLOCK FALSE
