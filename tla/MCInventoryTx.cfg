CONSTANTS
  Variants <- MCVariants
  InitialStock <- OneEach
  MaxKey = 2
  MaxRestockKey = 1
  MaxQuantity = 1
  MaxHold = 1
  ClockLag = 1
  Horizon = 1
  Txs = {t1, t2}
  BatchLimit = 2
SPECIFICATION TxSpec
INVARIANT
  NoDeadlockWithoutSweeper
PROPERTY
  ImplementsInventory
CHECK_DEADLOCK FALSE
