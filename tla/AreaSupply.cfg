SPECIFICATION Spec
CONSTANTS
  Tasks = {1, 2}
  Items = {1, 2}
  Workers = {w1, w2}
  Plans <- MCPlans
  Amounts = {1}
  Removable = {1}
  MaxLines = 2
  MaxStock = 2
  MaxRetired = 1
INVARIANTS
  TypeOK
  StockNeverNegative
  KardexAddsUp
  DrawnExactlyOnce
  DiscountedOnlyWhenFinished
  MoversNeverDeadlock
PROPERTIES
  FinishedSheetFrozen
  LedgerSpec
SYMMETRY MCSymmetry
