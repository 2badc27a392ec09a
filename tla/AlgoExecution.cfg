SPECIFICATION AlgoSpec
CONSTANTS
  Cusips = {y2, y30, none}
  KnownCusips = {y2, y30}
  Prices = {1, 4}
  Quantities = {10, 20}
  Indeterminate <- MCIndeterminate
  bookDepth = 1
  MaxLines = 6
  Spread = 2
  Ids = {"id"}
INVARIANTS
  AlgoTypeOK
  BookIsFeedUpToLastClosing
  BestHasPriceTimePriority
  ExecutionIsOnStoredBook
PROPERTIES
  TightBookLatches
  ImplementsAlgoOrders
SYMMETRY ProductSymmetry
CONSTRAINT FeedBound
