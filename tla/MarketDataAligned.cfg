SPECIFICATION AlignedSpec
CONSTANTS
  Cusips = {"2Y", "30Y"}
  KnownCusips = {"2Y", "30Y"}
  Prices = {1, 2}
  Quantities = {10}
  Indeterminate <- MCIndeterminate
  bookDepth = 1
  MaxLines = 4
INVARIANTS
  BookHoldsOnlyItsProduct
