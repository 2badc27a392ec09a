SPECIFICATION TimedSpec
CONSTANTS
  Products = {"2Y"}
  NoProduct = "none"
  Ids <- MCIds
  FileIds = {f}
  FileBooks = {"TRSY1"}
  Quantities = {1}
  pv01Values = {"2Y"}
  None = None
  MaxLines = 5
  MaxDeaths = 1
  Epoch = 1700000000
  StartTimes = {999}
  Delays = {0, 1, 1000}
INVARIANTS
  BooksAlternate
  IdsTellReadings
  TradeKeptUntilReadingRepeats
