SPECIFICATION StreamingSpec
CONSTANTS
  Products = {"2Y", "30Y"}
  WirePrices <- MCWirePrices
  Unreadable = Unreadable
  None = None
  PricesFiles <- MCPricesFiles
  MaxLines = 3
  MaxRuns = 3
INVARIANTS
  StreamingTypeOK
  StreamFileFollowsFeed
  ServicesAgree
  MidShownInMarket
  EachRunStreamsPricesAgain
PROPERTIES
  PriceIsDistributed
  StreamingImplementsWiring
