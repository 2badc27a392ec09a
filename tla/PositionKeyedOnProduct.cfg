SPECIFICATION BookingSpec
CONSTANTS
  Products = {"2Y"}
  NoProduct = "none"
  Ids = {"a", "b"}
  FileIds = {"a", "b"}
  FileBooks = {"TRSY1", "TRSY2"}
  Quantities = {1, 2}
  pv01Values = {"2Y"}
  None = None
  MaxLines = 2
  MaxDeaths = 0
INVARIANTS
  PositionKeyedOnProduct
