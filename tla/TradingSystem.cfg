SPECIFICATION SystemSpec
CONSTANTS
  Sources = {"pricing", "tradeBooking", "marketData", "inquiry"}
  MaxLines = 5
  MaxRuns = 2
INVARIANTS
  SystemTypeOK
  FilesInProgramOrder
  OnlyLastLineIsLost
  ExecutionsHavePositions
PROPERTIES
  RunEnds
