SPECIFICATION GuiSpec
CONSTANTS
  Products = {"2Y", "30Y"}
  PriceValues = {1}
  throttle = 300
  StartTimes = {0, 250, 900}
  Delays = {150, 299, 300, 701, 1000}
  MaxTime = 2600
PROPERTIES
  ShownWhenThrottleRunsOut
