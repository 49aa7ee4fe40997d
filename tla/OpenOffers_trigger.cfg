SPECIFICATION Spec
CONSTANTS
  Taker = {t1}
  MaxPayload = 1
  MaxPrice = 2
  MaxEdits = 1
  MaxFailures = 0
  MaxStops = 0
PROPERTY PriceRespectsAvailable
CHECK_DEADLOCK FALSE
