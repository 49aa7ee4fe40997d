SPECIFICATION FairSpec
CONSTANTS
  MaxResends = 2
  MaxClicks = 1
  MaxFailures = 1
  MaxExits = 0
  MaxCrashes = 0
PROPERTIES PaymentStartedReachesSeller
CHECK_DEADLOCK FALSE
