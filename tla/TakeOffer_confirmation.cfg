SPECIFICATION HandlingSpec
CONSTANTS
  MaxFailures = 0
  MaxStops = 1
PROPERTY ConfirmationReachesBuyer
CHECK_DEADLOCK FALSE
