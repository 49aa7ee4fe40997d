SPECIFICATION FairSpec
CONSTANTS
  MaxResends = 1
  MaxClicks = 1
  MaxFailures = 1
  MaxExits = 1
  MaxCrashes = 1
INVARIANTS TypeOK PayoutIsAuthorized PublishedHoldsTx
PROPERTIES BuyerNeverRegresses PayoutReachesBuyer
CHECK_DEADLOCK FALSE
