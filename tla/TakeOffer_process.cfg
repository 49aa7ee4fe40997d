SPECIFICATION FairSpec
CONSTANTS
  MaxFailures = 1
  MaxStops = 1
INVARIANTS TypeOK NoDepositWithoutDelayedPayout BuyerSeesSignedDeposit PublishedAfterDelivery
PROPERTIES ProcessEnds DepositReachesBuyer
CHECK_DEADLOCK FALSE
