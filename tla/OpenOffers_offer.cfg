SPECIFICATION FairSpec
CONSTANTS
  Taker = {t1, t2}
  MaxPayload = 2
  MaxPrice = 2
  MaxEdits = 1
  MaxFailures = 1
  MaxStops = 1
INVARIANTS TypeOK OneCommittedTrade CommittedTradeListens NoGhostOffer
PROPERTIES ReservationEnds AvailableIsPublished
CHECK_DEADLOCK FALSE
