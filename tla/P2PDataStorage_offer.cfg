SPECIFICATION FairSpec
CONSTANTS
  a = a
  b = b
  offer = offer
  proposal = proposal
  mail = mail
  None = None
  Node = {a, b}
  Payload = {offer}
  OwnerOnline = {offer}
  AddOnce = {}
  Persistable = {}
  Adder <- MCAdder
  Remover <- MCAdder
  Ttl <- MCTtl
  RemovedTtl = 1
  PurgeAge = 5
  MaxSequenceNumberMapSize = 0
  MaxDelay = 1
  MaxSeq = 3
  MaxCrashes = 0
INVARIANTS TypeOK EntryIsLatestOperation NoResurrection OwnerSupersedes
CHECK_DEADLOCK FALSE
PROPERTIES UnrefreshedOfferVanishes
