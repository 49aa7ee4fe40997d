SPECIFICATION Spec
CONSTANTS
  a = a
  b = b
  offer = offer
  proposal = proposal
  mail = mail
  None = None
  Node = {a, b}
  Payload = {proposal, mail}
  OwnerOnline = {}
  AddOnce = {mail}
  Persistable = {proposal}
  Adder <- MCAdder
  Remover <- MCRemover
  Ttl <- MCTtl
  RemovedTtl = 1
  PurgeAge = 1
  MaxSequenceNumberMapSize = 0
  MaxDelay = 0
  MaxSeq = 2
  MaxCrashes = 1
INVARIANTS StoreMirrorsMap
PROPERTIES RemovedMailOnlyReloaded
CONSTRAINT OneAtATime
CHECK_DEADLOCK FALSE
