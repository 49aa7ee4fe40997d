SPECIFICATION FairSpec
CONSTANTS
  alice = alice
  bob = bob
  Shared = Shared
  Context = {alice}
PROPERTY ShutdownEnds
CHECK_DEADLOCK FALSE
