SPECIFICATION FairSpec
CONSTANTS
  alice = alice
  bob = bob
  Shared = Shared
  Context = {alice, bob}
INVARIANTS TypeOK ExitsAfterFlush
PROPERTY EndsWithinLimit
CHECK_DEADLOCK FALSE
