SPECIFICATION FairSpec
CONSTANTS
  private = private
  lowPrio = lowPrio
  context = context
  daemon = daemon
  Manager = {private, lowPrio}
  FlushAtShutdown = {private}
  RegistersAtRead = {lowPrio}
  PersistsDirectly = {lowPrio}
  Caller = {context, daemon}
  MaxVersion = 1
  MaxQueue = 1
  MaxFailures = 1
  MaxRaised = 1
  MaxRestarts = 1
INVARIANTS TypeOK PrivateDataIsFlushed
PROPERTIES UnreadFileIsKept FileNeverGoesBack FlushesOnce FlushCompletes ArmedTimerWrites
CHECK_DEADLOCK FALSE
CONSTRAINT OneMishap
