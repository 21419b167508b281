\* Every I/O operation of the worker may fail, twice, with restarts, and one
\* appender at a time.  The clock stops at MaxClock, and sealing with it:
\* that is the deadlock left out.
CONSTANTS
  k1 = k1
  k2 = k2
  k3 = k3
  Keys = {k1, k2}
  ShardCount = 1
  ShardOf <- OneShard
  Appenders = {a1}
  BatchSize = 1
  FreshStamps = TRUE
  Faults = {"stat", "recreate", "rename", "create", "read", "flush", "remove"}
  MaxEvents = 3
  MaxClock = 3
  MaxFaults = 2
  MaxCrashes = 2
SPECIFICATION Spec
INVARIANTS LagIsRetained NewestUntilRestart
PROPERTIES NothingLost SealedIsImmutable MonotoneUntilFailure
CHECK_DEADLOCK FALSE
