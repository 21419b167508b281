\* The smallest instance: a segment whose flush failed is kept, a newer one
\* is flushed, a restart replays the first.  The clock stops at MaxClock, and
\* sealing with it.
CONSTANTS
  k1 = k1
  k2 = k2
  k3 = k3
  Keys = {k1}
  ShardCount = 1
  ShardOf <- OneShard
  Appenders = {a1}
  BatchSize = 1
  FreshStamps = TRUE
  Faults = {"flush"}
  MaxEvents = 2
  MaxClock = 2
  MaxFaults = 1
  MaxCrashes = 1
SPECIFICATION Spec
PROPERTIES StoreNeverRegresses
CHECK_DEADLOCK FALSE
