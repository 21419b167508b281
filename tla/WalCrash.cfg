\* Two shards, two concurrent appenders, torn lines, crashes at any step, a
\* second in which several segments may be sealed, and shards that cannot be
\* sealed for a while.  No symmetry: it is not sound for liveness.
CONSTANTS
  k1 = k1
  k2 = k2
  k3 = k3
  Keys = {k1, k2}
  ShardCount = 2
  ShardOf <- TwoShards
  Appenders = {a1, a2}
  BatchSize = 1
  FreshStamps = FALSE
  Faults = {"short_write", "stat", "recreate", "rename"}
  MaxEvents = 3
  MaxClock = 2
  MaxFaults = 2
  MaxCrashes = 2
SPECIFICATION FairSpec
INVARIANTS TypeOK PlayerNeverLost MemoryShowsStore
PROPERTIES AckedIsListed
