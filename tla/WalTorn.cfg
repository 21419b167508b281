\* The smallest instance: one short write.
CONSTANTS
  k1 = k1
  k2 = k2
  k3 = k3
  Keys = {k1}
  ShardCount = 1
  ShardOf <- OneShard
  Appenders = {a1}
  BatchSize = 1
  FreshStamps = FALSE
  Faults = {"short_write"}
  MaxEvents = 2
  MaxClock = 1
  MaxFaults = 1
  MaxCrashes = 0
SPECIFICATION FairSpec
PROPERTIES ReadingEnds
