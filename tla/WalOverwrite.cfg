\* The smallest instance: a flush fails, the next seal has the same second.
CONSTANTS
  k1 = k1
  k2 = k2
  k3 = k3
  Keys = {k1}
  ShardCount = 1
  ShardOf <- OneShard
  Appenders = {a1}
  BatchSize = 1
  FreshStamps = FALSE
  Faults = {"flush"}
  MaxEvents = 2
  MaxClock = 1
  MaxFaults = 1
  MaxCrashes = 0
SPECIFICATION Spec
PROPERTIES SealedIsImmutable
