\* The smallest instance: two requests for one player, an account that changes.
CONSTANTS
  Keys = {k1}
  JoinKeys = {k1}
  SeedKeys = {}
  Requests = {r1, r2}
  Cooldown = 1
  Faults = {}
  MaxPsn = 2
  MaxFlushes = 0
  MaxClock = 1
  MaxRestarts = 0
SPECIFICATION SpecSync
INVARIANTS BoardMatchesStore
CHECK_DEADLOCK FALSE
