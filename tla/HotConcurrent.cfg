\* Two requests and the flush function for one player: every order of their
\* statements, every store operation failing, one restart.  Where the model
\* stops, only requests that would be refused are left.
CONSTANTS
  Keys = {k1}
  JoinKeys = {k1}
  SeedKeys = {k1}
  Requests = {r1, r2}
  Cooldown = 2
  Faults = {"check", "select", "insert", "readback"}
  MaxPsn = 2
  MaxFlushes = 1
  MaxClock = 3
  MaxRestarts = 1
SPECIFICATION SpecSync
SYMMETRY SymmetricRequests
INVARIANTS TypeOK StaleOnlyAfterCrossing BoardShowsCommitted BoardKeepsJoined AllStoredAreListed
PROPERTIES JoinedNeverChanges CooldownHonoured
CHECK_DEADLOCK FALSE
