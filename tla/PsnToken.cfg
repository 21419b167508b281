\* No symmetry: it is not sound for liveness.
CONSTANTS
  None = None
  Requests = {r1, r2}
  HttpTimeout = 1
  Deadline = 2
  Skew = 3
  ExpiresIn = {4}
  DefaultExpiry = 5
  Faults = {"negative", "malformed", "refusal"}
  MaxRevocations = 1
SPECIFICATION FairSpec
INVARIANTS TypeOK UnexpiredWhenPresented InvalidMeansRefused NotFoundMeansAbsent
PROPERTIES FetchedOnlyWhenDue LookupsReturn RevocationHeals
