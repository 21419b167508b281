\* The smallest instance: while Get is stalled before its lock one player is
\* flushed, and the second is in the face that is not switched in yet.
CONSTANTS
  Keys = {k1, k2}
  Vals = {v1}
  None = None
  Writers = {w1}
  Readers = {q1}
  MaxWrites = 2
  PageSize = 1
  MaxPage = 1
SPECIFICATION SpecReads
INVARIANTS SearchFindsPage
