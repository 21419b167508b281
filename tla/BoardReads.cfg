\* The worker and a request that may join or only read; two players on pages
\* of one row.  Three writes: the pointer is switched twice while a query is
\* stalled before its read lock, and a third write follows the second query.
\* No symmetry: it is not sound for liveness.
CONSTANTS
  Keys = {k1, k2}
  Vals = {v1}
  None = None
  Writers = {w1, q1}
  Readers = {q1}
  MaxWrites = 3
  PageSize = 1
  MaxPage = 2
SPECIFICATION FairSpecReads
INVARIANTS ReadsTypeOK JoinFindsItself AnswerFits
PROPERTIES RequestsAnswered
