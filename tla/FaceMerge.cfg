\* Three players, a copy of the top two, five breakdowns of one score and a
\* lower one: players enter, move and cross the end of the copy, and every
\* field of the two comparison functions decides some merge.
CONSTANTS
  Ids = {1, 2, 3}
  Counts <- Breakdowns
  TopSize = 2
  MaxBatch = 2
SPECIFICATION Spec
INVARIANTS TypeOK MergeEqualsRebuild RanksAreCompetition IndexFindsAll TopFollowsRanked PagesAgree
