\* Two keys, so that a batch, a single upsert and a full load differ, and
\* three writes: a reader stalled before RLock sees its face become the dark
\* one again.
CONSTANTS
  Keys = {k1, k2}
  Vals = {v1, v2}
  None = None
  Writers = {w1, w2}
  Readers = {r1, r2}
  MaxWrites = 3
SYMMETRY SymmetricData
SPECIFICATION Spec
INVARIANTS TypeOK FacesConverge CoherentReads VisibleAfterSwitch HeldUpOnlyIfOvertaken
PROPERTIES AtomicWrites
