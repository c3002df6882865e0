\* Three documents and three moments, pages of one, two and all; a walk and a
\* bulk deletion at a time, among at most four calls.
SPECIFICATION Spec
CONSTANTS
    Doc = {d1, d2, d3}
    Walker = {w1}
    Bulk = {b1}
    PageSize = {0, 1, 2}
    None = None
    MaxTime = 2
    MaxCalls = 4
SYMMETRY Symmetry
CHECK_DEADLOCK FALSE
INVARIANTS TypeOK FailureHasRival NothingMissed
