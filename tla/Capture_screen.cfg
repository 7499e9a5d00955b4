\* The screen may be left alone for good: a phone that is signed out and idle has nothing to do.
CHECK_DEADLOCK FALSE
CONSTANTS
    None = None
    s1 = s1
    s2 = s2
    j1 = j1
    c1 = c1
    c2 = c2
    Sacks = {s1, s2}
    Jobs = {j1}
    Collectors = {c1, c2}
    MaxTaps = 2
    MaxRenders = 1
    MaxSignOuts = 1
SPECIFICATION MCSpec
SYMMETRY MCSymmetry
CONSTRAINT MCBound
INVARIANTS
    EvidenceIsOfOneSackAlone
    SackRecordedOnceAlone
    SessionShownAlone
PROPERTY
    EvidenceKeptAlone
