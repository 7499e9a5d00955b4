\* The smaller services, one at a time.
SPECIFICATION MCSpec
\* Nobody has to call; a bounded part runs out of steps.
CHECK_DEADLOCK FALSE
CONSTANTS
    m1 = m1  m2 = m2  b1 = b1  b2 = b2  p1 = p1  p2 = p2  bola = bola  chi = chi  h1 = h1  h2 = h2
    e1 = e1  e2 = e2  f1 = f1  f2 = f2  u1 = u1  u2 = u2  k1 = k1  k2 = k2
    x1 = x1  x2 = x2  x3 = x3  x4 = x4  x5 = x5
    None = None
    Addresses = {bola, chi}
    Ids = {b1}
    Roots = {x1}
    Weights = {0, 1}
    MaxLedger = 1
    MaxEvents = 6
    Codes = {m1, m2}
    Seeded = {m1}
    Backends = {b1, b2}
    Managed = {b1}
    Procs = {p1, p2}
    MaxFetches = 1
    Collectors = {bola, chi}
    Hubs = {h1, h2}
    MaxKeys = 3
    MaxHandlers = 2
    MaxSignOuts = 1
    WeighIns = {e1, e2}
    Photos = {f1, f2}
    PhotoHash <- MCPhotoHash
    Uploads = {u1, u2}
    Keys = {k1, k2}
    Limit = 2
    Window = 3
    MaxTime = 5
    MaxBurst = 2
    Payloads = {x1, x2, x3, x4, x5}
    MaxLeaves = 5
    MaxKg = 2
    LastDay = 3
SYMMETRY MCSymmetry
CONSTRAINT MCBound
INVARIANTS
    EachBatchOnce
    StreamIsTheRegistry
    EveryCodeIsKnown
    PairingIsEnrolledAlone
    EvidenceStoredAlone
    FewerThanTwiceTheLimit
    EvidenceIsBound
    JoinedGapIsExplained
    ControlsAreLive
