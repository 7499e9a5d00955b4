\* Two calls in flight, of the service whose part it is.
SPECIFICATION MCSpec
\* Every batch may be sold, everything spent, every re-weigh paid.
CHECK_DEADLOCK FALSE
CONSTANTS
    b1 = b1  b2 = b2  e1 = e1  e2 = e2  e3 = e3  h1 = h1  h2 = h2  pet = pet  hdpe = hdpe  p1 = p1  p2 = p2
    ada = ada  w1 = w1  w2 = w2  d1 = d1  d2 = d2  airtime = airtime  cap = cap
    r1 = r1  r2 = r2  r3 = r3  bola = bola  chi = chi  i1 = i1  i2 = i2
    None = None
    Procs = {p1, p2}
    Hubs = {h1, h2}
    Batches = {b1, b2}
    Events = {e1, e2, e3}
    Materials = {pet, hdpe}
    HubOf <- MCHubOf
    MaterialOf <- MCMaterialOf
    CostOf <- MCCostOf
    StockOf <- MCStockOf
    Amounts = {1, 2}
    Requesters = {ada}
    Withdrawals = {w1, w2}
    Redemptions = {d1, d2}
    Items = {airtime, cap}
    MaxEarned = 3
    CollectorOf <- MCCollectorOf
    ReweighHubOf <- MCReweighHubOf
    Rates <- MCRates
    Collectors = {bola, chi}
    PayoutIds = {i1, i2}
    LastDay = 1
    Reweighs = {r1, r2, r3}
SYMMETRY MCSymmetry
INVARIANTS
    SealedTotalsAreTheRoots
    BatchIsPure
    SealedMembershipFrozenAlone
    StockIsAccounted
    DebitedOnce
    WithdrawnWithinEarnedAlone
    PayoutIsOwed
    ReweighPaidOnceAlone
PROPERTY
    BatchesSellEachWeighInOnceAlone
