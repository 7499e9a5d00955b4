\* Fulfilment with a weigh-in that failed its integrity checks.
SPECIFICATION Spec
CONSTANTS
    r1 = r1  r2 = r2  door = door  walkin = walkin
    ada = ada  ben = ben  c1 = c1  c2 = c2  p1 = p1  p2 = p2  k1 = k1  k2 = k2
    None = None
    Requests = {r1, r2}
    Events = {door, walkin}
    Walkins = {walkin}
    Requesters = {ada, ben}
    Collectors = {c1, c2}
    Procs = {p1}
    Weights = {1, 2}
    Codes = {k1, k2}
    MaxCodeAttempts = 2
    Booker <- MCBooker
    Capturer <- MCCapturer
    Material <- MCMaterial
    ScaleKg <- MCScaleKg
INVARIANTS
    QuarantinedNeverFulfills
