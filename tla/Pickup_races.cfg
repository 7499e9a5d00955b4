\* Two calls in flight, any of which may die half-way.
SPECIFICATION Spec
CONSTANTS
    r1 = r1  r2 = r2  door = door  walkin = walkin
    ada = ada  ben = ben  c1 = c1  c2 = c2  p1 = p1  p2 = p2  k1 = k1  k2 = k2
    None = None
    Requests = {r1}
    Events = {door, walkin}
    Walkins = {walkin}
    Requesters = {ada, ben}
    Collectors = {c1}
    Procs = {p1, p2}
    Weights = {1, 2}
    Codes = {k1}
    MaxCodeAttempts = 1
    Booker <- MCBooker
    Capturer <- MCCapturer
    Material <- MCMaterial
    ScaleKg <- MCScaleKg
SYMMETRY ProcSymmetry
PROPERTIES
    TicketsImplementCreditOnce
INVARIANTS
    TicketPaidOnce
    ReconciledTicketIsExact
    QuarantinedTicketUnpaid
