\* Two calls in flight on two accounts, any of which may die.
SPECIFICATION Spec
\* A password saved too late may leave nobody who can call anything.
CHECK_DEADLOCK FALSE
CONSTANTS
    u1 = u1  u2 = u2   p1 = p1  p2 = p2
    None = None
    Users = {u1, u2}
    Procs = {p1, p2}
PROPERTIES
    TimelySavesKeepAnAdmin
