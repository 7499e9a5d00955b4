\* A weigh-in is saved while a pass changes the queue.
SPECIFICATION MCSpec
\* Everything may be synced, and the app no longer killed.
CHECK_DEADLOCK FALSE
CONSTANTS
    r1 = r1  r2 = r2  h1 = h1  h2 = h2
    None = None
    Records = {r1, r2}
    Screens = {h1}
    MaxHeld = 2
    MaxKills = 0
INVARIANTS
    NothingLost
