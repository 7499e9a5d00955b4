\* One weigh-in, and an app that is closed twice.
SPECIFICATION FairSpec
CHECK_DEADLOCK FALSE
CONSTANTS
    r1 = r1  r2 = r2
    None = None
    Records = {r1}
    MaxCloses = 2
    MaxLate = 2
INVARIANTS
    NothingLost
    PhoneKnowsServer
PROPERTIES
    EveryWeighInSettles
