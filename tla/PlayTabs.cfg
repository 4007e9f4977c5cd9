\* A steady tab and an unsteady one play the same game.
CONSTANTS
    t1 = t1  t2 = t2  x = x
    Tabs = {t1, t2}
    Unsteady = {t2}
    Inputs = {x}
    Nobody = Nobody
    None = None
    Conflict = Conflict
    Rejected = Rejected
    MaxProcessed = 1
    MaxWindow = 1
    MaxStored = 1
    MaxBatch = 2
    MaxClicks = 2
SPECIFICATION Spec
INVARIANTS
    TypeOK
    AppliedOnce
    SteadyTimelines
    ScreenIsExplained
PROPERTIES
    RetryAnswered
    ScreenMovesForward
CONSTRAINT
    OneSync
