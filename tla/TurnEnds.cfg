\* Two turns with room for repairs, and a model that may never answer.
CONSTANTS
    c1 = c1  c2 = c2  q1 = q1
    Clients = {c1, c2}
    Keys = {q1}
    Racing = {}
    NoKey = NoKey
    NoRun = NoRun
    MaxKept = 2
    MaxDecisions = 2
    MaxRepairs = 1
    HistoryLimit = 1
    MaxTurns = 2
SPECIFICATION FairSpec
ACTION_CONSTRAINT FirstFreeThread
PROPERTIES
    RunsEnd
