\* Two turns that name no revision.
CONSTANTS
    c1 = c1  c2 = c2  q1 = q1
    Clients = {c1, c2}
    Keys = {q1}
    Racing = {}
    NoKey = NoKey
    NoRun = NoRun
    MaxKept = 2
    MaxDecisions = 1
    MaxRepairs = 0
    HistoryLimit = 4
    MaxTurns = 2
SPECIFICATION Spec
PROPERTIES
    ChatKept
