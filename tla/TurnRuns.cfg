\* Two turns at a time and three in all: retried, overtaken, cut off and pruned.
CONSTANTS
    c1 = c1  c2 = c2  q1 = q1
    Clients = {c1, c2}
    Keys = {q1}
    Racing = {}
    NoKey = NoKey
    NoRun = NoRun
    MaxKept = 2
    MaxDecisions = 1
    MaxRepairs = 0
    HistoryLimit = 2
    MaxTurns = 3
SPECIFICATION Spec
SYMMETRY ClientSymmetry
INVARIANTS
    TypeOK
    RunsMatchThreads
    NewestRunsKept
    AnsweredNotRerun
PROPERTIES
    ClosedRunsStay
    ClaimDoesNotRebase
