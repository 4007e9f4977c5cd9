SPECIFICATION Spec
CONSTANTS
    a = a
    b = b
    c = c
    good = good
    broken = broken
    Threads = {t1, t2}
    Ids <- TheIds
    NoId = NoId
    Rules <- TheRules
    NoIR = NoIR
    Compiling = {good}
    Passing = {good}
    NoRevision = NoRevision
    MaxProcessed = 2
    MaxVerifies = 1
    MaxRevision = 4
SYMMETRY Interchangeable
INVARIANTS TypeOK AnswersAreOwn OneEffect RefusedUpdateWasForgotten
