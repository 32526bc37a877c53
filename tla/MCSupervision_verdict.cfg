SPECIFICATION GoalSpec
CONSTANTS
    a = a
    b = b
    Keys = {a, b}
    Drafts <- MCDrafts
    Workers = {w1, w2}
    NoWorker = NoWorker
    MaxParallel = 1
    MaxRetries = 1
    MaxReplans = 1
    MaxCalls = 2
    PlanCap = 1
    EventCap = 0
    HumanCap = 2
SYMMETRY Perms
CHECK_DEADLOCK FALSE
PROPERTY AcceptedAsJudged
