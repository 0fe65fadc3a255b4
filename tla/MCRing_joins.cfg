SPECIFICATION Spec
CONSTANTS
    Node = {a, b, c, d}
    First = a
    None = None
    StaticRange <- MCStaticRangeOfFour
    AbsMax = 16
    NSuccessorsToKeep = 2
    MaxJoinAttempts = 0
    MaxDatagrams = 2
    Budgets <- MCBudgetsOfJoins
    Light = {}
    Heavy = {}
INVARIANT
    ClaimedOnce
CHECK_DEADLOCK FALSE
