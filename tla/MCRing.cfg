SPECIFICATION FairSpec
CONSTANTS
    Node = {a, b, c}
    First = a
    None = None
    StaticRange <- MCStaticRange
    AbsMax = 8
    NSuccessorsToKeep = 2
    MaxJoinAttempts = 1
    MaxDatagrams = 2
    Budgets <- MCBudgets
    Light = {a}
    Heavy = {c}
INVARIANTS
    TypeOK
    NoOverlap
    OneRing
PROPERTY
    Heals
CHECK_DEADLOCK FALSE
