SPECIFICATION Spec
CONSTANTS
    Conns = {c1, c2, c3}
    Sources = {s1}
    ListedTarget = {localhost}
    OpenTarget = {host}
    SrcRate = 1
    SrcBurst = 1
    Limits <- MCLimitValues
    Chunks = {2}
    Carriers = {c1}
    MaxBytes = 4
    MaxNow = 2
INVARIANTS SourceBudget Throttled
PROPERTIES RefusedOnlyWhenSpent
CHECK_DEADLOCK FALSE
