CONSTANTS
    t1 = t1
    t2 = t2
    o1 = o1
    o2 = o2
    Tables = {t1, t2}
    Objects = {o1, o2}
    OnConflict <- EndingPolicies
    TableOf <- OneEach
    Keys = {k1}
    NoRow = NoRow
    NoJob = NoJob
    NoPromise = NoPromise
    MaxId = 2
    MaxRows = 2
    MaxDepth = 2
    Slots <- OneForEachTable
    Contended = TRUE
    ForeignThrows = TRUE
SPECIFICATION Spec
PROPERTY FailedCallsLeaveDisk
