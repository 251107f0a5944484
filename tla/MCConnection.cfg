CONSTANTS
    t1 = t1
    t2 = t2
    o1 = o1
    o2 = o2
    Tables = {t1, t2}
    Objects = {o1, o2}
    OnConflict <- StatementPolicies
    TableOf <- OneEach
    Keys = {k1, k2}
    NoRow = NoRow
    NoJob = NoJob
    NoPromise = NoPromise
    MaxId = 2
    MaxRows = 2
    MaxDepth = 2
    Slots <- InsertsAndUpdates
    Contended = FALSE
    ForeignThrows = FALSE
SPECIFICATION Spec
INVARIANT TypeOK
INVARIANT NothingPending
PROPERTY AllOrNothing
PROPERTY InsertedIdNamesRow
PROPERTY RethrowsCause
