CONSTANTS
    Databases <- Programs
    NoClause = NoClause
    ByteLimit = 1
    MaxElements = 2
    Null = Null
    TheDefault = TheDefault
    NotYet = NotYet
    NaN = NaN
    Finite = Finite
    InternalError = InternalError
SPECIFICATION Spec
INVARIANT TypeOK
INVARIANT TablesTogether
INVARIANT ReadsWhatWasInserted
INVARIANT RefusedForCause
CHECK_DEADLOCK FALSE
