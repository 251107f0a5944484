CONSTANTS
    TableSet <- EarlyAutoTables
    MaxRecords = 7
    MaxBatch = 5
    MaxParameters = 9
    NULL = NULL
SPECIFICATION Spec
INVARIANT TypeOK
INVARIANT RecordsInTheirColumns
INVARIANT AllOrNone
PROPERTY Terminates
CHECK_DEADLOCK FALSE
