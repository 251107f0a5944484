CONSTANTS
    TableSet <- LateAutoTables
    MaxRecords = 3
    MaxBatch = 2
    MaxParameters = 9
    NULL = NULL
SPECIFICATION Spec
INVARIANT RecordsInTheirColumns
CHECK_DEADLOCK FALSE
