CONSTANTS
    Rows = {0, 1}
    NULL = NULL
    QuerySet <- AllQueries
    SelectLists <- AllLists
    Unread = Unread
    Thrown = Thrown
SPECIFICATION Spec
INVARIANT TypeOK
INVARIANT ResultIsRow
INVARIANT OnlyStarsAndZerosThrow
CHECK_DEADLOCK FALSE
