CONSTANTS
    Tables = {a, b, c, d}
    MaxTables = 4
SPECIFICATION ChainSpec
INVARIANT TwoJoinsAreFound
INVARIANT FirstKeyIsTaken
CHECK_DEADLOCK FALSE
