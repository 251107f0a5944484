CONSTANTS
    c1 = c1
    c2 = c2
    c3 = c3
    Connections = {c1, c2}
    MaxValue = 1
    NotRead = NotRead
SPECIFICATION FairSpec
PROPERTY TransactionsEnd
