CONSTANTS
    c1 = c1
    c2 = c2
    c3 = c3
    Connections = {c1, c2, c3}
    MaxValue = 3
    NotRead = NotRead
SYMMETRY Interchangeable
SPECIFICATION Spec
INVARIANT TypeOK
INVARIANT ReadsStayTrue
INVARIANT NoLostUpdates
