CONSTANTS
    w = w
    x = x
    y = y
    z = z
    Bindings = {w, x, y, z}
    RowCount <- Counts
    Unreadable <- ThrowAt
    Iterators = {outer, inner}
    Faults = TRUE
    NoRow = NoRow
    Nobody = Nobody
    Lost = Lost
SPECIFICATION Spec
INVARIANT TypeOK
INVARIANT RowsAreSharedOut
INVARIANT AloneGetsAll
PROPERTY LoopsEnd
