CONSTANTS
    Fields = {"a", "b", "c"}
    Built <- AllBuilt
    Expressions <- Conditions
    ClauseNames = {"limit"}
    Arguments = {1, 2}
    NoText = NoText
    Unset = Unset
    MaxCalls = 2
SPECIFICATION Spec
INVARIANT TypeOK
PROPERTY BoundTogether
PROPERTY ValuesInTheirPlaces
PROPERTY ClausesAsAsked
