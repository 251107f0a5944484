CONSTANTS
    ParameterCount = 3
    Values = {1, 2}
    Unset = Unset
    MaxSteps = 3
SPECIFICATION Spec
INVARIANT TypeOK
INVARIANT DoneMeansCompleted
INVARIANT FlagsMatchEngine
PROPERTY ReboundBeforeRun
PROPERTY PhaseSpec
