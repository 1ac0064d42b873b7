SPECIFICATION Spec
CONSTANTS
    n1 = n1
    d1 = d1
    d2 = d2
    NodeIds <- MCNodeIds
    Root = n1
    Children = {}
    Created <- MCEither
    RootData <- MCRootData
    Drivers <- MCDrivers
    Faults = {}
    Committed = 1
    MaxOps = 2
    MaxCommits = 2
    MaxForeign = 1
    MaxCrashes = 1
SYMMETRY MCSymmetry
CONSTRAINT RaceBounds
INVARIANTS
    RecordMatchesSource
PROPERTIES
    SourceFastForwards
