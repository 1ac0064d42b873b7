SPECIFICATION Spec
CONSTANTS
    n1 = n1
    d1 = d1
    d2 = d2
    NodeIds <- MCNodeIds
    Root = n1
    Children = {}
    Created <- MCCreated
    RootData <- MCRootData
    Drivers <- MCDrivers
    Faults = {}
    Committed = 1
    MaxOps = 2
    MaxCommits = 1
    MaxForeign = 0
    MaxCrashes = 0
PROPERTIES
    NoLiveOverwrite
