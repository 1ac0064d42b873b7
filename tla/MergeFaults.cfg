SPECIFICATION Spec
CONSTANTS
    n1 = n1
    d1 = d1
    d2 = d2
    NodeIds <- MCNodeIds
    Root = n1
    Children = {}
    Created <- MCCreated
    RootData <- MCRootData
    Drivers = {d1}
    Faults = {"cancel", "failing exit", "orphan git", "lost worker"}
    Committed = 1
    MaxOps = 2
    MaxCommits = 1
    MaxForeign = 1
    MaxCrashes = 1
INVARIANTS
    LandedIsKept

    
