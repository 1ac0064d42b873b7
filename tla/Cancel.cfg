SPECIFICATION FairSpec
CONSTANTS
    n1 = n1
    n2 = n2
    NodeIds <- MCNodeIds
    Root = n1
    Children = {}
    Created <- MCCreated
    RootData <- MCRootData
    Reports <- MCReports
    MaxLog = 4
    MaxCrashes = 2
INVARIANTS
    CancelReplays
PROPERTIES
    CancelIsHonest
    CancelConverges
