SPECIFICATION RemovalSpec
CONSTANTS
    c1 = c1
    c2 = c2
    Commit <- TwoCommits
    MaxLate = 2
    MaxFaults = 1
    MaxCrashes = 1
    Evidence <- EveryEvidence
    Runs <- TwoRuns
    KeepMax <- OneAndTwo
    MaxWindow = 5
    Hindrances <- SomeHindrances
    DNodes <- TwoNodes
    Reasons <- TwoReasons
    Hands <- TwoHands
    Chores <- SomeChores
    Odds <- SomeOdds
    Versions <- TwoVersions
    Bundle <- TwoBundles
    Requests <- SomeRequests
    Edited <- SomeEdited
    Trials <- SomeTrials
INVARIANTS
    TeardownPreserves
    
PROPERTIES
    TeardownOrder
    
    DeletesOnlyPinned
    
    RemovalEnds
