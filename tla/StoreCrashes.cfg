SPECIFICATION Spec
CONSTANTS
    n1 = n1
    n2 = n2
    c1 = c1
    NodeIds <- MCNodeIds
    Root = n1
    Children <- MCChildren
    RunCreated <- MCRunCreated
    RootCreated <- MCRootCreated
    Requests <- CrashRequests
    MaxSeq = 6
    MaxFaults = 1
CONSTRAINT InCrashGroup
INVARIANTS
    TypeOK
    LogIntact
    
    LogStatusAgrees
    SettledIsQuiet
PROPERTIES
    TerminalIsSticky
    MovesAreJustified
