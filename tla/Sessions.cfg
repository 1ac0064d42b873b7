SPECIFICATION SessionsSpec
CONSTANTS
    Clients <- TwoClients
    Launches <- ThreeLaunches
    Verbs <- AllVerbs
    Fates <- Lots
    Operators <- TwoOperators
    Keys <- OneKey
    Ops <- AllOps
    MaxTip = 1
    MaxGen = 2
    Trials <- SomeTrials
PROPERTIES
    
    SettlesSafely
    
