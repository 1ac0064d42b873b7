SPECIFICATION CreationSpec
CONSTANTS
    Creators <- TwoCreators
    Ids <- FiveIds
    MaxRounds = 2
    Odds <- Scenarios
    Creations <- TwoBirths
    Old = 0
    Mishaps <- Scenes
    Askers <- ThreeAskers
    Requests <- TwoRequests
    Risks <- SomeRisks

    
PROPERTIES
    RespectsOthers
    UpgradesAlone
    CallerCreatesOnce
    CreationEnds
