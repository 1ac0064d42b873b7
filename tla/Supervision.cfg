SPECIFICATION SupervisionSpec
CONSTANTS
    Kids <- TwoKids
    Slots <- TwoSlots
    MaxNotify = 2
    MaxStreak = 2
    Odds <- SomeOdds
    Children <- TwoChildren
    MaxTries = 2
    GoneTicks = 2
    Lucks <- SomeLuck
    LastRun = 2
    Waiters <- OneWaiter
    Errands <- AllErrands
    MaxGen = 2
    MaxSeq = 3
    Sceneries <- SomeSceneries
INVARIANTS
    WaitIsHonest
    ToldOnceInTime
PROPERTIES
    
    OneForkPerChild
    SupervisionProceeds
