SPECIFICATION WatchdogFairSpec
CONSTANTS
  MaxAttempts = 1
  MaxSpawnFailures = 2
  MaxLaunches = 3
  MaxCrashes = 1
  MaxFaults = 1
INVARIANTS
    WatchdogSound

    
    
CONSTRAINT UntilSettled
