CONSTANTS
    Scenarios <- MCScenarios
    MaxSaves = 2
    MaxCrashes = 2
    MAX_FUNCTION = 3
    MaxStores = 3
    MaxFailures = 2
    Patterns <- MCPatterns
    Names <- MCNames
SPECIFICATION StorageSpec
INVARIANTS
    StorageTypes
    BootsOneVersion
    ScenarioKept
    
    MatchesItsMeaning
PROPERTY RestartsFindWhole
CHECK_DEADLOCK FALSE
