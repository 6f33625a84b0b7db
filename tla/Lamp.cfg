CONSTANTS
    Devices <- AllLights
    MaxCount = 2
    MaxTimed = 2
SPECIFICATION FairSpec
INVARIANTS
    TypeOK
    
PROPERTIES
    FireRestores
    
