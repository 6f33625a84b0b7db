CONSTANTS
    Devices <- FireLamps
    MaxCount = 1
    MaxTimed = 1
SPECIFICATION Spec
PROPERTIES
    FireLampStaysOn
