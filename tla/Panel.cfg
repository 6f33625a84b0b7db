CONSTANTS
    DEBOUNCE_TICKS = 2
    SHORT_TICKS = 3
    LONG_TICKS = 5
    TickBound = 8
    RepeatBound = 4
    MaxSwitches = 2
    Registered <- MCRegistered
    Channels = {0, 1, 2}
    MaxEntries = 3
    Keys = {0}
    OutTasks = {"timer", "app"}
    Pins = {"p1", "p2"}
    Reversed = {"p2"}
    Lights = {"l1"}
    Colors = {1}
    MAX_DUTY = 3
    MaxCommands = 2
    ClockTasks = {t1, t2}
    Years = {199, 200}
    MaxChip = 1
    MaxCalls = 2
SPECIFICATION PanelSpec
INVARIANTS
    PanelTypes
    InputsAreTrue
    
PROPERTY PressesArePaired
CHECK_DEADLOCK FALSE
