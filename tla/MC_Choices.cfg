SPECIFICATION ChoicesSpec
CONSTANTS
    Subject = {"configs", "modes", "gamepads", "joysticks"}
    Format <- MCFormat
    Native <- MCNative
    MaxNatives = 3
    UintMax = 255
    ModeInfo <- MCModeInfo
    NoMode = NoMode
    NoModes = NoModes
    Want <- MCWant
    Depth = 24
    Half = 128
    MaxOffered = 2
    MaxChanges = 2
    Player = {1}
    Gamepad <- MCGamepad
    NoDevice = NoDevice
    Line <- MCLine
    Defaults <- MCDefaults
    MaxLines = 1
    NumDevices = 2
    LastSlot = 1
    QueueSize = 3
    MaxPlugs = 1
    MaxMoves = 2
    MaxUpdates = 1
    MaxNested = 1
INVARIANTS
    ChoicesTypeOK
    ChosenIsClosest
    ModesAreChosen
    MappingFits
    
    MappingLives
CHECK_DEADLOCK FALSE
