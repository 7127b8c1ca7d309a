SPECIFICATION DevicesSpec
CONSTANTS
    Subject = {"input", "controllers", "seat"}
    Key = {k1, k2}
    Button = {b1, b2}
    Driver = {"win32", "cocoa"}
    Pad = {p1}
    Stick = {s1}
    NoDevice = NoDevice
    NumSlots = 1
    NumIndices = 1
    MaxPlugs = 3
    MaxMoves = 1
    MaxNested = 1
    MaxFailures = 1
    Window = {w1, w2}
    NoWindow = NoWindow
    CursorWindow = {w1}
    SeatKey = {k1}
    NoKey = NoKey
    Cursor = {c1}
    NoCursor = NoCursor
    Devices = {{"keyboard"}, {"pointer"}}
    MaxKeyEvents = 2
    MaxPointerEvents = 1
INVARIANTS
    TypeOK
    KeyPolledAsOwed
    ButtonPressKept
    ControllersInSync
    SeatAgrees
CHECK_DEADLOCK FALSE
