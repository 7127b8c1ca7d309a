SPECIFICATION DesktopSpec
CONSTANTS
    Subject = {"cursor", "win32", "contexts"}
    Window = {w1, w2}
    NoWindow = NoWindow
    Cursor = {c1}
    NoCursor = NoCursor
    Position = {Centre, Edge}
    Centre = Centre
    Hidden = Hidden
    MaxQueue = 2
    Monitor = {m1, m2}
    NoMonitor = NoMonitor
    AutoIconify = {w1}
    RawWindow = {w1}
    Late = FALSE
    Nested = {"monitor", "show"}
    MaxInbox = 1
    Source = {"glx", "egl", "wgl", "nsgl"}
    User = {u1}
INVARIANTS
    CursorFollowsMode
    CursorFollowsFocus
    MonitorsHeld
    ContextsFit
CHECK_DEADLOCK FALSE
