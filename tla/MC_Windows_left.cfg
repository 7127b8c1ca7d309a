SPECIFICATION WindowsSpec
CONSTANTS
    Subject = {"lists"}
    Window = {w1, w2}
    Monitor = {m1, m2}
    Output = {o1, o2}
    Mode = {desktop, small}
    DesktopMode = desktop
    NoWindow = NoWindow
    NoMonitor = NoMonitor
    NoMode = NoMode
    System = {"win32", "cocoa"}
    MonitorObject = {a1, a2, a3}
    MaxChanges = 1
    MaxFailures = 1
    WaylandWindow = {s1}
    WaylandOutput = {r1, r2}
    NoOutput = NoOutput
    MaxScale = 2
    Size = {3}
INVARIANT LeftBeforeCallback
CHECK_DEADLOCK FALSE
