SPECIFICATION ServicesSpec
CONSTANTS
    Subject = {"data", "drop", "text", "init"}
    Window = {w1}
    NoWindow = NoWindow
    Offer = {o1, o2, o3}
    NoOffer = NoOffer
    DataSource = {s1, s2}
    NoSource = NoSource
    Text = {t1}
    NoText = NoText
    PeerText = PeerText
    MaxEvents = 3
    MaxFailures = 1
    Dragger = {d1, d2}
    NoDragger = NoDragger
    Version = {0, 1, 2, 6}
    XDND_VERSION = 5
    Method = {"win32", "cocoa", "x11", "v3", "v1"}
    Composed <- MCComposed
    Kind = {"x11", "wayland", "win32", "cocoa"}
    MaxInits = 2
    MaxMissing = 1
    MaxUses = 2
INVARIANTS
    ClipboardIsCurrent
    DropsAreHonest
    PreeditIsTold
    ReleasedInOrder
SYMMETRY Symmetry
CHECK_DEADLOCK FALSE
