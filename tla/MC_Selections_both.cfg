SPECIFICATION Spec
CONSTANTS
    Process = {p1, p2}
    Foreign = Foreign
    NoOne = NoOne
    Selection = {"CLIPBOARD", "PRIMARY"}
    Targets = {"MULTIPLE"}
    MaxChunks = 1
PROPERTY
    ReadEnds
CHECK_DEADLOCK FALSE
