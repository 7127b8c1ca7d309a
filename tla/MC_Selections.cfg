SPECIFICATION Spec
CONSTANTS
    Process = {p1, p2}
    Foreign = Foreign
    NoOne = NoOne
    Selection = {"CLIPBOARD"}
    Targets = {"MULTIPLE", "unknown"}
    MaxChunks = 1
INVARIANT
    SelectionsAreTrue
PROPERTY
    ReadEnds
CHECK_DEADLOCK FALSE
