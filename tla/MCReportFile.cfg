\* Two calls for one destination; their last states have no successor.
SPECIFICATION Spec
CONSTANTS
    Writers = {w1, w2}
    Path = path
    TemporaryNames = {n1, n2}
    Nothing = Nothing
    NoName = NoName
    Modes = {1, 2}
    PrivateMode = 1
    Foreign <- MCForeign
    Size = 2
    MaxChanges = 2
SYMMETRY Symmetric
CHECK_DEADLOCK FALSE
INVARIANTS
    WholeReports
    NothingLeft
PROPERTIES
    DestinationSpec
