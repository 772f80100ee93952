CONSTANTS
    Bits = 1
    NumL2 = 2
    NumL3 = 3
    Lengths = {1, 4}
    Shifts = {0, 1, 4}
    BootRegions = 1
    MaxRegions = 3
    None = None
    Any = Any
SPECIFICATION Spec
INVARIANTS MapsAsAsked
CHECK_DEADLOCK FALSE
