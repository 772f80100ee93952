CONSTANTS
    Vm1 = vm1
    Loc = l0
    None = None
    Sri = sri
    NsWd = wd
    Spurious = spurious
    Null = Null
    MaxTests = 3
SPECIFICATION Spec
INVARIANTS TypeOK NoFalsePass ResidueReported HaltsOnlyUnprobed StuckOnlyAfterFailure InitializedTpm
PROPERTIES TestsReturn
CHECK_DEADLOCK FALSE
