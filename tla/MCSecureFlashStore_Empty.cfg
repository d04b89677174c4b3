SPECIFICATION Spec
CONSTANTS
    f1 = f1
    f2 = f2
    Fids <- TwoFids
    Sizes <- SizesFromZero
    Capacities <- SomeCapacities
    Lengths <- SomeLengths
    FlagSets <- SomeFlags
    Devices <- OneDevice
    DataUnits = 3
    MAX_NUM_FILES = 2
    SwapMod = 3
    RestartAfterError = TRUE
    Absent = Absent
    Erased = Erased
    NoFile = NoFile
    NoFid = NoFid
SYMMETRY Symmetry
INVARIANT ObjectsKept
