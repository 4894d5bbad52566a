\* The package search ends and stays so.
SPECIFICATION ToolsSpec
CONSTANTS
    Capacity = 2
    DevBytes = {16}
    MiscBytes = {2, 129}
    XorByte <- MCXorByte
    Programs = {a, b, c}
    Unchecked = {c}
    CheckCount = 2
    KeepState = FALSE
    MaxCopies = 3
    Pkg = 3
    Columns = 1
    Ids = {i1, i2}
    Code = 1
    Length = 2
    Firmwares <- MCFirmwares
    KeepWindowsEntry = FALSE
INVARIANTS
    FlagsTakeEffect
    OriginalKept
    OneOfEach
    DependenciesFound
    PassedIsGenuine
    SwitchIsOneShot
    NobodyUsesMovingGpu
PROPERTY
    RestoreEnds
CHECK_DEADLOCK FALSE
