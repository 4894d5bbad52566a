\* Two OSes that encrypt each other, as in the guide.
CONSTANTS
    OS = {"steamos", "recovery"}
    Media = {}
    Roles = {"root"}
    Selections <- AllPartitions
    Key = {k1, k2}
    MaxAddr = 1
    Slots = 2
    KeySlots = 3
    MaxVer = 2
    EfiDeleteReliable = TRUE
    None = None
SPECIFICATION Spec
SYMMETRY KeySymmetry
INVARIANT DistinctSlots
CHECK_DEADLOCK FALSE
