\* The user may leave partitions out of a run.
CONSTANTS
    OS = {"steamos"}
    Media = {"live"}
    Roles = {"root", "var"}
    Selections <- AnyPartitions
    Key = {k1, k2}
    MaxAddr = 1
    Slots = 2
    KeySlots = 3
    MaxVer = 2
    EfiDeleteReliable = TRUE
    None = None
SPECIFICATION Spec
SYMMETRY KeySymmetry
INVARIANT Recoverable
