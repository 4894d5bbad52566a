\* Other runs of the script may come between the check and the reboot.
CONSTANTS
    OS = {"steamos"}
    Media = {"live"}
    Roles = {"root"}
    Selections <- AllPartitions
    Key = {k1}
    MaxAddr = 1
    Slots = 2
    KeySlots = 3
    MaxVer = 2
    EfiDeleteReliable = TRUE
    None = None
    Users = {deck}
    AutoSync = {deck}
    Exclusive = FALSE
SPECIFICATION GateSpec
INVARIANT WindowsOnlyWhenSealed
