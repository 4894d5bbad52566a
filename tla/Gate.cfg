\* boot_windows.py with nothing else running from its check to the reboot.
CONSTANTS
    OS = {"steamos"}
    Media = {"live"}
    Roles = {"root", "home"}
    Selections <- AllPartitions
    Key = {k1}
    MaxAddr = 1
    Slots = 2
    KeySlots = 3
    MaxVer = 2
    EfiDeleteReliable = TRUE
    None = None
    Users = {deck, guest}
    AutoSync = {deck}
    Exclusive = TRUE
SPECIFICATION GateSpec
INVARIANTS WindowsOnlyWhenSealed SyncedBeforeWindows
