\* One OS with three partitions, encrypted and decrypted from a live medium;
\* the user always enters all its partitions.
CONSTANTS
    OS = {"steamos"}
    Media = {"live"}
    Roles = {"root", "home", "var"}
    Selections <- AllPartitions
    Key = {k1, k2}
    MaxAddr = 1
    Slots = 2
    KeySlots = 4
    MaxVer = 3
    EfiDeleteReliable = TRUE
    None = None
SPECIFICATION Spec
SYMMETRY KeySymmetry
INVARIANTS TypeOK KeysBackedUp Recoverable WindowsOnlyWhenSealed MenuSealsBootedOs AutorunLeavesBootable
PROPERTY ImplementsLifeCycle
