\* Two OSes that encrypt each other, as in the guide, and SteamOS updates.
CONSTANTS
    OS = {"steamos", "recovery"}
    SteamOS = "steamos"
    Recovery = "recovery"
    Media = {}
    Roles = {"root", "var"}
    Selections <- TheirPartitions
    Key = {k1, k2, k3}
    MaxAddr = 1
    Slots = 2
    KeySlots = 3
    MaxVer = 2
    EfiDeleteReliable = TRUE
    None = None
SPECIFICATION WizardSpec
INVARIANTS Recoverable WindowsOnlyWhenSealed NewestKeyFits SealedVerdictTrue
SYMMETRY KeySymmetry
CHECK_DEADLOCK FALSE
