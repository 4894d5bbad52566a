\* Encryption, hook reruns, decryption and SteamOS's own installer, each run
\* cut short anywhere.
CONSTANTS
    Stock = {"v1"}
    Fstabs <- MCFstabs
    Selections <- MCSelections
    Times = {1, 2}
SPECIFICATION Spec
INVARIANT StockSurvives
