\* Encryption, hook reruns, decryption and SteamOS's own installer, each run
\* cut short anywhere.
CONSTANTS
    Stock = {"v1", "v2"}
    Fstabs <- MCFstabs
    Selections <- MCSelections
    Times = {1, 2}
SPECIFICATION Spec
INVARIANTS ReversalTypeOK StockSurvivesUnlessTorn EncryptedBootsOwnBinary FstabReversible RestoreReported VerdictRight
PROPERTY SavedChainloaderKept
