\* The screen and keyboard threads, the shell ending anywhere, one resize.
CONSTANTS
    Sizes <- MCSizes
    Layout <- MCLayout
    MaxN = 1
    MaxResizes = 1
    None = None
SPECIFICATION Spec
CHECK_DEADLOCK FALSE
INVARIANTS LizardTypeOK IndexSafe CursorTrue
PROPERTY EndsUnlessMidSequence
