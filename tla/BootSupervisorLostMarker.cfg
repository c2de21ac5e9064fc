\* No descendant holds the pipe: the VMM alone writes, then exits.
SPECIFICATION Spec
CONSTANTS
    MaxOut = 2
    ReadCap = 2
    PipeCap = 2
    HeldOpen = FALSE
INVARIANT ExitMeansNoMarker
