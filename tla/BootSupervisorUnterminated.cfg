\* No descendant holds the pipe: the VMM itself closes its console, and lives.
SPECIFICATION Spec
CONSTANTS
    MaxOut = 2
    ReadCap = 2
    PipeCap = 2
    HeldOpen = FALSE
INVARIANT UnterminatedOnlyAfterExit
