\* main() of e2e_boot.py, and run_until_ready as boot-base-contract.py calls it.
SPECIFICATION MainSpec
CONSTANTS
    MaxOut = 4
    ReadCap = 3
    PipeCap = 4
    HeldOpen = TRUE
INVARIANTS
    TypeOK
    ReadyIsEarned
    RefusalIsEarned
    ExitVerdictIsDrained
    NoOrphan
    WitnessTellsTheBoot
PROPERTIES
    EventuallyReturns
    MarkerIsNoticed
