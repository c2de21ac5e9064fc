SPECIFICATION FairSpec
CONSTANTS
    Archives <- MCArchives
    Cli = "cli"
    Runtime = "runtime"
    Table = "table"
    Proof = "proof"
    MaxBuild = 3
    OfPinned <- MCOfPinned
    Uploads <- MCUploads
    MaxAttempt = 2
    MaxTime = 1
    MaxChanges = 2
INVARIANTS
    TypeOK
    InstalledWasBooted
    InstalledIsOneBuild
PROPERTY InOrderIsAdmitted
CHECK_DEADLOCK FALSE
