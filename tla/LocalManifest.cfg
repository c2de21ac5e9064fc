\* One emission under edits of checkout and staged files, and three that race.
SPECIFICATION MCSpec
CONSTANTS
    v1 = v1
    v2 = v2
    v3 = v3
    b1 = b1
    b2 = b2
    b3 = b3
    e1 = e1
    Emitters = {e1, e2, e3}
    Parts = {head, inputs, note}
    Head = head
    Covered = {head, inputs}
    AbiFile = inputs
    ContractFile = inputs
    LockFile = inputs
    Canon <- LineEnds
    CleanStates <- Committed
    Named <- Fingerprinted
    Values = {v1, v2, v3}
    Edits <- Onward
    Supported = {v1, v3}
    Roles = {root, kernel}
    Roots = {root}
    Bytes = {b1, b2, b3}
    Mutations <- Degrading
    Compatible = {b2, b3}
    None = None
CONSTRAINT Bounded
INVARIANTS
    TypeOK
    ManifestDescribesOneCheckout
    InputsAreOfThatCheckout
    RecordedBytesArePublished
PROPERTIES
    LostOnlyToATaker
    PublishesAtomically
CHECK_DEADLOCK FALSE
