\* Words of three bits: one of run, one of run length, one literal at most.
SPECIFICATION Spec
CONSTANTS
    WordBits = 3
    Runs = 2
    MaxInteger = 7
    Kilo = 2
    MaxIncludes = 2
    Unset = Unset
    ConfigFiles <- MCConfigFiles
    NotRead = NotRead
    NoBody = NoBody
    Paths <- MCPaths
    AttrPath = 1
    IgnorePath = 2
    Rules <- MCRules
    Ignores <- MCIgnores
    Kinds <- MCKinds
    Edits <- MCEdits
    Settles <- MCSettles
    Moves <- MCMoves
    Stagings <- MCStagings
INVARIANTS
    TypeOK
    SplitIsMeant
    RefusesOnlyDamaged
    UndisturbedIdentity
    SecondLookTells
CHECK_DEADLOCK FALSE
