\* Two whole lines and a half one, which a chunk may cut anywhere.
SPECIFICATION FairSpec
CONSTANTS
    MaxOut = 4
    ChunkCap = 3
INVARIANTS
    TypeOK
    StatusIsEarned
PROPERTIES
    FrontIsNoticed
    ReturnsInTime
CHECK_DEADLOCK FALSE
