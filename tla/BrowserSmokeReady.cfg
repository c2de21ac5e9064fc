\* Two lines that arrive in one chunk.
SPECIFICATION FairSpec
CONSTANTS
    MaxOut = 4
    ChunkCap = 4
PROPERTY ReadyIsNoticed
CHECK_DEADLOCK FALSE
