SPECIFICATION FairSpec
CONSTANTS
    Pieces = {"x"}
    CallIds = {"", "c", "d"}
    Indexes <- CallIndexes
    Upstreams = {"interleaved"}
    MaxPieces <- PieceBounds
PROPERTIES
    StreamCompletes
CHECK_DEADLOCK FALSE
