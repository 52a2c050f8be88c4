SPECIFICATION ConversationSpec
CONSTANTS
    Pieces = {"x"}
    CallIds = {"", "c"}
    Indexes <- CallIndexes
    Upstreams = {"orderly"}
    MaxPieces <- PieceBounds
    Clients = {"item id"}
    Prompts <- ShortPrompts
INVARIANTS
    OutputsAnswerCalls
CHECK_DEADLOCK FALSE
