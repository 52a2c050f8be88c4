SPECIFICATION ConversationSpec
CONSTANTS
    Pieces = {"x"}
    CallIds = {"", "c", "d"}
    Indexes <- CallIndexes
    Upstreams = {"orderly", "interleaved", "sloppy"}
    MaxPieces <- PieceBounds
    Clients = {"item id", "call id", "no id"}
    Prompts <- ShortPrompts
INVARIANTS
    ConversationTypeOK
    DeltasAddUp
    CallEventsInOrder
    AuditIsWhatWasSent
    UpstreamReadsItself
    OutputsAnswerAnnouncedCalls
PROPERTIES
    OrderlyCompletes
CHECK_DEADLOCK FALSE
