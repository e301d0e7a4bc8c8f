SPECIFICATION Spec
CONSTANTS
    MAX_BYTES_IN_ONE_SHOT = 4
    OutMessages <- MCOutMessages
    Replies <- MCReplies
    DEFAULT_IN_BUF_SIZE = 3
    GROW_EPSILON = 1
    LineFaults = TRUE
    MaxUart = 3
    MaxLate = 3
INVARIANTS
    TypeOK
    RequestSent
    InputFits
    BytesInOrder
    ReplyNotLost
PROPERTIES
    ImplementsFrames
    ExchangeEnds
