\* No timeout, a short one and a long one.
SPECIFICATION FairSpec
CONSTANTS
    INITIAL_BACKOFF = 1
    MAX_BACKOFF = 5
    MaxAttempt = 3
    Timeouts <- NoneShortLong
INVARIANTS
    TypeOK
    GivesUpOnTime
PROPERTIES
    CancelledReturnsOk
    SessionComesBack
\* connect_with_reconnect returns.
CHECK_DEADLOCK FALSE
