\* A second connection loss, long after the first one.
SPECIFICATION Spec
CONSTANTS
    INITIAL_BACKOFF = 1
    MAX_BACKOFF = 5
    MaxAttempt = 3
    Timeouts <- OnlyLong
INVARIANTS
    GivesUpNotBeforeTimeout
CHECK_DEADLOCK FALSE
