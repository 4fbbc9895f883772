\* 1 + 2 + 1 < 5: the tightest timeout for these delays.
SPECIFICATION FairSpec
CONSTANTS
    Interval = 2
    Timeout = 5
    MaxDelay = 1
    MaxSkew = 1
    Window = 2
INVARIANTS
    TypeOK
    LivePeerKept
    SilenceNoticedInTime
PROPERTIES
    CancelledReturns
