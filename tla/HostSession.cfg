\* Both pipelines, a channel of four packets.
SPECIFICATION FairSpec
CONSTANTS
    ENCODE_CHANNEL_CAPACITY = 4
    Paths <- BothPaths
INVARIANTS
    TypeOK
    OneEncodeThread
    PacketsInOrder
    FrameReleased
    NoMutualWait
PROPERTIES
    ShutdownCompletes
    GoneClientNoticedWhenBusy
\* serve returns after Ctrl+C and the process ends.
CHECK_DEADLOCK FALSE
