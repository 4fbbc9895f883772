\* Both modes; twice as many frames as the channel holds, and one.
SPECIFICATION FairSpec
CONSTANTS
    FRAME_CHANNEL_CAPACITY = 2
    MaxFrames = 5
    Modes <- BothModes
INVARIANTS
    TypeOK
    NoLostWakeup
PROPERTIES
    QueuedFrameDrawn
    SurfaceRecovers
    RefinesMailbox
    ClosedWindowEndsProcess
\* The process ends when its window is closed.
CHECK_DEADLOCK FALSE
