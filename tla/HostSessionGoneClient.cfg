\* The client vanishes while nothing changes on the screen.
SPECIFICATION FairSpec
CONSTANTS
    ENCODE_CHANNEL_CAPACITY = 4
    Paths <- BothPaths
PROPERTIES
    GoneClientNoticed
CHECK_DEADLOCK FALSE
