\* Both networks; frame_ids do not wrap (4 ids for 4 packets).
SPECIFICATION Spec
CONSTANTS
    IdSpace = 4
    MAX_IN_FLIGHT_FRAMES = 2
    MaxPackets = 4
    MaxFragTotal = 2
    Networks <- BothNetworks
INVARIANTS
    TypeOK
    PendingBounded
    NoCompleteFrameHeld
    AllDelivered
PROPERTIES
    EvictsOldest
    RefinesChannel
\* The connection closes, and then nothing happens on it any more.
CHECK_DEADLOCK FALSE
