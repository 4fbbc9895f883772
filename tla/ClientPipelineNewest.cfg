\* The renderer is slow for a moment and then nothing changes on the screen.
SPECIFICATION FairSpec
CONSTANTS
    FRAME_CHANNEL_CAPACITY = 2
    MaxFrames = 3
    Modes <- NormalMode
PROPERTIES
    NewestDecodedDrawn
CHECK_DEADLOCK FALSE
