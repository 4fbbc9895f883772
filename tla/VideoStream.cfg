\* Two textures, groups of three pictures, three packets in flight.
SPECIFICATION PipelinesSpec
CONSTANTS
    t1 = t1
    t2 = t2
    NoTexture = NoTexture
    Textures <- TwoTextures
    MaxSessions = 2
    Gop = 3
    MaxFrames = 1
    MaxInFlight = 3
    Rates = {1, 6}
    U16Max = 5
    MaxHeld = 1
SYMMETRY TextureSymmetry
INVARIANTS
    PipelinesTypeOK
    CleanTurns
    ReferencesBalanced
    RecoversWithinGop
    CodecAgreed
    SoftwareRecovers
\* An encoder that fails to start leaves its session open: in the end there is
\* none to be had, and the host serves nobody.
CHECK_DEADLOCK FALSE
