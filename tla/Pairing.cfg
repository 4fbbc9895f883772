\* A client pairs and authenticates with two hosts, one of which restarts.
SPECIFICATION FairSpec
CONSTANTS
    h1 = h1
    h2 = h2
    c1 = c1
    Nobody = Nobody
    Hosts <- TwoHosts
    Clients <- OneClient
    MaxKeys = 2
    MaxStarts <- OneRestart
INVARIANTS
    TypeOK
    TrustedByPin
    SessionAgreement
    NeverBothWait
    PairedKeyIsGood
PROPERTIES
    RefinesHostTrust
    AttemptsEnd
\* Starts and keys are bounded.
CHECK_DEADLOCK FALSE
