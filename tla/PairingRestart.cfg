\* A client pairs and the host restarts.
SPECIFICATION Spec
CONSTANTS
    h1 = h1
    h2 = h2
    c1 = c1
    Nobody = Nobody
    Hosts <- OneHost
    Clients <- OneClient
    MaxKeys = 1
    MaxStarts <- OneRestart
INVARIANTS
    PairedClientCanConnect
CHECK_DEADLOCK FALSE
