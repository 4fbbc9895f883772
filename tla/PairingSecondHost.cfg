\* A client pairs with one host, then with another.
SPECIFICATION Spec
CONSTANTS
    h1 = h1
    h2 = h2
    c1 = c1
    Nobody = Nobody
    Hosts <- TwoHosts
    Clients <- OneClient
    MaxKeys = 2
    MaxStarts <- OneRestart
INVARIANTS
    CertificateMeansTrust
CHECK_DEADLOCK FALSE
