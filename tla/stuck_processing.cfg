SPECIFICATION FairSpec
CONSTANTS
    Kits = {k1}
    Jobs = {j1, j2, j3}
    Clients = {c1}
    NoKit = NoKit
    MaxRetries = 3
    FaultKinds = {"db", "fail_db"}
    MaxFaults = 5
PROPERTIES
    NeverStuckInProcessing
