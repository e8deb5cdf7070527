SPECIFICATION Spec
CONSTANTS
    Kits = {k1}
    Jobs = {j1, j2, j3}
    Clients = {c1, c2}
    NoKit = NoKit
    MaxRetries = 3
    FaultKinds = {"overlap"}
    MaxFaults = 1
PROPERTIES
    FinishedKitNotClobbered
