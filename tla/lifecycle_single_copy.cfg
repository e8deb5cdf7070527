SPECIFICATION Spec
CONSTANTS
    Kits = {k1, k2}
    Jobs = {j1, j2, j3}
    Clients = {c1, c2, c3}
    NoKit = NoKit
    MaxRetries = 1
    FaultKinds = {"worker_lost", "db", "broker_submit", "api_lost", "broker_retry", "fail_db"}
    MaxFaults = 2
SYMMETRY Symmetry
INVARIANTS
    RowConsistent
    NoEditLost
    RevisionHistory
PROPERTIES
    FinishedKitNotClobbered
    ImplementsContract
