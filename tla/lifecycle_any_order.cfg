\* Every fault that strands no kit by itself, overlapping deliveries included,
\* under the fairness of FairSpec.  No symmetry: the run checks liveness.
SPECIFICATION FairSpec
CONSTANTS
    Kits = {k1}
    Jobs = {j1, j2, j3}
    Clients = {c1, c2}
    NoKit = NoKit
    MaxRetries = 1
    FaultKinds = {"worker_lost", "db", "broker_submit", "api_lost", "overlap"}
    MaxFaults = 2
INVARIANTS
    TypeOK
    OpenKitHasOwner
PROPERTIES
    AcceptedKitSettles
