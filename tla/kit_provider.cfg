SPECIFICATION FairSpec
CONSTANTS
    Kits = {k1, k2}
    Batches = {b1, b2}
    Settled = {"completed", "failed"}
    Editable = {"completed"}
    NoKit = NoKit
    Requests = {r1, r2}
    MaxLosses = 1
INVARIANTS
    NoOverlappingRequests
    LateAnswerNotShown
PROPERTIES
    ViewNeverGoesBack
    OutcomeReachesBrowser
