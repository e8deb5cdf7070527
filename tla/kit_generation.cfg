SPECIFICATION FairSpec
CONSTANTS
    Kits = {k1, k2}
    Nobody = Nobody
    Scenarios <- MCScenarios
INVARIANTS
    ProseIsAccounted
    FloorStands
    AddedInPlace
    DeliveredSupported
    NarrativeSurvives
PROPERTIES
    GenerationEnds
CHECK_DEADLOCK FALSE
