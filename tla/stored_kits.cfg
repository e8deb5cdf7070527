SPECIFICATION Spec
CONSTANTS
    Alphabets <- MCAlphabets
    Originals <- MCOriginals
    Evidence <- MCEvidence
    Within <- MCWithin
    Reach = 1
    MaxTokens = 4
    OldVersions = {0, 1, 2, 3, 4, 5, 6, 8}
INVARIANTS
    FabricationsAbsent
    HonestHistory
    
PROPERTIES
    TruthIsKept
    EditKeepsTheRest
CHECK_DEADLOCK FALSE
