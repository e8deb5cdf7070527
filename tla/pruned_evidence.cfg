CONSTANTS
    Terms = 3
    Slots <- MCSlots
    BaseWords = 40
    BulletWords = 8
    OlderRoleFrom = 1
    RecentFloor = 2
    OlderFloor = 1
    Cases <- MCCases
    BatchSize = 4
    LegacyRounds = 2
    ParetoRounds = 3
    WordBudget = 80
    DensityRatio = 5
    Strictness = 4
SPECIFICATION Spec
INVARIANT CreditedEvidenceStays
