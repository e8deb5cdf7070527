SPECIFICATION Spec
CONSTANTS
    Lines <- MCLines
    Terms <- MCTerms
    ListLimit = 2
    KeywordLimit = 4
    AnswerLimit = 3
    Openings <- MCOpenings
    MaxLines = 4
    Answers <- MCAnswers
    Facts <- MCFacts
    Knowledge <- MCKnowledge
    Resumes <- MCResumes
    MaxFacts = 3
INVARIANTS
    NothingAfterClosing
    DemandIsKept
    RungsAreEarned
PROPERTIES
    ProviderAddsFromSource
    MoreEvidenceNeverHurts
CHECK_DEADLOCK FALSE
