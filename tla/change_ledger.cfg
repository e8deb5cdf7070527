SPECIFICATION Spec
CONSTANTS
    BulletCount = 2
    MinBullets = 1
    Words <- TwoParagraphs
    MinUsableWords = 100
    Misread = {}
    MaxBatch = 2
    MaxLines = 3
INVARIANTS OrderlyDriftFree LetterFollowsLedger ExportsStayValid
PROPERTIES WithheldRecordsFrozen
CHECK_DEADLOCK FALSE
