SPECIFICATION Spec
CONSTANTS
    BulletCount = 3
    MinBullets = 1
    Words <- TwoParagraphs
    MinUsableWords = 100
    Misread = {}
    MaxBatch = 1
    MaxLines = 4
INVARIANT NothingLost
CHECK_DEADLOCK FALSE
