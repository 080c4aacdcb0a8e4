SPECIFICATION FairSpec
CONSTANTS
    r1 = r1
    r2 = r2
    f1 = f1
    f2 = f2
    Meta = Meta
    Receives = {r1, r2}
    Files = {f1, f2}
    Full = {r1}
    Chosen <- SecondFile
INVARIANTS
    TypeOK
    DoneMeansSaved
    ActiveIsRunning
    StoriesAgree
PROPERTIES
    VerdictIsFinal
    ReceiveEnds
CHECK_DEADLOCK FALSE
