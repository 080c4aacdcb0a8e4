SPECIFICATION FairSpec
CONSTANTS
    c1 = c1
    c2 = c2
    o1 = o1
    f1 = f1
    None = None
    Cores = {c1}
    Others = {o1}
    Foreign = {}
    Renames = 1
    MaxPending = 2
INVARIANTS
    TypeOK
    SessionWhole
    AdvertisedAsNamed
    ListedArePresent
    ListedUnlessMissed
PROPERTIES
    DepartedIsForgotten
CHECK_DEADLOCK FALSE
