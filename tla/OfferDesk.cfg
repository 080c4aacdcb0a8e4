SPECIFICATION FairSpec
CONSTANTS
    o1 = o1
    o2 = o2
    o3 = o3
    d1 = d1
    d2 = d2
    k1 = k1
    k2 = k2
    Code = Code
    None = None
    Offers = {o1, o2}
    Devices = {d1, d2}
    Device <- TwoSenders
    Calls = {k1, k2}
    Cap = 1
    Wait = 2
    Ttl = 1
    SkipCode = TRUE
    Remembered = {d2}
INVARIANTS
    TypeOK
    NoneForgotten
    PreviewConsented
    FreshCanBeAccepted
PROPERTIES
    DialogCloses
CHECK_DEADLOCK FALSE
