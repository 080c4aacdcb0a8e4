SPECIFICATION FairSpec
CONSTANTS
    o1 = o1
    o2 = o2
    u1 = u1
    u2 = u2
    NoOffer = NoOffer
    Offers = {o1}
    Malformed = {}
    Callers = {u1, u2}
    ANSWER_WAIT = 2
    ANSWER_TIMEOUT = 5
    MaxDelay = 1
INVARIANTS
    TypeOK
    OneAnswer
    NothingLeaks
PROPERTIES
    ReceiverDecidesFirst
    ImplementsConsent
    OfferConcludes
    ParkedEnds
CHECK_DEADLOCK FALSE
