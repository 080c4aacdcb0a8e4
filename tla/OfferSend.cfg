SPECIFICATION FairOfferSpec
CONSTANTS
    t1 = t1
    t2 = t2
    h1 = h1
    h2 = h2
    d1 = d1
    d2 = d2
    c1 = c1
    c2 = c2
    o1 = o1
    o2 = o2
    None = None
    Transfers = {t1}
    Hashes = {h1}
    Devices = {d1, d2}
    Conns = {c2}
    Content <- OwnContent
    Peer <- TwoPeers
    Earlier = {h1}
    Asks = {"files"}
    MailCap = 1
    InboxCap = 1
    Offers = {o1, o2}
    Target <- TwoNeighbors
INVARIANTS
    OfferTypeOK
    NeighborHoldsGate
PROPERTIES
    RefusedStops
CHECK_DEADLOCK FALSE
