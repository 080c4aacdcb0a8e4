SPECIFICATION Spec
CONSTANTS
    t1 = t1
    t2 = t2
    h1 = h1
    h2 = h2
    d1 = d1
    d2 = d2
    c1 = c1
    c2 = c2
    c3 = c3
    None = None
    Transfers = {t1}
    Hashes = {h1}
    Devices = {d1, d2}
    Conns = {c1}
    Content <- OwnContent
    Peer <- TwoPeers
    Earlier = {}
    Asks = {"peek", "files"}
    MailCap = 2
    InboxCap = 1
INVARIANTS
    DoneMeansDelivered
CHECK_DEADLOCK FALSE
