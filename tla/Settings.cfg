SPECIFICATION Spec
CONSTANTS
    k1 = k1
    t1 = t1
    t2 = t2
    n1 = n1
    n2 = n2
    p1 = p1
    Commands = {k1}
    Renamers = {t1, t2}
    Names = {n1, n2}
    Host = Host
    Peers = {p1}
    MaxCount = 1
    None = None
    Empty = Empty
    Torn = Torn
SYMMETRY Alike
INVARIANTS
    TypeOK
    FileKept
    CopiesAgree
CHECK_DEADLOCK FALSE
