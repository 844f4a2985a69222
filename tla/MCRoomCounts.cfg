CONSTANTS
    Cid = {c1, c2, c3}
    Addr <- TwoAddrs
    Player = {p1, p2}
    Worker = {w1}
    Nil = Nil
    LastOctet = 4
    MaxPlayers = 2
    PendingFactor = 1
    MaxPerIP = 1
    HasPassword = FALSE
    ForeignNames = FALSE
    RandFails = FALSE
    AuthTimeout = 0
    StaleAfter = 1
    home = home
    cafe = cafe
SPECIFICATION Spec
SYMMETRY Symmetric
INVARIANTS
    CountsReturn
CHECK_DEADLOCK FALSE
