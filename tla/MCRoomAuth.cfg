CONSTANTS
    Cid = {c1, c2, c3}
    Addr <- TwoAddrs
    Player = {p1, p2, p3}
    Worker = {w1}
    Nil = Nil
    LastOctet = 4
    MaxPlayers = 2
    PendingFactor = 1
    MaxPerIP = 1
    HasPassword = TRUE
    ForeignNames = FALSE
    RandFails = TRUE
    AuthTimeout = 0
    StaleAfter = 0
    home = home
    cafe = cafe
SPECIFICATION Spec
SYMMETRY Symmetric
INVARIANTS
    PendingAtHome
PROPERTIES
    ImplementsLease
CHECK_DEADLOCK FALSE
