CONSTANTS
    Cid = {c1, c2, c3}
    Addr <- TwoAddrs
    Player = {p1, p2}
    Worker = {w1, w2}
    Nil = Nil
    LastOctet = 3
    MaxPlayers = 2
    PendingFactor = 1
    MaxPerIP = 1
    HasPassword = FALSE
    ForeignNames = FALSE
    RandFails = TRUE
    AuthTimeout = 0
    StaleAfter = 0
    home = home
    cafe = cafe
SPECIFICATION Spec
SYMMETRY Symmetric
INVARIANTS
    TypeOK
    BitmapExact
    HoldersConsistent
PROPERTIES
    NoTakeover
