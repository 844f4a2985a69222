CONSTANTS
    Cid = {c1, c2}
    Addr <- OneAddr
    Player <- OneUser
    Worker = {w1}
    Nil = Nil
    LastOctet = 4
    MaxPlayers = 2
    PendingFactor = 1
    MaxPerIP = 1
    HasPassword = FALSE
    ForeignNames = FALSE
    RandFails = FALSE
    AuthTimeout = 0
    StaleAfter = 0
    home = home
    ann = ann
    bob = bob
    GracePeriod = 1
    DiskFails = FALSE
SPECIFICATION RSpec
SYMMETRY Objects
INVARIANT
    OneVIPPerUser
