CONSTANTS
    h1 = h1
    h2 = h2
    l1 = l1
    l2 = l2
    l3 = l3
    b1 = b1
    b2 = b2
    b3 = b3
    ann = ann
    Message <- Mixed
    kind <- MixedKind
    maxSize = 2
    broadcastChSize = 1
    batchBufSize = 2
    Sender <- One
    Start <- FromZero
    MaxVersion = 2
    Window = 3
    MaxSent = 6
    Garbled <- AnyCounter
SPECIFICATION TrafficSpec
INVARIANTS
    QTypeOK
    HighInOrder
    AcceptedOnce
    DrainComplete
    AtMostOnce
    LatePacketsAccepted
    WindowExact
    STypeOK
    NotifiedInOrder
    AtomicWhileAlone
PROPERTY
    CloseReturns
CHECK_DEADLOCK FALSE
