SPECIFICATION SSpec
CONSTANTS
    k1 = k1
    k2 = k2
    l1 = l1
    Message <- Packets
    kind <- Kinds
    maxSize = 2
    broadcastChSize = 1
    batchBufSize = 2
    MaxVersion = 2
INVARIANT AtomicFile
CHECK_DEADLOCK FALSE
