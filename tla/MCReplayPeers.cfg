CONSTANTS
    ann = ann
    bob = bob
    Sender <- Two
    Start <- Apart
    Window = 3
    MaxSent = 2
    Garbled = {}
SPECIFICATION Spec
INVARIANTS
    LatePacketsAccepted
CHECK_DEADLOCK FALSE
