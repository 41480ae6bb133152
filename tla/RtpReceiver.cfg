SPECIFICATION Spec
CONSTANTS
    SeqMod = 8
    RocMod = 4
    FirstSeqs <- AllSeqs
    Clients = {a, b}
    Listener = a
    Lossy = {b}
    RING_BUFFER_SIZE = 2
    MaxPending = 3
    Window = 3
    MaxPackets = 18
CHECK_DEADLOCK FALSE
INVARIANT ReceiverAgrees
