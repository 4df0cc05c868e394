SPECIFICATION DevicesSpec
CONSTANTS
    Proc = {p1, p2}
    Message <- Bytes
    FIFO_SIZE = 3
    Width = 16
    MaxWrite = 2
    MaxRead = 2
    MaxSignal = 2
    Client = {r1, r2}
    NoClient = NoClient
    Ints <- OneOrTwenty
    Counts = {1, 32}
    INT_FIFO_SIZE = 32
    IndexWidth = 64
    MaxCall = 3
    MaxFault = 1
INVARIANTS  Permits
PROPERTIES ImplementsFifo DriversReturn
CHECK_DEADLOCK FALSE
