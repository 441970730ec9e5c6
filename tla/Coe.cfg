\* Two transfers of values of one and of three parts, one emergency message and
\* a ring of one, two troubles; a state machine with a datagram of its own.
SPECIFICATION FairSpec
CONSTANTS
    RingSize = 1
    Emerg = {1, 2}
    NULL = 0
    Sizes = {1, 3}
    InitialSize = 3
    Retries = 1
    MaxTransfers = 2
    MaxEvents = 3
    MaxQueue = 1
    Others = {"eoe", "up"}
INVARIANTS TypeOK RingIntact UploadUndisturbed
PROPERTIES TransferSpec Ends
CHECK_DEADLOCK FALSE
