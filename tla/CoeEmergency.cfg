\* One transfer and one emergency message; no loss is needed.
SPECIFICATION Spec
CONSTANTS
    RingSize = 1
    Emerg = {1}
    NULL = 0
    Sizes = {1, 3}
    InitialSize = 3
    Retries = 1
    MaxTransfers = 1
    MaxEvents = 1
    MaxQueue = 1
    Others = {}
INVARIANT TransferUndisturbed
CHECK_DEADLOCK FALSE
