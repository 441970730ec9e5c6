\* Frames of one fragment to the slave, repeated once, and of two from it, of
\* which one in a row may be lost.  The callbacks always send.
SPECIFICATION FairSpec
CONSTANTS
    TxSizes = {1}
    RxSizes = {2}
    TxQueueSize = 2
    Tries = 1
    MaxLost = 1
    Denies = FALSE
INVARIANTS SentMeansTaken RxFrameWhole
PROPERTY TxWakes
