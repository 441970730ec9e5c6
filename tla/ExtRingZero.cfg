\* Two slaves, a ring of four, cycles with room for all datagrams.  The
\* requests for the second slave fail before they prepare a datagram.
SPECIFICATION Spec
CONSTANTS
    NumSlaves = 2
    RingSize = 4
    Lifetime = 1
    InjectionTimeout = 0
    MaxQueue = 4
    MaxLoad = 0
    Rescans = TRUE
    MaxPasses = 1
    MaxRetries = 0
    Sizes <- UnitSize
    FailsAtOnce = {1}
    Aborting = {0, 1}
    Segmented = {}
INVARIANT NoZeroDatagram
