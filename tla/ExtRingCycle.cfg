\* Two slaves, a ring of four; some datagrams are too large for a cycle, for
\* the others there is always room.  The requests for the second slave fail
\* before they prepare a datagram, and the bus is scanned anew at any time.
SPECIFICATION Spec
CONSTANTS
    NumSlaves = 2
    RingSize = 4
    Lifetime = 1
    InjectionTimeout = 0
    MaxQueue = 4
    MaxLoad = 0
    Rescans = TRUE
    MaxPasses = 1
    MaxRetries = 1
    Sizes <- SomeLarge
    FailsAtOnce = {1}
    Aborting = {0}
    Segmented = {}
INVARIANT ExecListIntact
