\* Two slaves, a ring of four, into which both get datagrams at a time.  The
\* application may fill its cycles, a datagram then waits for a later one; what
\* is lost times out in the next cycle; the SDO values of the first slave are
\* segmented.
SPECIFICATION FairSpec
CONSTANTS
    NumSlaves = 2
    RingSize = 4
    Lifetime = 1
    InjectionTimeout = 0
    MaxQueue = 1
    MaxLoad = 1
    Rescans = FALSE
    MaxPasses = 1
    MaxRetries = 1
    Sizes <- UnitSize
    FailsAtOnce = {}
    Aborting = {}
    Segmented = {0}
INVARIANT ExecListIntact
PROPERTY Served
