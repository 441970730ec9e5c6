\* One slave that comes and goes; the device is not closed in the middle of a
\* scan or of a configuration.
SPECIFICATION FairSpec
CONSTANTS
    None = None
    StopsScan = FALSE
INVARIANTS SlaveThere PreopWhenInactive ScansWhenIdle
PROPERTIES SlaveListLocked RequestReturns Activated
