\* One slave with all features and one configuration that uses them, attached
\* and detached at any time; either one error or power failure of the slave, or
\* requests and deactivations that do not wait for a configuration to end.
SPECIFICATION FairSpec
CONSTANTS
    Kinds <- FullOnly
    Configs <- OneRich
    Requestable = {"BOOT"}
    Troubles = {{"slave"}, {"application"}}
    Retries = 0
    Polls = 1
    MaxDrops = 1
INVARIANTS TypeOK AskedWhenWritten StopsAfterError
PROPERTIES BroughtUp BusyEnds
