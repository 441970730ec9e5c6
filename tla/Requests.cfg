\* Two callers with requests to both state machines, and the application's own
\* SDO and register requests.
SPECIFICATION FairSpec
CONSTANTS
    Callers = {c1, c2}
    Kinds = {"sdo", "reg", "sii", "emerg"}
    AppKinds = {"sdo", "reg"}
    MaxCalls = 3
    App = App
    NULL = NULL
INVARIANTS CallerWaits QueuedLinked BusyWorkedOn RequestHeld AppRequestThere
PROPERTIES AnswerStays Answered
