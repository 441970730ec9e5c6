\* EoE requests (IP parameters) only.
SPECIFICATION Spec
CONSTANTS
    Callers = {c1, c2}
    Kinds = {"eoe"}
    AppKinds = {}
    MaxCalls = 2
    App = App
    NULL = NULL
INVARIANT BusyWorkedOn
