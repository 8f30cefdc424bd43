CONSTANTS
    Outputs = {a, b}
    FlowDefs = {f, g}
    Requests = {r, s}
    None = None
    Handlers <- AnyHandlers
    MaxDepth = 3
SPECIFICATION FairSpec
INVARIANTS
    Described
    RequestsFollow
    RefsCounted
PROPERTIES
    Returns
CHECK_DEADLOCK FALSE
