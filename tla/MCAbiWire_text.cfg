SPECIFICATION Spec
CONSTANTS
    None = None
    Items <- MCItems
    Events <- MCEvents
    Filters <- MCFilters
    Versions = {"current", "legacy"}
    UriBytes = {97, 255}
    MaxItems = 3
INVARIANTS
    EmittedLogsDecode
CHECK_DEADLOCK FALSE
