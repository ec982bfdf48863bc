SPECIFICATION Spec
CONSTANTS
    None = None
    Items <- MCItems
    Events <- MCEvents
    Filters <- MCFilters
    Versions = {"current", "legacy"}
    UriBytes = {97}
    MaxItems = 3
INVARIANTS
    TypeOK
    CallCarriesItems
    DecodesOrRejects
    FiltersSelect
CHECK_DEADLOCK FALSE
