SPECIFICATION Spec
CONSTANTS
    x = x
    y = y
    IDs = {x, y}
    URLs <- MCURLs
    None = None
    Free = Free
    MaxItems = 2
    MaxGens = 2
    MaxEdits = 2
    MaxErrors = 0
CHECK_DEADLOCK FALSE
INVARIANTS
    TypeOK
    NothingSilent
    LiveRunnersUseTheirConfig
PROPERTIES
    BaselinesHeal
