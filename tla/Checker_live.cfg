SPECIFICATION FairSpec
CONSTANTS
    Sources <- OneSource
    Type <- OneJson
    IgnoreRemovals <- OneKeeps
    Items = {a, b}
    NoEntry = NoEntry
    NoSource = NoSource
    MaxEdits = 2
    MaxFaults = 2
    MaxStops = 2
INVARIANT
    ReaderInSync
PROPERTIES
    AdditionsAreAttempted
    BaselineFollowsPage
    StopCompletes
