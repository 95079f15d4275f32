SPECIFICATION Spec
CONSTANTS
    Sources <- OneSource
    Type <- OneHtml
    IgnoreRemovals <- OneKeeps
    Items = {a, b}
    NoEntry = NoEntry
    NoSource = NoSource
    MaxEdits = 1
    MaxFaults = 1
    MaxStops = 0
PROPERTY
    FirstRunIsSilent
