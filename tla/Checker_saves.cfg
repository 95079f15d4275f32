SPECIFICATION Spec
CONSTANTS
    Sources <- TwoSources
    Type <- TwoTypes
    IgnoreRemovals <- TwoFlags
    Items = {a, b}
    NoEntry = NoEntry
    NoSource = NoSource
    MaxEdits = 2
    MaxFaults = 2
    MaxStops = 1
SYMMETRY ItemSymmetry
INVARIANTS
    TypeOK
    CheckedIsDurable
    NoSilentAddition
    ReaderInSync
