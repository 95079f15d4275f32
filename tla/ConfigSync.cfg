SPECIFICATION FairSpec
CONSTANTS
    IDs = {x}
    Settings = Settings
    Values = {v1, v2}
    Absent = Absent
    Bad = Bad
    Default = v1
    Callbacks = {c1, c2}
    Nobody = Nobody
    Silence = Silence
    MaxEdits = 3
    MaxFaults = 1
    MaxCrashes = 1
CHECK_DEADLOCK FALSE
INVARIANTS
    TypeOK
    MemoryIsFile
PROPERTIES
    IsRegister
    FileTakesEffect
