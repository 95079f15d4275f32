SPECIFICATION Spec
CONSTANTS
    IDs = {x}
    Settings = Settings
    Values = {v1, v2}
    Absent = Absent
    Bad = Bad
    Default = v1
    Callbacks = {c1}
    Nobody = Nobody
    Silence = Silence
    MaxEdits = 2
    MaxFaults = 0
    MaxCrashes = 1
CHECK_DEADLOCK FALSE
PROPERTIES
    GrantedIsLoadable
