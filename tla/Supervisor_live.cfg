SPECIFICATION FairSpec
CONSTANTS
    Sources = {"x", "y"}
    Configs <- MovingConfigs
    BadConfig = BadConfig
    Callbacks = {w1}
    Main = Main
    Callers = {c1}
    NoRunner = NoRunner
    MaxRunners = 2
    MaxEdits = 1
    MaxTriggers = 1
CHECK_DEADLOCK FALSE
PROPERTIES
    EditsTakeEffect
    TriggerIsServed
    CancelledRunnersEnd
    StopCompletes
