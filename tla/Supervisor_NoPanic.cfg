SPECIFICATION Spec
CONSTANTS
    Sources = {"x", "y"}
    Configs <- ThreeConfigs
    BadConfig = BadConfig
    Callbacks = {w1, w2}
    Main = Main
    Callers = {c1}
    NoRunner = NoRunner
    MaxRunners = 3
    MaxEdits = 2
    MaxTriggers = 0
CHECK_DEADLOCK FALSE
INVARIANTS
    NoPanic
