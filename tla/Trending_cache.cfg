SPECIFICATION Spec
CONSTANTS
    Repos = {a, b, c}
    ForgetAfter = 2
    MaxTime = 5
INVARIANTS
    TypeOK
    CacheAgrees
    CacheIsFresh
PROPERTY
    RefinesHistory
