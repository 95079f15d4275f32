SPECIFICATION Spec
CONSTANTS
    Tokens = {t1, t2}
    Empty = Empty
    Nil = Nil
    Addrs = {a1, a2}
    Callbacks = {c1, c2}
    Main = Main
    Servers = {s1, s2}
    None = None
    MaxChanges = 2
    MaxFaults = 1
SYMMETRY Symmetry
CHECK_DEADLOCK FALSE
INVARIANTS
    TypeOK
    OneListener
    ServesAsConfigured
    BrowserHoldsTheToken
