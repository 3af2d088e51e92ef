CONSTANTS
    t1 = t1
    t2 = t2
    x1 = x1
    x2 = x2
    NoAuth = NoAuth
    NoToken = NoToken
    Trays = {t1, t2}
    Targets = {x1}
    TargetOf <- SharedTarget
    DefaultTarget = x1
    Lifetimes = {0, 2}
    Skew = 1
    Faults = {"read", "delete"}
    MaxNow = 2
    MaxTokens = 2
SPECIFICATION Spec
INVARIANTS TypeOK MenuAgrees SignedOutForgotten
PROPERTIES AdoptsOnlyFresh
SYMMETRY TraySymmetry
