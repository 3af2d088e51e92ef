CONSTANTS
    t1 = t1
    t2 = t2
    x1 = x1
    x2 = x2
    NoAuth = NoAuth
    NoToken = NoToken
    Trays = {t1}
    Targets = {x1}
    TargetOf <- SharedTarget
    DefaultTarget = x1
    Lifetimes = {2}
    Skew = 1
    Faults = {}
    MaxNow = 3
    MaxTokens = 1
SPECIFICATION Spec
PROPERTIES OpenNeverLandsOnSignIn
