CONSTANTS
    t1 = t1
    t2 = t2
    x1 = x1
    x2 = x2
    NoAuth = NoAuth
    NoToken = NoToken
    Trays = {t1, t2}
    Targets = {x1, x2}
    TargetOf <- OwnTarget
    DefaultTarget = x1
    Lifetimes = {2}
    Skew = 1
    Faults = {}
    MaxNow = 2
    MaxTokens = 2
SPECIFICATION Spec
PROPERTIES SignInReachesTray
