CONSTANTS
    w1 = w1
    w2 = w2
    w3 = w3
    p1 = p1
    i1 = i1
    Windows = {w1, w2, w3}
    Gated = {w1, w2}
    Printers = {p1}
    Issuers = {i1}
    IssuerOf <- OneIssuer
    Default = Default
    Faults = {"config", "read", "generate", "write", "sign", "gateway"}
    MaxTries = 2
    None = None
    Corrupt = Corrupt
SPECIFICATION Spec
INVARIANTS TypeOK UsedWasStored OneKeyEach
PROPERTIES SettledKeyStays
