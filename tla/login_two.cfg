CONSTANTS
    c1 = c1
    c2 = c2
    r1 = r1
    r2 = r2
    None = None
    Children = {c1, c2}
    Rounds = {r1, r2}
    OwnerOf <- RoundEach
    KeypairOffered = TRUE
    Faults = {"issuer", "gateway", "write", "read", "listen"}
SPECIFICATION Spec
CHECK_DEADLOCK FALSE
INVARIANTS OwnStateOnly PortAccounted
PROPERTIES SignInSpec
