CONSTANTS
    c1 = c1
    c2 = c2
    r1 = r1
    r2 = r2
    None = None
    Children = {c1}
    Rounds = {r1, r2}
    OwnerOf <- OneWindow
    KeypairOffered = FALSE
    Faults = {}
SPECIFICATION Spec
CHECK_DEADLOCK FALSE
INVARIANTS ErrorStoresNothing
