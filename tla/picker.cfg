CONSTANTS
    Faults = {"read", "gateway", "issuer", "write"}
SPECIFICATION Spec
CHECK_DEADLOCK FALSE
INVARIANTS TypeOK NobodyIsStuck BailsWhenBothFailed
PROPERTIES RaceEnds
