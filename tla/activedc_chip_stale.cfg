CONSTANTS
    dc1 = dc1
    dc2 = dc2
    d1 = d1
    d2 = d2
    None = None
    DCs = {dc1, dc2}
    Dashboards = {d1}
    GetFails = FALSE
    MaxSwitches = 2
SPECIFICATION Spec
INVARIANTS ChipStaysAccurate
