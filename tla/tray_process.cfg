CONSTANTS
    k1 = k1
    k2 = k2
    s1 = s1
    h1 = h1
    n1 = n1
    n2 = n2
    ip1 = ip1
    a = a
    b = b
    Peers = {k1, k2}
    Secrets = {s1}
    Hosts = {h1}
    Networks = {n1, n2}
    Unset = Unset
    NotBase64 = NotBase64
    TooShort = TooShort
    NotAnIP = NotAnIP
    Rejected = Rejected
    Configs <- MeshConfigs
    NoMesh = NoMesh
    Faults = {"config", "wgfile", "tun", "ipc", "up", "shell", "gateway", "listen"}
    Clusters = {a, b}
    MaxClicks = 2
    NoCluster = NoCluster
SPECIFICATION TraySpec
CHECK_DEADLOCK FALSE
INVARIANTS TrayTypeOK DeviceHasOwner ErrorTrayLeftovers MeshAsConfigured ClicksAccounted QuietOnAClick
PROPERTIES ClicksReachShell SignalEnds
