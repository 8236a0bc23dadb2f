\* host_updateObject on a client of another depot, with dhcpdOnDepot on.
CONSTANTS
    w1 = w1
    w2 = w2
    h1 = h1
    h2 = h2
    h3 = h3
    h4 = h4
    h5 = h5
    own = own
    other = other
    bad = bad
    Hosts <- MCHosts
    NoHolder = NoHolder
    Threads <- MCOneThread
    HostsOf <- MCOneHost
    Calls = {"updateObject"}
    DhcpdOnDepotOption <- MCOptionOn
    DepotNames <- MCDepotNames
    FqdnNames <- MCFqdnNames
    OwnFqdn <- MCOwnFqdn
    DepotIdOf <- MCFirstOther
    Unconfigured = {}
    HostKeyMissing = FALSE
    NoHardwareAddress = {}
    Unresolvable = {}
    DepotDown = FALSE
    RestartTextNonAscii = FALSE
    MaxOps = 1
    MaxReloads = 1
SPECIFICATION Spec
INVARIANT ForwardedEditApplied
