\* Two request threads; dhcpd_deleteHost edits the shared file object without the lock.
CONSTANTS
    w1 = w1
    w2 = w2
    h1 = h1
    h2 = h2
    h3 = h3
    h4 = h4
    h5 = h5
    own = own
    other = other
    bad = bad
    Hosts <- MCHosts
    NoHolder = NoHolder
    Threads <- MCThreads
    HostsOf <- MCHostsOf
    Calls = {"update", "delete", "deleteObjects"}
    DhcpdOnDepotOption <- MCOptionUnset
    DepotNames <- MCDepotNames
    FqdnNames <- MCFqdnNames
    OwnFqdn <- MCOwnFqdn
    DepotIdOf <- MCAllOwn
    Unconfigured = {}
    HostKeyMissing = FALSE
    NoHardwareAddress = {}
    Unresolvable = {}
    DepotDown = FALSE
    RestartTextNonAscii = FALSE
    MaxOps = 2
    MaxReloads = 4
SPECIFICATION Spec
INVARIANT NoLostUpdate
