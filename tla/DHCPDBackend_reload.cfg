\* Two request threads update their hosts while ReloadThreads restart dhcpd.
CONSTANTS
    w1 = w1
    w2 = w2
    h1 = h1
    h2 = h2
    h3 = h3
    h4 = h4
    h5 = h5
    own = own
    other = other
    bad = bad
    Hosts <- MCHosts
    NoHolder = NoHolder
    Threads <- MCThreads
    HostsOf <- MCHostsOf
    Calls = {"update"}
    DhcpdOnDepotOption <- MCOptionUnset
    DepotNames <- MCDepotNames
    FqdnNames <- MCFqdnNames
    OwnFqdn <- MCOwnFqdn
    DepotIdOf <- MCAllOwn
    Unconfigured = {}
    HostKeyMissing = FALSE
    NoHardwareAddress = {}
    Unresolvable = {}
    DepotDown = FALSE
    RestartTextNonAscii = FALSE
    MaxOps = 2
    MaxReloads = 4
SPECIFICATION FairSpec
PROPERTY EventuallyReloaded
