\* Two request threads update the dhcpd entries of their own hosts.
CONSTANTS
    w1 = w1
    w2 = w2
    h1 = h1
    h2 = h2
    h3 = h3
    h4 = h4
    h5 = h5
    own = own
    other = other
    bad = bad
    Hosts <- MCHosts
    NoHolder = NoHolder
    Threads <- MCThreads
    HostsOf <- MCHostsOf
    Calls = {"update"}
    DhcpdOnDepotOption <- MCOptionUnset
    DepotNames <- MCDepotNames
    FqdnNames <- MCFqdnNames
    OwnFqdn <- MCOwnFqdn
    DepotIdOf <- MCAllOwn
    Unconfigured = {}
    HostKeyMissing = FALSE
    NoHardwareAddress = {}
    Unresolvable = {}
    DepotDown = FALSE
    RestartTextNonAscii = TRUE
    MaxOps = 2
    MaxReloads = 4
SPECIFICATION FairSpec
\* A ReloadThread whose failed restart has a non-ASCII message dies holding
\* _reloadLock (DHCPD.py:119-120): the backend then really stops, with the
\* request threads blocked on the lock.
CHECK_DEADLOCK FALSE
INVARIANT NoLostUpdate
PROPERTY ReloadsFinish
PROPERTY EditsAtomic
PROPERTY CallsReturn
