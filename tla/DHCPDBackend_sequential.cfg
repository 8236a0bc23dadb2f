\* One request thread makes every kind of call on hosts of this depot, of
\* another depot, of this depot in another spelling, of a depot id that is
\* no fqdn, and of no depot id (dhcpdOnDepot on); the depot's opsi host key
\* may be missing.
CONSTANTS
    w1 = w1
    w2 = w2
    h1 = h1
    h2 = h2
    h3 = h3
    h4 = h4
    h5 = h5
    own = own
    other = other
    bad = bad
    Hosts <- MCAllHosts
    NoHolder = NoHolder
    Threads <- MCOneThread
    HostsOf <- MCOneAllHostsOf
    Calls = {"update", "updateObject", "delete", "deleteObjects"}
    DhcpdOnDepotOption <- MCOptionOn
    DepotNames <- MCDepotNames
    FqdnNames <- MCFqdnNames
    OwnFqdn <- MCOwnFqdn
    DepotIdOf <- MCMixed
    Unconfigured = {h5}
    HostKeyMissing = TRUE
    NoHardwareAddress = {h5}
    Unresolvable = {h4}
    DepotDown = TRUE
    RestartTextNonAscii = FALSE
    MaxOps = 3
    MaxReloads = 3
SPECIFICATION FairSpec
INVARIANT TypeOK
INVARIANT NoLostUpdate
INVARIANT NoSelfConnection
PROPERTY EditsAtomic
