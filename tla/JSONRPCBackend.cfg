\* Two threads share one client; the server lists its methods.
CONSTANTS
    t1 = t1
    t2 = t2
    m1 = m1
    Threads <- MCThreads
    Main = t1
    Methods <- MCMethods
    NoThread = NoThread
    NoCookie = NoCookie
    NoRequest = NoRequest
    Cookie = Cookie
    NoInterface = NoInterface
    ServerInterface = "methods"
    MaxRetrySeconds = 2
    ConnectTimeout = 3
    MaxClock = 2
    MaxFailures = 1
    MaxCalls = 2
SPECIFICATION FairSpec
INVARIANT TypeOK
INVARIANT CallerGetsOwnResult
INVARIANT NoSelfWait
PROPERTY CallsComplete
PROPERTY ImplementsCalls
