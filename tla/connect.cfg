SPECIFICATION Spec
CONSTANTS
    Addrs = {A, B}
    NoAddr = NoAddr
    Broadcast = Broadcast
    NameFaults = {"HOST_NOT_FOUND"}
    ConnectTimeout <- MCConnectTimeout
    SelectTimeouts <- MCSelectTimeouts
    Signals = FALSE
    ReopenAfter <- MCReopenDatagrams
INVARIANTS TypeOK OpenTrueConnected OpenReachesTarget OpenErrorKnown CopyIsPeer
