SPECIFICATION Spec
CONSTANTS
    Addrs = {A, B}
    NoAddr = NoAddr
    Broadcast = Broadcast
    NameFaults = {"HOST_NOT_FOUND"}
    ConnectTimeout <- MCConnectTimeout
    SelectTimeouts <- MCSelectTimeouts
    Signals = FALSE
    ReopenAfter <- MCReopenAfterFailure
INVARIANTS OpenReachesTarget
