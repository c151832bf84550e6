SPECIFICATION Spec
CONSTANTS
    Addrs = {A, B}
    NoAddr = NoAddr
    Broadcast = Broadcast
    NameFaults = {"HOST_NOT_FOUND"}
    ConnectTimeout <- MCConnectTimeout
    SelectTimeouts <- MCSelectTimeouts
    Signals = TRUE
    ReopenAfter <- MCReopenDatagrams
INVARIANTS OpenTrueConnected
