SPECIFICATION ThreadSpec
CONSTANTS
    Addrs = {A, B}
    NoAddr = NoAddr
    Broadcast = Broadcast
    NameFaults = {"HOST_NOT_FOUND", "TRY_AGAIN", "BROADCAST"}
    ConnectTimeout <- MCConnectTimeout
    SelectTimeouts <- MCSelectTimeouts
    Signals = TRUE
    ReopenAfter <- MCReopenAlways
PROPERTIES OpenReturns NonblockingOpenReturns
