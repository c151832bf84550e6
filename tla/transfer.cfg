SPECIFICATION FairSpec
CONSTANTS
    t1 = t1
    t2 = t2
    Threads <- MCTwo
    Senders <- MCOne
    Receivers <- MCLast
    Closers <- MCTwo
    Interruptible <- MCNone
    Modes = {"blocking", "timed", "nonblocking"}
    SendSizes = {2}
    Sizes = {1, 2}
    Capacity = 1
    ShutAgain = FALSE
    MaxCalls = 1
    MaxWire = 2
    MaxIn = 2
INVARIANTS TypeOK SendExactlyOnce NoByteLost RecvInBounds DataMatchesResult ZeroMeansEnd
PROPERTIES RetriesNeedSignal ReceiveReturns SendImplementsStream ReceiveImplementsStream
