SPECIFICATION Spec
CONSTANTS
    t1 = t1
    t2 = t2
    Threads <- MCOne
    Senders <- MCOne
    Receivers <- MCNone
    Closers <- MCNone
    Interruptible <- MCOne
    Modes = {"blocking", "nonblocking"}
    SendSizes = {1, 2}
    Sizes = {1, 2}
    Capacity = 2
    ShutAgain = FALSE
    MaxCalls = 2
    MaxWire = 6
    MaxIn = 0
INVARIANTS SendExactlyOnce
CHECK_DEADLOCK FALSE
