SPECIFICATION Spec
CONSTANTS
    t1 = t1
    t2 = t2
    Threads <- MCTwo
    Senders <- MCOne
    Receivers <- MCLast
    Closers <- MCNone
    Interruptible <- MCOne
    Modes = {"blocking"}
    SendSizes = {1}
    Sizes = {1, 2}
    Capacity = 1
    ShutAgain = FALSE
    MaxCalls = 2
    MaxWire = 3
    MaxIn = 2
INVARIANTS NoByteLost
CHECK_DEADLOCK FALSE
