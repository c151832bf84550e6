SPECIFICATION Spec
CONSTANTS
    nTotalPayloadSize = 4
    nNumBytesToReceive = 2
    MAX_PACKET = 5
    Capacities <- MCCapacities
INVARIANTS TypeOK EchoesPayload SleepsAfterEcho ShortSendNeverEnds
PROPERTIES EchoCompletes DownIsStream
CHECK_DEADLOCK FALSE
