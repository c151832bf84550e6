SPECIFICATION Spec
CONSTANTS
    a1 = a1
    p1 = p1
    ActiveObjs <- MCActive
    PassiveObjs <- MCPassive
    Types <- MCTypes
    Fds = {f1, f2}
    INVALID_SOCKET = INVALID_SOCKET
    Nobody = Nobody
    NoCause = NoCause
    AppErrnos <- MCErrnos
    Platform = "LINUX"
INVARIANTS TypeOK HandleOwned NonblockingKnown ErrorNamesCause
PROPERTIES NoForeignClose OrphanOnlyByInitialize MisledOnlyByInitialize
SYMMETRY MCSymmetry
