SPECIFICATION Spec
CONSTANTS
    c1 = c1
    c2 = c2
    s1 = s1
    Clients <- MCClients
    Servers <- MCServers
    Group = Group
    Zero = Zero
    Interface = Interface
    Interruptible <- MCInterruptible
    Targets <- MCTargets
    MaxAsks = 1
INVARIANTS TypeOK AnswersOwn ReplyAddressFresh
