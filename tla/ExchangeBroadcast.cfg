CONSTANTS
    Prot = "RTU"
    Prots <- MCProtsRtu
    SlaveAddr = 1
    Addrs <- MCAddrsBroadcast
    TsidInit <- MCTsidInit
    Regs <- MCRegs
    HoldStatus <- MCHoldStatus
    Calls <- MCCallsBroadcast
    AckTmo = 2
    MaxDelay = 2
    MaxCalls = 3
    MaxFaults = 0
SPECIFICATION Spec
INVARIANT CallResult
