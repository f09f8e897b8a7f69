CONSTANTS
    Prot = "RTU"
    Prots <- MCProtsRtu
    SlaveAddr = 1
    Addrs <- MCAddrs
    TsidInit <- MCTsidInit
    Regs <- MCRegs
    HoldStatus <- MCHoldStatusFail
    Calls <- MCCalls
    AckTmo = 2
    MaxDelay = 2
    MaxCalls = 3
    MaxFaults = 1
SPECIFICATION Spec
INVARIANT TypeOK CallResult
