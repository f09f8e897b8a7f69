CONSTANTS
    Prot = "TCP"
    Prots <- MCProtsTcp
    SlaveAddr = 1
    Addrs <- MCAddrsTcp
    TsidInit <- MCTsidInitWrap
    Regs <- MCRegsTcp
    HoldStatus <- MCHoldStatusFail
    Calls <- MCCallsTcp
    AckTmo = 2
    MaxDelay = 6
    MaxCalls = 3
    MaxFaults = 0
SPECIFICATION Spec
INVARIANT CallResult ReplyReported
