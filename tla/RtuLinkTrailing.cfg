CONSTANTS
    Addrs <- MCAddrs
    ReqPdus <- MCReqPdus
    RspPdus <- MCRspPdus
    Noise <- MCNoise
    MaxFaults = 1
SPECIFICATION Spec
INVARIANT ExactLength
\* A behaviour carries one frame: it ends when the receiver has parsed it.
CHECK_DEADLOCK FALSE
