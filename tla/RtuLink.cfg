CONSTANTS
    Addrs <- MCAddrs
    ReqPdus <- MCReqPdus
    RspPdus <- MCRspPdus
    Noise <- MCNoise
    MaxFaults = 2
SPECIFICATION Spec
INVARIANT TypeOK
INVARIANT Integrity
INVARIANT RoundTrip
INVARIANT SpecVectors
\* A behaviour carries one frame: it ends when the receiver has parsed it.
CHECK_DEADLOCK FALSE
