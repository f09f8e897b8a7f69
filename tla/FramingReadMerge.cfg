CONSTANTS
    ByteTmo <- MCByteTmo
    AckTmo <- MCAckTmo
    Delay <- MCDelay
    Latency <- MCLatency
    BufSize <- MCBufSize
    FrameLens <- MCFrameLens
    SenderGap <- MCSenderGap
    ClockBits <- MCClockBits
    IntBits <- MCIntBits
    FrameGap <- MCShortFrameGap
SPECIFICATION FairSpec
INVARIANT NoMerge
