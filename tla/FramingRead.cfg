CONSTANTS
    ByteTmo <- MCByteTmo
    AckTmo <- MCAckTmo
    Delay <- MCDelay
    Latency <- MCLatency
    BufSize <- MCBufSize
    FrameLens <- MCFrameLens
    SenderGap <- MCSenderGap
    ClockBits <- MCClockBits
    IntBits <- MCIntBits
    FrameGap <- MCFrameGap
SPECIFICATION FairSpec
INVARIANT TypeOK
PROPERTY ReadReturns
PROPERTY ChannelRefined
