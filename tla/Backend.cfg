CONSTANTS
    h1 = h1
    h2 = h2
    h3 = h3
    fd0 = fd0
    i1 = i1
    i2 = i2
    Insts <- MCInsts
    NULL = NULL
    Types <- MCTypes
    Compiled <- MCCompiledRtuSock
    Handles <- MCHandles
    ZeroFd = fd0
    SockFds <- MCSockFdsAll
SPECIFICATION Spec
INVARIANT TypeOK
INVARIANT HandleValid
\* modbus_destroy ends the instance: nothing may follow it.
CHECK_DEADLOCK FALSE
