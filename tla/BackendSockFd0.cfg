CONSTANTS
    h1 = h1
    h2 = h2
    h3 = h3
    fd0 = fd0
    i1 = i1
    i2 = i2
    Insts <- MCInsts
    NULL = NULL
    Types <- MCTypes
    Compiled <- MCCompiledSock
    Handles <- MCHandles
    ZeroFd = fd0
    SockFds <- MCSockFd0
SPECIFICATION Spec
INVARIANT NoLeak
\* modbus_destroy ends the instance: nothing may follow it.
CHECK_DEADLOCK FALSE
