----------------------------- MODULE MCBackend -----------------------------
(* Bounds for checking Backend with TLC: two instances, and one driver    *)
(* handle more than they can hold open, so a reopen always finds one.   *)
EXTENDS Backend

CONSTANTS h1, h2, h3, fd0, i1, i2

MCInsts == {i1, i2}

MCTypes == {"RTU", "TCP", "SOCK"}
MCHandles == {h1, h2, h3, fd0}
\* The default build (modbus_backend.h) and the RTU + TCP client build.
MCCompiledRtuTcp == {"RTU", "TCP"}
MCCompiledSock == {"SOCK"}
\* An RTU line and a TCP server (adopted sockets), without the TCP client.
MCCompiledRtuSock == {"RTU", "SOCK"}
MCSockFds == {h1}
MCSockFd0 == {fd0}
\* Sockets accepted by a TCP server, fd 0 among them (stdin closed).
MCSockFdsAll == {h1, h2, fd0}
=============================================================================
