----------------------------- MODULE MCExchange -----------------------------
(* Slave 1 (MB_RTU_ADDR_DEF) with one holding register (address 0); the   *)
(* master reads it, reads an address the slave does not have, or writes  *)
(* it, to the slave, to another address or as a broadcast.  Over TCP the  *)
(* slave has registers 0 and 1; the master reads both, writes 1 and the   *)
(* address 2 the slave does not have in one call, or reads none.          *)
EXTENDS Exchange

MCRegs == 0 :> 5
MCRegsTcp == (0 :> 5) @@ (1 :> 6)
RdOk == [fc |-> 3, addr |-> 0, nb |-> 1, vals |-> <<>>]
RdBad == [fc |-> 3, addr |-> 1, nb |-> 1, vals |-> <<>>]
WrOk == [fc |-> 6, addr |-> 0, nb |-> 1, vals |-> <<7>>]
WrAll == [fc |-> 6, addr |-> 0, nb |-> 1, vals |-> <<9>>]
RdTwo == [fc |-> 3, addr |-> 0, nb |-> 2, vals |-> <<>>]
RdNone == [fc |-> 3, addr |-> 0, nb |-> 0, vals |-> <<>>]
WrPart == [fc |-> 16, addr |-> 1, nb |-> 2, vals |-> <<7, 8>>]
MCCalls == {RdOk, RdBad, WrOk}
MCCallsBroadcast == {RdOk, WrAll}
MCCallsTcp == {RdTwo, WrPart, RdNone}
\* The slave's own address; with the broadcast address; with a second unit.
MCAddrs == {1}
MCAddrsBroadcast == {1, 0}
MCAddrsTcp == {1, 2}
\* A fresh instance (tsid 0), and one that has made 65535 TCP requests, so
\* that the next id wraps to 0.
MCTsidInit == {0}
\* write_hold succeeds; or it may also fail as a device failure (-4).
MCHoldStatus == {0}
MCHoldStatusFail == {0, -4}
MCTsidInitWrap == {0, 65535}
\* The application keeps the backend's protocol, or may also switch the
\* master to the other one.
MCProtsRtu == {"RTU"}
MCProtsTcp == {"TCP", "RTU"}
====
