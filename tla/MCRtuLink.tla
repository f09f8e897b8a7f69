----------------------------- MODULE MCRtuLink -----------------------------
(* Bounds for checking RtuLink with TLC: one PDU of every shape the codec *)
(* knows in each direction, the spec's example frames among them, plus a function   *)
(* code it does not support; the line damages a frame at most twice.      *)
EXTENDS RtuLink

MCAddrs == {17}
MCReqPdus ==
    { [fc |-> 3, addr |-> 107, nb |-> 3],
      [fc |-> 5, addr |-> 172, val |-> 65280],
      [fc |-> 16, addr |-> 1, nb |-> 1, dlen |-> 2, data |-> <<18, 52>>],
      [fc |-> 22, addr |-> 4, val_and |-> 242, val_or |-> 37],
      [fc |-> 23, rd_addr |-> 3, rd_nb |-> 6, wr_addr |-> 14, wr_nb |-> 1,
       dlen |-> 2, data |-> <<0, 255>>],
      [fc |-> 7] }
MCRspPdus ==
    { [fc |-> 3, dlen |-> 6, data |-> <<174, 65, 86, 82, 67, 64>>],
      [fc |-> 6, addr |-> 1, val |-> 3],
      [fc |-> 15, addr |-> 19, nb |-> 10],
      [fc |-> 22, addr |-> 4, val_and |-> 242, val_or |-> 37],
      [fc |-> 23, dlen |-> 2, data |-> <<0, 1>>],
      [fc |-> 131, ec |-> 2],
      [fc |-> 17] }
MCNoise == {0}
====
