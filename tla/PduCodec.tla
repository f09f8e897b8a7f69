------------------------------ MODULE PduCodec ------------------------------
(***************************************************************************)
(* The Modbus PDU codec (src/.../Modbus/Src/modbus_pdu.c) over the byte    *)
(* order helpers (modbus_byte_order_convert.c).  Bytes are naturals below *)
(* 256 and a buffer is a sequence of them.  A PDU is a record with the    *)
(* fields of the mb_pdu_t union member its function code selects; a       *)
(* parse returns <<n, pdu>>, n being the C function's return value.  A   *)
(* borrowed payload (pdata = p, lines 218 and 279) is the bytes of the    *)
(* buffer it points at.                                                   *)
(***************************************************************************)
EXTENDS Integers, Sequences, FiniteSetsExt, ByteOrder

\* The function codes of modbus_pdu.h, grouped by the mb_pdu_t shape the
\* codec dispatches them to.
FcRead == {1, 2, 3, 4}
FcWrSingle == {5, 6}
FcWrMulti == {15, 16}
FcMaskWr == 22
FcWrRd == 23
\* MODBUS_FC_EXCEPT_CHK: the high bit of the function code.
ExceptChk(fc) == fc >= 128

\* A parse that read nothing usable.
NoPdu == [fc |-> -1]

\* The payload bytes a borrow of n bytes at position i of b points at.
Borrow(b, i, n) == SubSeq(b, i, Min({i + n - 1, Len(b)}))

-----------------------------------------------------------------------------
(* Make: one operator per shape (lines 31-39, 94-107, 165-179, 225-234,    *)
(* 252-264, 285-294, 312-322, 341-355).  The payload is memcpy'd.          *)
ExceptMake(p) == <<p.fc, p.ec>>
RdReqMake(p) == <<p.fc>> \o U16Put(p.addr) \o U16Put(p.nb)
RdRspMake(p) == <<p.fc, p.dlen>> \o p.data
WrSingleMake(p) == <<p.fc>> \o U16Put(p.addr) \o U16Put(p.val)
WrReqMake(p) ==
    <<p.fc>> \o U16Put(p.addr) \o U16Put(p.nb) \o <<p.dlen>> \o p.data
WrRspMake(p) == <<p.fc>> \o U16Put(p.addr) \o U16Put(p.nb)
MaskWrMake(p) ==
    <<p.fc>> \o U16Put(p.addr) \o U16Put(p.val_and) \o U16Put(p.val_or)
WrRdReqMake(p) ==
    <<p.fc>> \o U16Put(p.rd_addr) \o U16Put(p.rd_nb) \o U16Put(p.wr_addr)
             \o U16Put(p.wr_nb) \o <<p.dlen>> \o p.data

(* Parse: one operator per shape (lines 60-73, 129-143, 205-223, 236-250,  *)
(* 266-283, 296-310, 324-339, 357-376): a minimum-length check, then the   *)
(* fields; a payload is not checked against len.                          *)
ExceptParse(b, len) ==
    IF len < 2 THEN <<0, NoPdu>> ELSE <<2, [fc |-> b[1], ec |-> b[2]]>>
RdReqParse(b, len) ==
    IF len < 5 THEN <<0, NoPdu>>
    ELSE <<5, [fc |-> b[1], addr |-> U16Get(b, 2), nb |-> U16Get(b, 4)]>>
RdRspParse(b, len) ==
    IF len < 3 THEN <<0, NoPdu>>
    ELSE <<2 + b[2], [fc |-> b[1], dlen |-> b[2], data |-> Borrow(b, 3, b[2])]>>
WrSingleParse(b, len) ==
    IF len < 5 THEN <<0, NoPdu>>
    ELSE <<5, [fc |-> b[1], addr |-> U16Get(b, 2), val |-> U16Get(b, 4)]>>
\* A write-multiple parse that counts the byte-count byte twice.
WrReqParseLong(b, len) ==
    IF len < 7 THEN <<0, NoPdu>>
    ELSE <<7 + b[6], [fc |-> b[1], addr |-> U16Get(b, 2), nb |-> U16Get(b, 4),
                      dlen |-> b[6], data |-> Borrow(b, 7, b[6])]>>
WrReqParse(b, len) ==
    IF len < 7 THEN <<0, NoPdu>>
    ELSE <<6 + b[6], [fc |-> b[1], addr |-> U16Get(b, 2), nb |-> U16Get(b, 4),
                      dlen |-> b[6], data |-> Borrow(b, 7, b[6])]>>
WrRspParse(b, len) ==
    IF len < 5 THEN <<0, NoPdu>>
    ELSE <<5, [fc |-> b[1], addr |-> U16Get(b, 2), nb |-> U16Get(b, 4)]>>
MaskWrParse(b, len) ==
    IF len < 7 THEN <<0, NoPdu>>
    ELSE <<7, [fc |-> b[1], addr |-> U16Get(b, 2), val_and |-> U16Get(b, 4),
               val_or |-> U16Get(b, 6)]>>
WrRdReqParse(b, len) ==
    IF len < 11 THEN <<0, NoPdu>>
    ELSE <<10 + b[10], [fc |-> b[1], rd_addr |-> U16Get(b, 2),
                        rd_nb |-> U16Get(b, 4), wr_addr |-> U16Get(b, 6),
                        wr_nb |-> U16Get(b, 8), dlen |-> b[10],
                        data |-> Borrow(b, 11, b[10])]>>

-----------------------------------------------------------------------------
(* The dispatch by function code and direction (lines 378-556).  An       *)
(* unsupported code (0x07, 0x11 and every other) makes nothing (0) and    *)
(* parses to -1.  A read/write-registers response has the read shape.     *)
ReqMake(p) ==
    CASE p.fc \in FcRead     -> RdReqMake(p)
      [] p.fc \in FcWrSingle -> WrSingleMake(p)
      [] p.fc \in FcWrMulti  -> WrReqMake(p)
      [] p.fc = FcMaskWr     -> MaskWrMake(p)
      [] p.fc = FcWrRd       -> WrRdReqMake(p)
      [] OTHER               -> <<>>

ReqParse(b, len) ==
    CASE b[1] \in FcRead     -> RdReqParse(b, len)
      [] b[1] \in FcWrSingle -> WrSingleParse(b, len)
      [] b[1] \in FcWrMulti  -> WrReqParse(b, len)
      [] b[1] = FcMaskWr     -> MaskWrParse(b, len)
      [] b[1] = FcWrRd       -> WrRdReqParse(b, len)
      [] OTHER               -> <<-1, NoPdu>>

RspMake(p) ==
    CASE ExceptChk(p.fc)     -> ExceptMake(p)
      [] p.fc \in FcRead     -> RdRspMake(p)
      [] p.fc \in FcWrSingle -> WrSingleMake(p)
      [] p.fc \in FcWrMulti  -> WrRspMake(p)
      [] p.fc = FcMaskWr     -> MaskWrMake(p)
      [] p.fc = FcWrRd       -> RdRspMake(p)
      [] OTHER               -> <<>>

RspParse(b, len) ==
    CASE ExceptChk(b[1])     -> ExceptParse(b, len)
      [] b[1] \in FcRead     -> RdRspParse(b, len)
      [] b[1] \in FcWrSingle -> WrSingleParse(b, len)
      [] b[1] \in FcWrMulti  -> WrRspParse(b, len)
      [] b[1] = FcMaskWr     -> MaskWrParse(b, len)
      [] b[1] = FcWrRd       -> RdRspParse(b, len)
      [] OTHER               -> <<-1, NoPdu>>

\* modbus_pdu_make / modbus_pdu_parse (lines 530-556): type is "REQ" or "RSP".
PduMake(p, type) == IF type = "REQ" THEN ReqMake(p) ELSE RspMake(p)
PduParse(b, len, type) == IF type = "REQ" THEN ReqParse(b, len) ELSE RspParse(b, len)

====
