------------------------------ MODULE MbapFrame -----------------------------
(***************************************************************************)
(* The Modbus TCP frame: the MBAP header (transaction id, protocol id 0,   *)
(* length, unit id) before the PDU.  The TCP frame code is not under       *)
(* src/; make and parse follow spec section 4.4, the PDU codec is          *)
(* modbus_pdu.c (PduCodec).                                                *)
(***************************************************************************)
EXTENDS PduCodec

\* The header is 7 bytes; a frame holds at least a function code more.
MbapHdrLen == 7
TcpFrmMin == MbapHdrLen + 1

\* A frame the receiver could not use.
NoMbap == [saddr |-> -1, tsid |-> -1, pdu |-> NoPdu]

\* Make: transaction id, protocol id 0, length = unit id + PDU, unit id
\* (the instance's slave address), PDU.
MbapMake(tsid, unit, p, type) ==
    LET pdu == PduMake(p, type)
    IN U16Put(tsid) \o U16Put(0) \o U16Put(1 + Len(pdu)) \o <<unit>> \o pdu

\* Parse: <<return value, frame>>.  At least 8 bytes, protocol id 0 and a
\* declared length equal to the bytes after the length field; the PDU is
\* parsed over the declared region, with the PDU codec's error convention.
MbapParse(b, type) ==
    IF Len(b) < TcpFrmMin \/ U16Get(b, 3) # 0 \/ U16Get(b, 5) # Len(b) - 6
    THEN <<0, NoMbap>>
    ELSE LET r == PduParse(SubSeq(b, 8, Len(b)), Len(b) - MbapHdrLen, type)
         IN IF r[1] <= 0 THEN <<r[1], NoMbap>>
            ELSE <<r[1], [saddr |-> b[7], tsid |-> U16Get(b, 1), pdu |-> r[2]]>>

====
