------------------------------ MODULE RtuFrame ------------------------------
(***************************************************************************)
(* The Modbus RTU frame (src/.../Modbus/Src/modbus_rtu.c): slave address, *)
(* PDU, CRC-16 low byte first.  The CRC (modbus_crc_cal) and the size      *)
(* constants (modbus_pdu.h, modbus_rtu.h) are not under src/ and follow   *)
(* spec sections 3 and 4.2.                                               *)
(***************************************************************************)
EXTENDS PduCodec

\* MB_PDU_SIZE_MIN and MB_RTU_FRM_MIN: a frame has at least 4 bytes.
PduSizeMin == 1
RtuFrmMin == 1 + 2 + PduSizeMin

\* CRC-16/Modbus: seed 0xFFFF, each byte XORed into the low byte, then 8
\* right shifts, XORing 0xA001 whenever a 1 is shifted out.  The XORs are
\* written arithmetically: of two bytes bit by bit, and of u < 2^15 with
\* 0xA001 by correcting the bits 0 and 13 the two have in common.
ByteXor(a, b) == SumSet({2^k * (((a \div 2^k) + (b \div 2^k)) % 2) : k \in 0..7})
XorPoly(u) == u + 40961 - 2 * ((u % 2) + 8192 * ((u \div 8192) % 2))
CrcShift(v) == IF v % 2 = 1 THEN XorPoly(v \div 2) ELSE v \div 2
CrcShiftF == [v \in Nat |-> CrcShift(v)]
CrcByte(acc, byte) ==
    LET shifted[k \in 0..8] ==
          IF k = 0 THEN acc - (acc % 256) + ByteXor(acc % 256, byte)
                   ELSE CrcShiftF[shifted[k - 1]]
    IN shifted[8]
\* One byte of the fold, as a function so that TLC applies it to values.
CrcStep == [pr \in Nat \X Nat |-> CrcByte(pr[1], pr[2])]
CrcCal(s) ==
    LET crc[n \in 0..Len(s)] ==
          IF n = 0 THEN 65535 ELSE CrcStep[<<crc[n - 1], s[n]>>]
    IN crc[Len(s)]

\* A frame the receiver could not use.
NoFrm == [saddr |-> -1, pdu |-> NoPdu]

\* modbus_rtu_frame_make (lines 36-45).
\* The CRC appended high byte first.
CrcAppendHiFirst(body) == body \o <<CrcCal(body) \div 256, CrcCal(body) % 256>>

\* The CRC appended low byte first (lines 41-43).
CrcAppend(body) == body \o <<CrcCal(body) % 256, CrcCal(body) \div 256>>

RtuFrameMake(saddr, p, type) == CrcAppend(<<saddr>> \o PduMake(p, type))

\* A frame parse without the CRC check.
RtuFrameParseNoCrc(b, type) ==
    IF Len(b) < RtuFrmMin THEN <<0, NoFrm>>
    ELSE
      LET remain == Len(b) - 3
          r == PduParse(Tail(b), remain, type)
      IN IF r[1] <= 0 THEN <<r[1], NoFrm>>
         ELSE IF remain < r[1] THEN <<0, NoFrm>>
         ELSE <<r[1], [saddr |-> b[1], pdu |-> r[2]]>>

\* modbus_rtu_frame_parse (lines 68-96): <<return value, frame>>.  The PDU
\* is parsed over the bytes after the address, with len = the received
\* length less address and CRC; the CRC is checked over the PDU the parse
\* found, plus address and CRC.
RtuFrameParse(b, type) ==
    IF Len(b) < RtuFrmMin THEN <<0, NoFrm>>
    ELSE
      LET remain == Len(b) - 3
          r == PduParse(Tail(b), remain, type)
      IN IF r[1] <= 0 THEN <<r[1], NoFrm>>
         ELSE IF remain < r[1] THEN <<0, NoFrm>>
         ELSE IF CrcCal(SubSeq(b, 1, r[1] + 3)) # 0 THEN <<0, NoFrm>>
         ELSE <<r[1], [saddr |-> b[1], pdu |-> r[2]]>>

====
