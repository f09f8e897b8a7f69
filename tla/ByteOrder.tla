----------------------------- MODULE ByteOrder -----------------------------
(***************************************************************************)
(* The byte order and bitmap helpers of                                    *)
(* src/.../Modbus/Src/modbus_byte_order_convert.c.  A put returns the     *)
(* bytes it stores at buf (its return value is their number, Len of the   *)
(* result); a get reads the bytes of b from position i.  A byte is a      *)
(* natural below 256; a C store into a uint8_t keeps the low 8 bits.      *)
(* A bitmap is a function from byte indexes 0.. to bytes.                 *)
(***************************************************************************)
EXTENDS Integers, Sequences

\* modbus_cvt_u8_put / modbus_cvt_u8_get (lines 32-61).
U8Put(v) == <<v % 256>>
U8Get(b, i) == b[i]

\* A put that stores the low byte without truncating the value to 8 bits.
U16PutWide(v) == <<v \div 256, v>>

\* modbus_cvt_u16_put / modbus_cvt_u16_get (lines 86-119): big-endian.
U16Put(v) == <<(v \div 2^8) % 256, v % 256>>
U16Get(b, i) == b[i] * 2^8 + b[i + 1]

\* TLC's integers end at 2^31 - 1: a uint32_t is held as its two 16-bit
\* halves, val = hi * 2^16 + lo.
\* A put in host (little-endian) order: the bytes of val as memory holds them.
U32PutHost(v) == <<v.lo % 2^8, v.lo \div 2^8, v.hi % 2^8, v.hi \div 2^8>>

\* modbus_cvt_u32_put / modbus_cvt_u32_get (lines 134-164): val >> 24,
\* val >> 16, val >> 8 and val, each stored into a uint8_t.
U32Put(v) == <<v.hi \div 2^8, v.hi % 2^8, v.lo \div 2^8, v.lo % 2^8>>
U32Get(b, i) == [hi |-> b[i] * 2^8 + b[i + 1], lo |-> b[i + 2] * 2^8 + b[i + 3]]

\* A float is its IEEE 754 single fields; *(uint32_t *)&fval reads them as
\* the 32-bit pattern sign | exponent | fraction, and the get writes a
\* pattern back through a uint32_t pointer into the float.
F32Bits(f) == [hi |-> f.sign * 2^15 + f.exp * 2^7 + f.frac \div 2^16,
               lo |-> f.frac % 2^16]
AsF32(u) ==
    [sign |-> u.hi \div 2^15, exp |-> (u.hi \div 2^7) % 2^8,
     frac |-> (u.hi % 2^7) * 2^16 + u.lo]

\* modbus_cvt_f32_put / modbus_cvt_f32_get (lines 180-199).
F32Put(f) == U32Put(F32Bits(f))
F32Get(b, i) == AsF32(U32Get(b, i))

\* 1 << (idx % 8): bits are packed least significant first.
BitMask(idx) == 2^(idx % 8)

\* x & m, x | m and x & ~m for a one-bit mask m, on a byte x.
AndBit(x, m) == IF (x \div m) % 2 = 1 THEN m ELSE 0
OrBit(x, m) == IF AndBit(x, m) # 0 THEN x ELSE x + m
ClearBit(x, m) == IF AndBit(x, m) # 0 THEN x - m ELSE x

\* modbus_bitmap_get (lines 212-215).
BitmapGet(pbits, idx) == IF AndBit(pbits[idx \div 8], BitMask(idx)) # 0 THEN 1 ELSE 0

\* A set that adds the mask instead of or-ing it in.
BitmapSetAdd(pbits, idx, bit) ==
    [pbits EXCEPT ![idx \div 8] = IF bit # 0 THEN @ + BitMask(idx)
                                            ELSE ClearBit(@, BitMask(idx))]

\* A clear that ands with the mask itself, not with its complement.
BitmapSetNoInvert(pbits, idx, bit) ==
    [pbits EXCEPT ![idx \div 8] = IF bit # 0 THEN OrBit(@, BitMask(idx))
                                            ELSE AndBit(@, BitMask(idx))]

\* modbus_bitmap_set (lines 225-235).  ~(1 << k) is an int whose low byte
\* is 255 - 2^k; and-ing the promoted byte with it and storing the result
\* back clears bit k alone.
BitmapSet(pbits, idx, bit) ==
    [pbits EXCEPT ![idx \div 8] = IF bit # 0 THEN OrBit(@, BitMask(idx))
                                            ELSE ClearBit(@, BitMask(idx))]

====
