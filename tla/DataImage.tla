----------------------------- MODULE DataImage -----------------------------
(***************************************************************************)
(* A payload area written and read through the converters of               *)
(* modbus_byte_order_convert.c: a packed bit vector (the payload of a read- *)
(* coils response or a write-multiple-coils request) set bit by bit with   *)
(* modbus_bitmap_set, and a register area filled with the u16, u32 and f32 *)
(* puts.  The area is the instance's datas[] (modbus_instance.h line 70),  *)
(* which modbus_create mallocs and never clears: it starts with whatever   *)
(* bytes the heap held.                                                    *)
(***************************************************************************)
EXTENDS ByteOrder

CONSTANTS
    NCoilBytes,  \* bytes of the packed bit vector
    NCoils,      \* bits in use: ceil(NCoils / 8) = NCoilBytes
    NRegs,       \* 16-bit registers of the register area
    U16s, U32s, F32s,  \* values the caller writes
    BitArgs,     \* values passed as modbus_bitmap_set's uint8_t bit
    HeapBytes    \* byte values malloc may leave in datas[]

ASSUME NCoilBytes = (NCoils + 7) \div 8 /\ 2 <= NRegs

VARIABLES
    coils,  \* the bit vector's bytes, indexed from 0
    words   \* the register area's bytes, in order

vars == <<coils, words>>

TypeOK ==
    /\ coils \in [0..NCoilBytes - 1 -> 0..255]
    /\ words \in [1..2 * NRegs -> 0..255]

Init ==
    /\ coils \in [0..NCoilBytes - 1 -> HeapBytes]
    /\ words \in [1..2 * NRegs -> HeapBytes]

\* p += put(p, val): the bytes s stored from position i on.
Poke(b, i, s) == [j \in DOMAIN b |-> IF i <= j /\ j < i + Len(s) THEN s[j - i + 1] ELSE b[j]]

\* The puts of a value into register k (a 32-bit value into k and k + 1).
PutU16(k, v) == words' = Poke(words, 2 * k + 1, U16Put(v)) /\ UNCHANGED coils
PutU32(k, v) == words' = Poke(words, 2 * k + 1, U32Put(v)) /\ UNCHANGED coils
PutF32(k, f) == words' = Poke(words, 2 * k + 1, F32Put(f)) /\ UNCHANGED coils

\* modbus_bitmap_set of bit i.
SetBit(i, b) == coils' = BitmapSet(coils, i, b) /\ UNCHANGED words

Next ==
    \/ \E i \in 0..NCoils - 1, b \in BitArgs : SetBit(i, b)
    \/ \E k \in 0..NRegs - 1, v \in U16s : PutU16(k, v)
    \/ \E k \in 0..NRegs - 2, v \in U32s : PutU32(k, v)
    \/ \E k \in 0..NRegs - 2, f \in F32s : PutF32(k, f)

Spec == Init /\ [][Next]_vars

-----------------------------------------------------------------------------
(* Properties.                                                             *)

Store == INSTANCE DataStore WITH
            NBits <- 8 * NCoilBytes,
            Writable <- 0..NCoils - 1,
            bits <- [i \in 0..8 * NCoilBytes - 1 |-> BitmapGet(coils, i)],
            regs <- [k \in 0..NRegs - 1 |-> U16Get(words, 2 * k + 1)]

\* The converters implement the data model: every modbus_bitmap_set
\* changes the one bit it names and no other bit, padding bits included
\* (whatever the heap left there), and every put writes its value big-endian
\* into exactly its registers, a u32 or a float high word first, without
\* touching the neighbouring register.
StoreRefined == Store!Spec

====
