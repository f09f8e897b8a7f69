----------------------------- MODULE DataStore -----------------------------
(***************************************************************************)
(* The Modbus data model an engine packs into a PDU payload (spec sections *)
(* 4.1 and 8): a vector of bits, least significant first, of which the    *)
(* first Writable are in use and the rest are padding; and a run of 16-bit *)
(* registers, a 32-bit value taking two of them high word first and a     *)
(* float its IEEE 754 pattern (sign, 8 exponent bits, 23 fraction bits).  *)
(***************************************************************************)
EXTENDS Integers, Sequences

CONSTANTS
    NBits,     \* the bits of the packed vector, padding included
    Writable,  \* the bit indexes in use
    NRegs,     \* the registers
    U16s,      \* the 16-bit values a caller writes
    U32s,      \* the 32-bit values a caller writes, as [hi, lo]
    F32s       \* the floats a caller writes, as [sign, exp, frac]

VARIABLES bits, regs

\* The w bits of n, most significant first, and the number a bit string
\* spells (a recursive function: its argument is evaluated once).
BitsOf(n, w) == [i \in 1..w |-> (n \div 2^(w - i)) % 2]
ValueOf(s) ==
    LET v[j \in 0..Len(s)] == IF j = 0 THEN 0 ELSE 2 * v[j - 1] + s[j]
    IN v[Len(s)]

\* The 32 bits of a float: sign, exponent, fraction.
Pattern(f) == <<f.sign>> \o BitsOf(f.exp, 8) \o BitsOf(f.frac, 23)

\* The 32-bit value (as its halves) and the float registers k, k + 1 hold.
DWordAt(k) == [hi |-> regs[k], lo |-> regs[k + 1]]
FloatAt(k) ==
    LET p == BitsOf(regs[k], 16) \o BitsOf(regs[k + 1], 16)
    IN [sign |-> p[1], exp |-> ValueOf(SubSeq(p, 2, 9)),
        frac |-> ValueOf(SubSeq(p, 10, 32))]

WriteBit(i, b) == bits' = [bits EXCEPT ![i] = b] /\ UNCHANGED regs
WriteReg(k, v) == regs' = [regs EXCEPT ![k] = v] /\ UNCHANGED bits
WriteDWord(k, u) ==
    /\ regs' = [regs EXCEPT ![k] = u.hi, ![k + 1] = u.lo]
    /\ UNCHANGED bits
WriteFloat(k, f) ==
    /\ regs' = [regs EXCEPT ![k] = ValueOf(SubSeq(Pattern(f), 1, 16)),
                            ![k + 1] = ValueOf(SubSeq(Pattern(f), 17, 32))]
    /\ UNCHANGED bits

Next ==
    \/ \E i \in Writable, b \in {0, 1} : WriteBit(i, b)
    \/ \E k \in 0..NRegs - 1, v \in U16s : WriteReg(k, v)
    \/ \E k \in 0..NRegs - 2, u \in U32s : WriteDWord(k, u)
    \/ \E k \in 0..NRegs - 2, f \in F32s : WriteFloat(k, f)

Spec ==
    /\ bits \in [0..NBits - 1 -> {0, 1}]
    /\ regs \in [0..NRegs - 1 -> 0..2^16 - 1]
    /\ [][Next]_<<bits, regs>>

====
