----------------------------- MODULE MCDataImage -----------------------------
(* Bounds for checking DataImage with TLC: nine coils, so that one index  *)
(* crosses into the second byte and seven padding bits follow; three      *)
(* registers, so that a 32-bit put has a neighbour on either side; one    *)
(* value of each kind whose bytes all differ; heap garbage with mixed     *)
(* bits.                                                                  *)
EXTENDS DataImage

MCU16s == {4660}                         \* 0x1234
\* 0x12345678, as its 16-bit halves.
MCU32s == {[hi |-> 4660, lo |-> 22136]}
\* -3.0: sign, exponent and fraction all non-zero.
MCF32s == {[sign |-> 1, exp |-> 128, frac |-> 4194304]}
\* if (bit): any non-zero byte sets.
MCBitArgs == {0, 1, 2}
\* 0xA5: heap garbage with set and clear bits in every nibble.
MCHeapBytes == {165}
====
