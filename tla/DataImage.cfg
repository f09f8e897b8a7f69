\* Nine coils in two bytes (index 8 falls in the second byte, seven padding
\* bits of heap garbage follow) and three registers, so that a 32-bit put
\* has a neighbour on either side.
CONSTANTS
    NCoilBytes = 2
    NCoils = 9
    NRegs = 3
    U16s <- MCU16s
    U32s <- MCU32s
    F32s <- MCF32s
    BitArgs <- MCBitArgs
    HeapBytes <- MCHeapBytes
SPECIFICATION Spec
INVARIANT TypeOK
PROPERTY StoreRefined
