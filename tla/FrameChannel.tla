---------------------------- MODULE FrameChannel ----------------------------
(***************************************************************************)
(* What the framing read promises its caller (spec section 4.5: "the      *)
(* serial device's idle gap demarcates frames"): the chunks the line       *)
(* carries are handed over one by one, each whole, in the order they were  *)
(* sent, none lost or repeated, and every one of them eventually.          *)
(***************************************************************************)
EXTENDS Naturals, Sequences

CONSTANT Chunks     \* the chunks the line carries, in order

VARIABLE delivered  \* the chunks handed to the caller so far

\* The next chunk is handed over.
Deliver ==
    /\ Len(delivered) < Len(Chunks)
    /\ delivered' = Append(delivered, Chunks[Len(delivered) + 1])

Spec == delivered = <<>> /\ [][Deliver]_delivered /\ WF_delivered(Deliver)

====
