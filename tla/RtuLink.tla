------------------------------ MODULE RtuLink ------------------------------
(***************************************************************************)
(* One RTU frame on its way from a sender to a receiver: the sender makes *)
(* it (modbus_rtu_frame_make over modbus_pdu_make), the RS-485 line may   *)
(* damage it, and the receiver parses what modbus_backend_read handed it  *)
(* (modbus_rtu_frame_parse over modbus_pdu_parse).  The line's faults are *)
(* the ones the framing read lets through: a byte changed by noise, a     *)
(* byte lost, noise after the frame, and a second frame that followed too *)
(* closely to be cut off (FramingRead's merge).                           *)
(***************************************************************************)
EXTENDS RtuFrame, FiniteSets

CONSTANTS
    Addrs,      \* slave addresses
    ReqPdus,    \* request PDUs a master may make (some unsupported)
    RspPdus,    \* response PDUs a slave may make (some unsupported)
    Noise,      \* byte values line noise may leave after a frame
    MaxFaults   \* how many faults the line may inflict on one frame

Type == {"REQ", "RSP"}
PdusOf(t) == IF t = "REQ" THEN ReqPdus ELSE RspPdus

\* The values a noise burst may turn byte x into.
Garbled(x) == {(x + 1) % 256, 255 - x}

VARIABLES
    phase,   \* "make", "line" or "done"
    sent,    \* what the sender made: [saddr, pdu, type]
    wire,    \* the bytes on the line, as the receiver will get them
    faults,  \* the faults the line has inflicted
    result   \* modbus_rtu_frame_parse's <<return value, frame>>

vars == <<phase, sent, wire, faults, result>>

TypeOK ==
    /\ phase \in {"make", "line", "done"}
    /\ wire \in Seq(0..255)
    /\ faults \in 0..MaxFaults
    /\ result[1] \in Int

Init ==
    /\ phase = "make"
    /\ sent = [saddr |-> -1, pdu |-> NoPdu, type |-> "REQ"]
    /\ wire = <<>>
    /\ faults = 0
    /\ result = <<0, NoFrm>>

\* The sender builds the frame in its buffer and writes it.
Make(a, p, t) ==
    /\ phase = "make"
    /\ sent' = [saddr |-> a, pdu |-> p, type |-> t]
    /\ wire' = RtuFrameMake(a, p, t)
    /\ phase' = "line"
    /\ UNCHANGED <<faults, result>>

Fault(w) ==
    /\ phase = "line"
    /\ faults < MaxFaults
    /\ wire' = w
    /\ faults' = faults + 1
    /\ UNCHANGED <<phase, sent, result>>

Garble(k) == \E v \in Garbled(wire[k]) : Fault([wire EXCEPT ![k] = v])
Lose(k) == Fault(SubSeq(wire, 1, k - 1) \o SubSeq(wire, k + 1, Len(wire)))
Trail == \E v \in Noise : Fault(Append(wire, v))
Merge == \E a \in Addrs, p \in PdusOf(sent.type) :
            Fault(wire \o RtuFrameMake(a, p, sent.type))

\* The receiver parses what it read, as a request or a response.
Receive ==
    /\ phase = "line"
    /\ result' = RtuFrameParse(wire, sent.type)
    /\ phase' = "done"
    /\ UNCHANGED <<sent, wire, faults>>

Next ==
    \/ \E a \in Addrs, t \in Type, p \in ReqPdus \cup RspPdus :
          p \in PdusOf(t) /\ Make(a, p, t)
    \/ \E k \in 1..Len(wire) : Garble(k) \/ Lose(k)
    \/ Trail
    \/ Merge
    \/ Receive

Spec == Init /\ [][Next]_vars

-----------------------------------------------------------------------------
(* Properties.                                                             *)

\* The codec handles the PDU: modbus_pdu_make wrote something.
Supported == PduMake(sent.pdu, sent.type) # <<>>

\* Whatever the line did to the frame, a frame modbus_rtu_frame_parse
\* accepts carries the address and the PDU the sender made: the length
\* checks of the PDU parsers and the CRC over exactly the parsed frame let
\* no damaged frame through, and no PDU is read across a frame boundary.
Integrity ==
    phase = "done" /\ result[1] > 0 =>
        result[2] = [saddr |-> sent.saddr, pdu |-> sent.pdu]

\* An undamaged frame of a supported PDU is accepted with the PDU length
\* modbus_pdu_make produced and the PDU it was made from (spec section 8:
\* parse(make(p)) = p, and RTU parse returns the exact length make used).
RoundTrip ==
    phase = "done" /\ faults = 0 /\ Supported =>
        result = <<Len(PduMake(sent.pdu, sent.type)),
                   [saddr |-> sent.saddr, pdu |-> sent.pdu]>>

\* Spec section 4.3: a frame is accepted only when its PDU length plus 3
\* equals the received length; anything after the PDU and CRC is refused.
ExactLength ==
    phase = "done" /\ result[1] > 0 => Len(wire) = result[1] + 3

\* What the sender put on the line, before any fault.
Made(a, p, t) ==
    phase # "make" /\ faults = 0 /\ sent = [saddr |-> a, pdu |-> p, type |-> t]

\* The literal RTU scenarios 1 to 3 of spec section 8: the read-holding
\* request and response, the exception response and the write-single-coil
\* request, when made by modbus_rtu_frame_make, are on the line byte for
\* byte as the spec gives them; for scenario 2 the CRC is CRC-16/Modbus of
\* 11 83 02 (C1 34), where the spec prints C0 F1.
SpecVectors ==
    /\ Made(17, [fc |-> 3, addr |-> 107, nb |-> 3], "REQ")
         => wire = <<17, 3, 0, 107, 0, 3, 118, 135>>
    /\ Made(17, [fc |-> 3, dlen |-> 6, data |-> <<174, 65, 86, 82, 67, 64>>], "RSP")
         => wire = <<17, 3, 6, 174, 65, 86, 82, 67, 64, 73, 173>>
    /\ Made(17, [fc |-> 131, ec |-> 2], "RSP") => wire = <<17, 131, 2, 193, 52>>
    /\ Made(17, [fc |-> 5, addr |-> 172, val |-> 65280], "REQ")
         => wire = <<17, 5, 0, 172, 255, 0, 78, 139>>

====
