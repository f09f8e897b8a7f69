------------------------------ MODULE Exchange ------------------------------
(***************************************************************************)
(* A master and a slave on one RS-485 line.  The master engine (spec      *)
(* section 4.6) flushes its transport, makes a request frame with         *)
(* modbus_rtu_frame_make, writes it and reads the reply with              *)
(* modbus_backend_read, which returns 0 once ack_tmo_ms passes with        *)
(* nothing read; it parses the reply with modbus_rtu_frame_parse and      *)
(* checks the echoed function code, address and value.  The slave engine  *)
(* (section 4.7) parses each request, serves it from its holding          *)
(* registers and writes its response after a turnaround time.  Broadcast  *)
(* requests (address 0) are served without a response and the master      *)
(* does not wait for one.  Frames are whole: FramingRead shows the read    *)
(* hands over whole frames when the sender's gaps allow it.  Time moves in *)
(* ticks of the read's 2 ms poll; a step that is due happens before time   *)
(* moves on.  Each frame carries, as a ghost, the number of the call it   *)
(* belongs to; no byte of it does.                                         *)
(*                                                                         *)
(* The master's mb_inst_t holds the slave address the calls go to (set by  *)
(* modbus_set_slave_addr between calls), its protocol (set by             *)
(* modbus_set_prototype) and the TCP transaction id tsid.  The slave, and *)
(* the backend, speak the protocol Prot: RTU frames, or MBAP frames whose *)
(* transaction id the master advances per request and the slave echoes.   *)
(***************************************************************************)
EXTENDS RtuFrame, MbapFrame, SequencesExt

CONSTANTS
    Prot,       \* "RTU" or "TCP": the slave's protocol and the backend's
    Prots,      \* the protocols the application sets with modbus_set_prototype
    SlaveAddr,  \* the slave's address
    Addrs,      \* the addresses the application sets with modbus_set_slave_addr
    TsidInit,   \* the master's tsid before the first call modelled
    Regs,       \* the slave's holding registers at start: address -> value
    Calls,      \* the calls the master may make: [fc, addr, nb, vals]
    HoldStatus, \* what write_hold returns for an address it has: 0 or a failure
    AckTmo,     \* the master's ack_tmo_ms, in ticks
    MaxDelay,   \* the slave's longest turnaround, in ticks
    MaxCalls,   \* how many calls the master makes
    MaxFaults   \* how many frames the line may lose or garble

VARIABLES
    saddr,    \* the master's hinst->saddr
    prot,     \* the master's hinst->prototype
    tsid,     \* the master's hinst->tsid
    mpc,      \* the master: "idle" or "wait" (inside modbus_backend_read)
    call,     \* the call in progress, with its number id
    timer,    \* ticks since the read began (tmo_ms)
    mrx,      \* frames in the master's driver buffer: [b, id]
    srx,      \* frames in the slave's driver buffer
    spc,      \* the slave: "idle" or "busy" serving a request
    sout,     \* the response the slave will write: <<>> or <<[b, id]>>
    sdelay,   \* ticks until the slave writes it
    regs,     \* the slave's holding registers
    answers,  \* ghost: call number -> [ret, vals] the slave answered
    results,  \* ghost: what each master call returned: [to, ret, vals, by]
    faults

vars == <<saddr, prot, tsid, mpc, call, timer, mrx, srx, spc, sout, sdelay, regs, answers,
          results, faults>>

NoAnswer == [ret |-> 0, vals |-> <<>>]

\* MB_RTU_ADDR_DEF (modbus_config.h): the address modbus_create sets.
AddrDef == 1

TypeOK ==
    /\ saddr \in Addrs \cup {AddrDef} /\ prot \in Prots \cup {Prot}
    /\ tsid \in 0..65535
    /\ mpc \in {"idle", "wait"} /\ spc \in {"idle", "busy"}
    /\ timer \in 0..AckTmo + 1 /\ sdelay \in 0..MaxDelay
    /\ \A m \in Range(mrx) \cup Range(srx) \cup Range(sout) :
          m.b \in Seq(0..255) /\ m.id \in 1..MaxCalls
    /\ regs \in [DOMAIN Regs -> 0..65535]
    /\ Len(results) <= MaxCalls /\ faults <= MaxFaults

\* modbus_create's defaults for the master's instance: MB_RTU_ADDR_DEF,
\* the protocol of its backend's type, and tsid 0 (TsidInit may also hold the tsid of an instance used before).
InstInit ==
    /\ saddr = AddrDef
    /\ prot = Prot
    /\ tsid \in TsidInit

Init ==
    /\ InstInit
    /\ mpc = "idle" /\ spc = "idle"
    /\ call = [saddr |-> 0, tsid |-> 0, fc |-> 0, addr |-> 0, nb |-> 0, vals |-> <<>>,
              id |-> 0]
    /\ timer = 0 /\ sdelay = 0
    /\ mrx = <<>> /\ srx = <<>> /\ sout = <<>>
    /\ regs = Regs
    /\ answers = [n \in 1..MaxCalls |-> NoAnswer]
    /\ results = <<>>
    /\ faults = 0

\* Registers as big-endian bytes in a payload, and back.
RegBytes(vs) == FlattenSeq([k \in DOMAIN vs |-> U16Put(vs[k])])
RegVals(d) == [k \in 1..(Len(d) \div 2) |-> U16Get(d, 2 * k - 1)]

\* The request PDU of a call: mb_read_regs (0x03), mb_write_reg (0x06) or
\* mb_write_regs (0x10, byte count 2 * nb).
ReqPdu(c) ==
    CASE c.fc = 3 -> [fc |-> 3, addr |-> c.addr, nb |-> c.nb]
      [] c.fc = 6 -> [fc |-> 6, addr |-> c.addr, val |-> c.vals[1]]
      [] OTHER    -> [fc |-> 16, addr |-> c.addr, nb |-> c.nb, dlen |-> 2 * c.nb,
                      data |-> RegBytes(c.vals)]

\* modbus_flush: the driver's receive buffer is emptied.
Flush == mrx' = <<>>

\* The frame of either protocol and its parse, <<ret, frame>>.  Only an
\* MBAP frame carries a transaction id (FrameTsid).
FrameMake(pr, a, t, p, type) ==
    IF pr = "RTU" THEN RtuFrameMake(a, p, type) ELSE MbapMake(t, a, p, type)
FrameParse(pr, b, type) ==
    IF pr = "TCP" THEN MbapParse(b, type) ELSE RtuFrameParse(b, type)
FrameTsid(pr, frm) == IF pr = "TCP" THEN frm.tsid ELSE 0

\* The transaction id of the next request: the same one again, one past
\* it without the 16-bit wrap, and the 16-bit id advanced, wrapping.
TsidSame(t) == t
TsidNext(t) == (t + 1) % 65536

\* modbus_set_slave_addr (modbus_instance.c 174-179), between two calls.
SetSlaveAddr(a) ==
    /\ mpc = "idle"
    /\ saddr' = a
    /\ UNCHANGED <<prot, tsid, call, mpc, timer, mrx, srx, spc, sout, sdelay, regs,
                   answers, results, faults>>

\* modbus_set_prototype (modbus_instance.c 202-207), between two calls.
SetPrototype(pr) ==
    /\ mpc = "idle"
    /\ prot' = pr
    /\ UNCHANGED <<saddr, tsid, call, mpc, timer, mrx, srx, spc, sout, sdelay, regs,
                   answers, results, faults>>

\* The application broadcasts only writes: Modbus has no broadcast read.
AppCall(c) == saddr = 0 => c.fc \in {6, 16}

\* A call to hinst->saddr: flush, make the frame (a TCP request with the
\* next transaction id), write it; an RTU broadcast returns 1 at once.
MasterCall(c) ==
    /\ mpc = "idle"
    /\ Len(results) < MaxCalls
    /\ LET id == Len(results) + 1
           t == IF prot = "TCP" THEN TsidNext(tsid) ELSE tsid
       IN /\ Flush
          /\ tsid' = t
          /\ srx' = Append(srx, [b |-> FrameMake(prot, saddr, t, ReqPdu(c), "REQ"), id |-> id])
          /\ call' = [saddr |-> saddr, tsid |-> t, fc |-> c.fc, addr |-> c.addr,
                      nb |-> c.nb, vals |-> c.vals, id |-> id]
          /\ timer' = 0
          /\ IF saddr = 0 /\ prot = "RTU"
                THEN /\ results' = Append(results, [to |-> 0, ret |-> 1, vals |-> <<>>, by |-> id])
                     /\ mpc' = "idle"
                ELSE /\ mpc' = "wait"
                     /\ UNCHANGED results
    /\ UNCHANGED <<saddr, prot, spc, sout, sdelay, regs, answers, faults>>

\* The master's checks of a parsed reply r to call c: what the call returns,
\* the count of registers read or written, or 1 for a single write.
Verdict(r, c) ==
    LET p == r[2].pdu
    IN CASE r[1] <= 0 \/ r[2].saddr # c.saddr        -> 0
         [] prot = "TCP" /\ r[2].tsid # c.tsid        -> 0
         [] p.fc = c.fc + 128                        -> -p.ec
         [] p.fc # c.fc                              -> 0
         [] c.fc = 3     -> IF p.dlen = 2 * c.nb THEN c.nb ELSE 0
         [] c.fc = 6     -> IF p.addr = c.addr /\ p.val = c.vals[1] THEN 1 ELSE 0
         [] OTHER        -> IF p.addr = c.addr /\ p.nb = c.nb THEN c.nb ELSE 0

\* modbus_backend_read returns the frame that arrived; the master parses it.
MasterRecv ==
    /\ mpc = "wait"
    /\ mrx # <<>>
    /\ \E r \in {FrameParse(prot, Head(mrx).b, "RSP")} :
       LET ret == Verdict(r, call)
           vals == IF ret > 0 /\ call.fc = 3 THEN RegVals(r[2].pdu.data) ELSE <<>>
       IN results' = Append(results, [to |-> call.saddr, ret |-> ret, vals |-> vals,
                                      by |-> Head(mrx).id])
    /\ mrx' = Tail(mrx)
    /\ mpc' = "idle"
    /\ UNCHANGED <<saddr, prot, tsid, call, timer, srx, spc, sout, sdelay, regs, answers, faults>>

\* The response timeout taken at tmo_ms >= ack_tmo_ms, and one taken a
\* poll too late.
AckTimedOutEarly(t) == t >= AckTmo
AckTimedOutLate(t) == t > AckTmo + 1
\* The response timeout: nothing read and tmo_ms > ack_tmo_ms; the call
\* returns 0.
AckTimedOut(t) == t > AckTmo
MasterTimeout ==
    /\ mpc = "wait"
    /\ mrx = <<>>
    /\ AckTimedOut(timer)
    /\ results' = Append(results, [to |-> call.saddr, ret |-> 0, vals |-> <<>>, by |-> 0])
    /\ mpc' = "idle"
    /\ UNCHANGED <<saddr, prot, tsid, call, timer, mrx, srx, spc, sout, sdelay, regs, answers, faults>>

\* The slave's scan of request p (spec section 4.7): a count outside
\* 1..125 (reads) or 1..123 (writes) is exception 3 before any callback;
\* else the callback table (mb_cb_table_t) is called for each address in
\* [addr, addr + nb) in order.  read_hold and write_hold return -2 for an
\* address they do not have, and write_hold may fail with any status of
\* HoldStatus (ws[k] for the k-th address); the first failure ends the
\* scan, and the registers written before it stay written.
PduNb(p) == IF p.fc = 6 THEN 1 ELSE p.nb
PduVals(p) == IF p.fc = 6 THEN <<p.val>> ELSE RegVals(p.data)
ScanAddr(p, k) == p.addr + k - 1
\* A count check whose read range starts at 0.
CountOkZero(p) ==
    CASE p.fc = 3  -> p.nb \in 0..125
      [] p.fc = 16 -> p.nb \in 1..123
      [] OTHER     -> TRUE
CountOk(p) ==
    CASE p.fc = 3  -> p.nb \in 1..125
      [] p.fc = 16 -> p.nb \in 1..123
      [] OTHER     -> TRUE
CbStat(p, ws, k) ==
    CASE ScanAddr(p, k) \notin DOMAIN regs -> -2
      [] p.fc = 3                         -> 0
      [] OTHER                            -> ws[k]
\* <<status, registers written>> of the scan.
Scan(p, ws) ==
    LET st == [k \in 1..PduNb(p) |-> CbStat(p, ws, k)]
        f == SelectInSeq(st, LAMBDA x : x # 0)
    IN CASE ~CountOk(p) -> <<-3, 0>>
         [] f = 0       -> <<0, IF p.fc = 3 THEN 0 ELSE PduNb(p)>>
         [] OTHER       -> <<st[f], IF p.fc = 3 THEN 0 ELSE f - 1>>
\* The registers after the first n writes of p.
ScanWrite(p, n) ==
    [a \in DOMAIN regs |->
        IF a - p.addr \in 0..(n - 1) THEN PduVals(p)[a - p.addr + 1] ELSE regs[a]]

\* The slave's dispatch of a request PDU p with scan status st: the
\* response PDU (a failed callback's status, negated, is the exception
\* code) and the answer the master should report.
ReadVals(p) == [k \in 1..p.nb |-> regs[ScanAddr(p, k)]]
RspPdu(p, st) ==
    CASE st # 0    -> [fc |-> p.fc + 128, ec |-> -st]
      [] p.fc = 3  -> [fc |-> 3, dlen |-> 2 * p.nb, data |-> RegBytes(ReadVals(p))]
      [] p.fc = 16 -> [fc |-> 16, addr |-> p.addr, nb |-> p.nb]
      [] OTHER     -> p
Answer(p, st) ==
    CASE st # 0   -> [ret |-> st, vals |-> <<>>]
      [] p.fc = 3 -> [ret |-> p.nb, vals |-> ReadVals(p)]
      [] OTHER    -> [ret |-> PduNb(p), vals |-> <<>>]

\* The slave's tick: read a frame, drop it if it does not parse, else
\* serve it whatever its address (MB_USING_ADDR_CHK and MB_USING_MBAP_CHK
\* are off in modbus_config.h): dispatch it and prepare the response (none for a broadcast), which it
\* writes after its turnaround time.  (The parse is bound once, as the
\* one element of a set, so that TLC does not redo the CRC for each use.)
SlaveRecv ==
    /\ spc = "idle"
    /\ srx # <<>>
    /\ srx' = Tail(srx)
    /\ LET m == Head(srx) IN
       \E r \in {FrameParse(Prot, m.b, "REQ")} :
       LET p == r[2].pdu
       IN IF r[1] <= 0
          THEN UNCHANGED <<spc, sout, sdelay, regs, answers>>
          ELSE \E ws \in [(IF p.fc = 3 THEN {} ELSE 1..PduNb(p)) -> HoldStatus] :
               LET st == Scan(p, ws)[1]
               IN /\ regs' = ScanWrite(p, Scan(p, ws)[2])
                  /\ answers' = [answers EXCEPT ![m.id] = Answer(p, st)]
                  /\ sout' = IF r[2].saddr = 0 THEN <<>>
                             ELSE <<[b |-> FrameMake(Prot, SlaveAddr, FrameTsid(Prot, r[2]),
                                                     RspPdu(p, st), "RSP"),
                                     id |-> m.id]>>
                  /\ spc' = "busy"
                  /\ sdelay' \in 0..MaxDelay
    /\ UNCHANGED <<saddr, prot, tsid, mpc, call, timer, mrx, results, faults>>

SlaveSend ==
    /\ spc = "busy"
    /\ sdelay = 0
    /\ mrx' = mrx \o sout
    /\ sout' = <<>>
    /\ spc' = "idle"
    /\ UNCHANGED <<saddr, prot, tsid, mpc, call, timer, srx, sdelay, regs, answers, results, faults>>

\* A step that is due happens before time moves on.
Due ==
    \/ spc = "busy" /\ sdelay = 0
    \/ spc = "idle" /\ srx # <<>>
    \/ mpc = "wait" /\ (mrx # <<>> \/ AckTimedOut(timer))

\* One poll interval: modbus_port_delay_ms(2) and the clock it advances.
Tick ==
    /\ ~Due
    /\ mpc = "wait" \/ spc = "busy"
    /\ timer' = IF mpc = "wait" THEN timer + 1 ELSE timer
    /\ sdelay' = IF spc = "busy" THEN sdelay - 1 ELSE sdelay
    /\ UNCHANGED <<saddr, prot, tsid, mpc, call, mrx, srx, spc, sout, regs, answers, results, faults>>

\* The line loses a frame, or noise changes one of its bytes.
Fault(q, q2) ==
    /\ faults < MaxFaults
    /\ faults' = faults + 1
    /\ \/ \E k \in 1..Len(q) : q2' = RemoveAt(q, k)
       \/ \E k \in 1..Len(q), j \in 1..6 :
             q2' = [q EXCEPT ![k].b[j] = (@ + 1) % 256]
LineFault ==
    /\ \/ Fault(srx, srx) /\ UNCHANGED mrx
       \/ Fault(mrx, mrx) /\ UNCHANGED srx
    /\ UNCHANGED <<saddr, prot, tsid, mpc, call, timer, spc, sout, sdelay, regs, answers, results>>

\* The master has made its calls and everything is quiet.
Done ==
    /\ Len(results) = MaxCalls /\ mpc = "idle" /\ spc = "idle" /\ srx = <<>>
    /\ UNCHANGED vars

Next ==
    \/ \E a \in Addrs : SetSlaveAddr(a)
    \/ \E pr \in Prots : SetPrototype(pr)
    \/ \E c \in Calls : AppCall(c) /\ MasterCall(c)
    \/ MasterRecv \/ MasterTimeout \/ SlaveRecv \/ SlaveSend \/ Tick
    \/ LineFault \/ Done

Spec == Init /\ [][Next]_vars

-----------------------------------------------------------------------------
(* Properties.                                                             *)

\* Spec section 5: responses are matched to their immediately preceding
\* request.  Every addressed call that returns a value or an exception
\* returns the slave's answer to that very call, never the answer to an
\* earlier one left on the line by a call that timed out.
CallResult ==
    \A n \in 1..Len(results) :
        results[n].to # 0 /\ results[n].ret # 0 =>
            /\ results[n].by = n
            /\ answers[n] = [ret |-> results[n].ret, vals |-> results[n].vals]

\* The header's contract (modbus_instance.h 95-121): a call returns 0 only
\* for a transport or framing error.  A call that reads the slave's own
\* reply to it returns the count, 1 or the exception, never the 0 of a
\* timeout: the slave's count check (exception 3 for a zero count) and the
\* master's echo checks must agree on every reply the slave sends.  (Over
\* a line with no faults, for calls to the slave's own address: a garbled
\* reply, or one carrying an address other than the call's, rightly
\* returns 0.)
ReplyReported ==
    \A n \in 1..Len(results) :
        results[n].by = n /\ results[n].to = SlaveAddr => results[n].ret # 0

====
