---------------------------- MODULE FramingRead ----------------------------
(***************************************************************************)
(* The dual-timeout framing read of the Modbus backend:                    *)
(* modbus_backend_read (src/unnamed/part_004, lines 491-538).               *)
(*                                                                         *)
(* A sender puts the bytes of the frames FrameLens on the serial line; the *)
(* UART driver appends them to its receive buffer rx.  The caller (the     *)
(* slave loop or a master transaction) calls modbus_backend_read in a hot  *)
(* loop; every call polls the non-blocking driver read, sleeps Delay ms    *)
(* between empty polls and returns when the inter-byte timeout (some bytes *)
(* read) or the response timeout (none read) has run out, or when the      *)
(* buffer is full.  Time is discrete (1 ms per Tick).  The port clock     *)
(* modbus_port_get_ms() counts ms modulo 2^ClockBits and tmo_ms is the     *)
(* difference of two readings narrowed to an int of IntBits bits; both    *)
(* widths are scaled down from 32 together (see MCFramingRead).            *)
(* A byte is identified by its frame and its index in the frame; its value *)
(* does not matter to the framing.                                         *)
(***************************************************************************)
EXTENDS Naturals, Sequences, SequencesExt, FiniteSetsExt

CONSTANTS
    ByteTmo,    \* backend->byte_tmo_ms, the inter-byte timeout
    AckTmo,     \* backend->ack_tmo_ms, the response timeout
    Delay,      \* modbus_port_delay_ms(2) after an empty poll
    Latency,    \* how many ms a sleeping reader may be woken late (preemption)
    BufSize,    \* the bufsize argument (MB_BUF_SIZE for the instance buffer)
    FrameLens,  \* the lengths of the frames the sender puts on the line
    SenderGap,  \* largest idle gap (ms) between two bytes of one frame
    FrameGap,   \* smallest idle gap (ms) between two frames
    ClockBits,  \* width of the port clock modbus_port_get_ms()
    IntBits     \* width of int, the type of tmo_ms

ASSUME /\ {ByteTmo, AckTmo, Delay, Latency, BufSize, SenderGap, FrameGap}
            \subseteq Nat
       /\ 0 < ByteTmo /\ ByteTmo <= AckTmo /\ 0 < Delay /\ 0 < FrameGap
       /\ FrameLens \in Seq(Nat \ {0}) /\ 0 < BufSize
       /\ ClockBits \in Nat \ {0} /\ IntBits \in Nat \ {0}

\* The bytes the sender puts on the line, in order: <<frame, index>>.
Schedule ==
    FlattenSeq([f \in DOMAIN FrameLens |-> [j \in 1..FrameLens[f] |-> <<f, j>>]])
Bytes == Range(Schedule)

\* The sender's idle timer is capped at the largest gap it is compared with.
SinceCap == Max({SenderGap, FrameGap})

ClockVals == 0..(2^ClockBits - 1)

\* A value converted to an int of IntBits bits: kept modulo 2^IntBits, as
\* the narrowing of the long long difference on line 520 does.
ToInt(x) ==
    LET m == x % 2^IntBits
    IN IF m >= 2^(IntBits - 1) THEN m - 2^IntBits ELSE m

VARIABLES
    rx,         \* bytes received by the UART driver and not yet read
    sent,       \* number of bytes of Schedule the sender has put on the line
    since,      \* ms since the sender's last byte (capped at SinceCap)
    pc,         \* "idle", "poll" or "sleep": where modbus_backend_read is
    buf,        \* buf[0 .. pos-1]: what the current call has read
    now,        \* the port clock, modbus_port_get_ms()
    told,       \* told_ms: the clock when the read began or last progressed
    sleepLeft,  \* ms left of the current modbus_port_delay_ms
    late,       \* ms the sleeping reader has overslept
    out         \* the non-empty frames modbus_backend_read has returned

vars == <<rx, sent, since, pc, buf, now, told, sleepLeft, late, out>>

TypeOK ==
    /\ rx \in Seq(Bytes)
    /\ sent \in 0..Len(Schedule)
    /\ since \in 0..SinceCap
    /\ pc \in {"idle", "poll", "sleep"}
    /\ buf \in Seq(Bytes) /\ Len(buf) <= BufSize
    /\ now \in ClockVals /\ told \in ClockVals
    /\ sleepLeft \in 0..Delay
    /\ late \in 0..Latency
    /\ out \in Seq(Seq(Bytes))

Init ==
    /\ rx = <<>>
    /\ sent = 0
    /\ since = SinceCap
    /\ pc = "idle"
    /\ buf = <<>>
    /\ now \in ClockVals
    /\ told = 0
    /\ sleepLeft = 0
    /\ late = 0
    /\ out = <<>>

-----------------------------------------------------------------------------
(* The sender.  Within a frame it never stays idle longer than SenderGap;  *)
(* a new frame starts at least FrameGap ms after the previous byte.        *)

MidFrame == 0 < sent /\ sent < Len(Schedule) /\ Schedule[sent + 1][2] > 1

SendByte ==
    /\ sent < Len(Schedule)
    /\ MidFrame \/ since >= FrameGap
    /\ rx' = Append(rx, Schedule[sent + 1])
    /\ sent' = sent + 1
    /\ since' = 0
    /\ UNCHANGED <<pc, buf, now, told, sleepLeft, late, out>>

-----------------------------------------------------------------------------
(* modbus_backend_read.  The argument checks and the hinst/ops checks      *)
(* (lines 493-504) hold for an open backend and are modelled in Backend.   *)

\* Lines 505-506: pos = 0, told_ms = now.
ReadCall ==
    /\ pc = "idle"
    /\ pc' = "poll"
    /\ buf' = <<>>
    /\ told' = now
    /\ UNCHANGED <<rx, now, sent, since, sleepLeft, late, out>>

\* return(pos) (line 537): a call that read something hands back a frame.
Return(b) ==
    /\ pc' = "idle"
    /\ out' = IF b = <<>> THEN out ELSE Append(out, b)

\* A poll that asks the driver for everything it holds, not bufsize - pos.
PollDataUncapped ==
    /\ pc = "poll"
    /\ rx # <<>>
    /\ LET b == buf \o rx
       IN /\ rx' = <<>>
          /\ buf' = b
          /\ told' = now
          /\ IF Len(b) >= BufSize THEN Return(b) ELSE UNCHANGED <<pc, out>>
    /\ UNCHANGED <<now, sent, since, sleepLeft, late>>

\* Lines 509-518: the driver read hands over what it holds, up to
\* bufsize - pos bytes; progress resets told_ms.  The loop then ends when
\* pos = bufsize (line 507).
PollData ==
    /\ pc = "poll"
    /\ rx # <<>>
    /\ LET n == Min({Len(rx), BufSize - Len(buf)})
           b == buf \o SubSeq(rx, 1, n)
       IN /\ rx' = SubSeq(rx, n + 1, Len(rx))
          /\ buf' = b
          /\ told' = now
          /\ IF Len(b) = BufSize THEN Return(b) ELSE UNCHANGED <<pc, out>>
    /\ UNCHANGED <<now, sent, since, sleepLeft, late>>

\* tmo_ms kept as the long long difference, as if it were declared so.
TmoMsWide(n, t) == n - t

\* Line 520: int tmo_ms = mb_port_get_ms() - told_ms; the difference of
\* two clock readings, narrowed to int.
TmoMs(n, t) == ToInt(n - t)

\* Lines 520-534: an empty poll checks the inter-byte timeout once
\* something was read and the response timeout before.
\* The timeout checks with >= in place of >.
TimedOutEq(pos, tmo) == IF pos > 0 THEN tmo >= ByteTmo ELSE tmo >= AckTmo

TimedOut(pos, tmo) == IF pos > 0 THEN tmo > ByteTmo ELSE tmo > AckTmo

PollTimeout ==
    /\ pc = "poll"
    /\ rx = <<>>
    /\ TimedOut(Len(buf), TmoMs(now, told))
    /\ Return(buf)
    /\ UNCHANGED <<rx, sent, since, buf, now, told, sleepLeft, late>>

\* An empty poll that also resets told_ms.
PollSleepReset ==
    /\ pc = "poll"
    /\ rx = <<>>
    /\ ~TimedOut(Len(buf), TmoMs(now, told))
    /\ pc' = "sleep"
    /\ sleepLeft' = Delay
    /\ late' = 0
    /\ told' = now
    /\ UNCHANGED <<rx, now, sent, since, buf, out>>

\* Line 535: no timeout yet, sleep.
PollSleep ==
    /\ pc = "poll"
    /\ rx = <<>>
    /\ ~TimedOut(Len(buf), TmoMs(now, told))
    /\ pc' = "sleep"
    /\ sleepLeft' = Delay
    /\ late' = 0
    /\ UNCHANGED <<rx, sent, since, buf, now, told, out>>

Wake ==
    /\ pc = "sleep"
    /\ sleepLeft = 0
    /\ pc' = "poll"
    /\ UNCHANGED <<rx, sent, since, buf, now, told, sleepLeft, late, out>>

-----------------------------------------------------------------------------
(* One millisecond passes.  A poll takes no time and the caller calls      *)
(* again at once; a sleeping reader wakes on time or up to Latency ms      *)
(* late; the sender cannot stay idle past SenderGap inside a frame.        *)

Tick ==
    /\ pc = "sleep"
    /\ sleepLeft > 0 \/ late < Latency
    /\ ~(MidFrame /\ since >= SenderGap)
    /\ now' = (now + 1) % 2^ClockBits
    /\ since' = Min({since + 1, SinceCap})
    /\ sleepLeft' = IF sleepLeft > 0 THEN sleepLeft - 1 ELSE 0
    /\ late' = IF sleepLeft > 0 THEN late ELSE late + 1
    /\ UNCHANGED <<rx, sent, pc, buf, told, out>>

Next ==
    \/ SendByte
    \/ ReadCall
    \/ PollData
    \/ PollTimeout
    \/ PollSleep
    \/ Wake
    \/ Tick

Spec == Init /\ [][Next]_vars

\* Time always advances, the UART shifts out the rest of a frame it has
\* started, and the caller's thread is never starved for ever.
ReadStep == ReadCall \/ PollData \/ PollTimeout \/ PollSleep \/ Wake

FairSpec ==
    /\ Spec
    /\ WF_vars(SendByte)
    /\ WF_vars(ReadStep)
    /\ WF_vars(Tick)

-----------------------------------------------------------------------------
(* Properties.                                                             *)

\* The frames a returned chunk holds bytes of.
FramesIn(c) == {c[i][1] : i \in DOMAIN c}

\* Every returned chunk holds bytes of one frame only: the silence the
\* sender keeps between frames is long enough for the reader's inter-byte
\* timeout to end the chunk before the next frame's first byte arrives.
NoMerge ==
    \A i \in DOMAIN out : FramesIn(out[i]) = {} \/ \E f \in FramesIn(out[i]) : FramesIn(out[i]) = {f}

\* Every call of modbus_backend_read returns: once the bytes stop coming
\* the timeouts end the loop (told_ms is reset only on progress).
ReadReturns == (pc # "idle") ~> (pc = "idle")


\* The chunks the line carries, as the buffer cuts them: each frame whole,
\* a frame longer than BufSize in pieces of BufSize bytes and a rest.
Pieces(f) ==
    LET n == FrameLens[f]
        k == (n + BufSize - 1) \div BufSize
    IN [c \in 1..k |->
          [j \in 1..(Min({c * BufSize, n}) - (c - 1) * BufSize) |->
             <<f, (c - 1) * BufSize + j>>]]
FrameChunks == FlattenSeq([f \in DOMAIN FrameLens |-> Pieces(f)])

Channel == INSTANCE FrameChannel WITH Chunks <- FrameChunks, delivered <- out

\* modbus_backend_read implements the frame channel: the chunks its calls
\* return are the frames on the line, each whole (a frame that fits the
\* buffer is never cut by the inter-byte timeout check of lines 521-526,
\* however the 2 ms sleeps and late wake-ups fall against the bytes), none
\* joined to the next, in order, none lost, and all of them eventually.
ChannelRefined == Channel!Spec

====
