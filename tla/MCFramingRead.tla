--------------------------- MODULE MCFramingRead ---------------------------
(* Bounds for checking FramingRead with TLC.  The timeouts are scaled down *)
(* from the defaults (300 ms / 32 ms) keeping their order: the poll delay  *)
(* of 2 ms is the code's, the inter-byte timeout is a few polls long and   *)
(* the response timeout longer than it.                                    *)
EXTENDS FramingRead

MCByteTmo == 3
MCAckTmo == 5
MCDelay == 2
MCLatency == 1
MCBufSize == 3
\* A short frame, then one longer than the buffer (noise, an oversized PDU).
MCFrameLens == <<2, 4>>
\* The worst sender the inter-byte timeout must tolerate: a gap of ByteTmo.
MCSenderGap == MCByteTmo
\* One more than the longest a chunk can stay open after its last byte:
\* a late poll picks that byte up, then ByteTmo and one late poll more.
MCFrameGap == MCByteTmo + 2 * (MCDelay + MCLatency) + 1
\* A Modbus RTU silence of 3.5 characters, a few ms at usual baud rates.
MCShortFrameGap == 2
\* The port clock and int are both 32 bits wide in the code (a port clock
\* of ticks in ms, as uint32_t).  Both are scaled to 5 bits, keeping them
\* equal: the clock wraps inside a read, and every tmo_ms the read can
\* compute (at most AckTmo + Delay + Latency) still fits the int.
MCClockBits == 5
MCIntBits == 5
=============================================================================
