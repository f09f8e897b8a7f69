# TLA+ models of the RS-485 Modbus stack

These modules model the Modbus stack of this repository in TLA+ and check
it with TLC. Sources:

- `src/verify-rs485-packages/applications/Modbus/`:
  - `Src/modbus_instance.c`
  - `Src/modbus_pdu.c`
  - `Src/modbus_rtu.c`
  - `Src/modbus_byte_order_convert.c`
- the unnamed parts under `src/unnamed/`:
  - `part_000`: backend header;
  - `part_001`: converter header;
  - `part_002`: RTU header;
  - `part_003`: configuration;
  - `part_004`: `modbus_backend.c`.

## The system

An application works through an **instance** (`mb_inst_t`,
`modbus_instance.c`). The instance owns a **backend** (`part_004`) of one of
three types:

- RTU: a serial device;
- TCP: a client socket;
- SOCK: a socket the application has already accepted.

`modbus_connect`, `modbus_disconn`, `modbus_recv`, `modbus_send` and
`modbus_flush` go straight to `modbus_backend_open`, `_close`, `_read`,
`_write` and `_flush`. `modbus_recv` and `modbus_send` close the backend on a
transport error.

`modbus_backend_read` is the **framing oracle**. It polls the driver, sleeps
2 ms between empty polls, and returns when one of these happens:

- the inter-byte timeout runs out after some bytes were read;
- the response timeout runs out before any byte was read;
- the buffer is full.

What it returns is one frame, which the **RTU frame wrapper** (`modbus_rtu.c`)
parses in three parts:

- the slave address;
- the **PDU**, decoded by `modbus_pdu.c` over the big-endian helpers of
  `modbus_byte_order_convert.c`;
- the CRC-16.

The master and slave engines, the TCP/MBAP wrapper, the CRC function and the
port layer are described in `spec.md` but are not under `src/`. They are
modelled from the spec where they meet the code (the engines, the MBAP
wrapper and the CRC), and marked so in `PROJECT.json`.

## Modules

| Module | Models | State and actions |
|---|---|---|
| `FramingRead` | `modbus_backend_read`, part_004 491-538, against a sender on the line | See the first list below. |
| `Backend` | backend create/destory/open/close/read/write/flush (part_004) and the instance wrappers (modbus_instance.c) | See the second list below. |
| `ByteOrder` | `modbus_byte_order_convert.c` | Operators only: each u8/u16/u32/f32 put returns the bytes it stores, each get reads them back, plus `modbus_bitmap_get`/`_set`. A uint32 is held as two 16-bit halves (TLC integers stop at 2^31 - 1). A float is its IEEE fields `[sign, exp, frac]`; the type pun is the packing of those fields into 32 bits. Bit operations on a one-bit mask are done arithmetically. |
| `DataStore` | spec §3 and §8: the data model | The abstract specification: a bit vector and a run of 16-bit registers, with `WriteBit`, `WriteReg`, `WriteDWord` (high word first) and `WriteFloat` (the IEEE bit pattern, built bit by bit). |
| `DataImage` | the converters applied to `datas[]` | `coils` and `words` are byte areas that start as heap garbage, because `modbus_create` mallocs `datas[]` and never clears it. `SetBit`, `PutU16`, `PutU32` and `PutF32` are the calls. `Store` maps the bytes to `DataStore`'s state. |
| `FrameChannel` | spec §4.5: what the framing read promises | The abstract specification: the chunks on the line are delivered one by one, whole, in order, each eventually. |
| `PduCodec` | `modbus_pdu.c` | Operators only. There is one make and one parse per PDU shape, with the C minimum-length checks and the payload borrowed from the buffer. The dispatch is by direction, exception bit and function code. |
| `RtuFrame` | `modbus_rtu.c`, CRC-16 | `RtuFrameMake` and `RtuFrameParse` follow the C, including how the parser chooses the CRC window. `CrcCal` is CRC-16/Modbus computed bit by bit, with XOR done arithmetically. It is modelled from spec §4.2, because the function is not under `src/`. |
| `MbapFrame` | spec §4.4, the Modbus TCP frame | `MbapMake` writes transaction id, protocol id 0, length and unit id before the PDU; `MbapParse` checks the length, the protocol id and the declared length, then parses the PDU with `PduCodec`. |
| `RtuLink` | one frame over a faulty line | `Make` builds the frame. `Garble`, `Lose`, `Trail` and `Merge` damage it, bounded by `MaxFaults`. `Receive` runs `RtuFrameParse`. |
| `Exchange` | a master and a slave on one line, over RTU or TCP | See the third list below. |

`FramingRead` state and actions:

- `rx` is the driver buffer.
- `buf` is the read's `pos` bytes.
- `now` is the port clock `modbus_port_get_ms()`, counting ms modulo 2^ClockBits from any start value; `told` is `told_ms`.
- `TmoMs(now, told)` is line 520: the difference of two readings, computed wide and narrowed to an int of IntBits bits (`ToInt`). After a wrap the wide difference is negative and the narrowing brings it back to the elapsed time.
- `SendByte`: the sender writes the next byte.
- `ReadCall` corresponds to lines 505-506.
- `PollData` corresponds to lines 509-518 with the 507 exit.
- `PollTimeout` corresponds to lines 520-534.
- `PollSleep` corresponds to line 535.
- `Wake` ends a sleep.
- `Tick` is one millisecond, during which a sleeping reader may be woken late.

`Backend` state and actions:

- Per instance: `inst` (none, live or gone), `btype`, `hinst` and `ret`.
- `drvOpen` is the set of driver handles open in the system.
- There is one action per wrapper: `Create`, `Destroy`, `Connect`, `Disconn`, `Transfer` (recv and send) and `Flush`.
- Each action includes the backend function it calls.
- Driver results are nondeterministic.

`Exchange` state and actions:

- Master instance (`mb_inst_t`, modbus_instance.h 64-72): `saddr`, `prot` and `tsid`. `InstInit` gives them `modbus_create`'s defaults: `MB_RTU_ADDR_DEF`, the backend's protocol, and 0. The TCP run also starts from tsid 65535, the state after 65535 requests.
- `Prot` is the protocol of the slave and of the backend, fixed for a run. The master starts with it; `SetPrototype` (`modbus_set_prototype`, between calls) may switch the master to any protocol of `Prots`. The master frames, parses, advances the tsid and skips the broadcast read by its own `prot`.
- `AppCall` restricts the application to what Modbus allows: a call to address 0 (broadcast) is a write.
- Master: `mpc` (idle, or waiting inside `modbus_backend_read`), `call`, and `timer` (`tmo_ms`).
- Slave: `spc`, the prepared response `sout`, and `sdelay` (ticks left of its turnaround).
- The line: `srx` and `mrx`, the frames in each side's driver buffer. A frame is its bytes plus, as a ghost, the number of the call it belongs to.
- Ghosts: `answers[n]`, the slave's answer to call n, and `results[n]`, what call n returned.
- `SetSlaveAddr`: `modbus_set_slave_addr` between two calls.
- `ReqPdu`: the request of `mb_read_regs` (0x03, `nb` registers), `mb_write_reg` (0x06) or `mb_write_regs` (0x10, `RegBytes` puts the values big-endian).
- `MasterCall`: `modbus_flush`, the frame and the write. Over TCP the tsid is advanced first (`TsidNext`, 16 bits, wrapping) and written in the MBAP header. An RTU broadcast returns 1 at once.
- `MasterRecv`: the read returns a frame (lines 505-518). `FrameParse` parses it (`RtuFrameParse` or `MbapParse`) and `Verdict` checks it: the echoed address, the transaction id over TCP, the function code, then the byte count (2·nb), the address and value, or the address and count. The call returns the count of registers (1 for a single write), with the values read (`RegVals`), as modbus_instance.h 104-115 state. `Verdict` is modelled from spec §4.6, since the master engine is not under `src/`.
- `MasterTimeout`: line 530, with nothing read and `tmo_ms > ack_tmo_ms`; the call returns 0.
- `SlaveRecv`: the slave tick. It drops what does not parse. Otherwise (the address and unit checks are off in the default build, part_003 20-21) it dispatches to the callback table and prepares the response, or nothing for a broadcast. The response echoes the transaction id over TCP.
- `Scan` is the dispatch (spec §4.7). A count outside 1..125 (reads) or 1..123 (writes) gives status -3 before any callback (`CountOk`). Otherwise the callback table is called for each address in [addr, addr+nb) in order. `CbStat` is its contract (`mb_cb_table_t`, modbus_instance.h 40-51): -2 for an address the table does not have, and for a write any status of `HoldStatus`, chosen per address. The first non-zero status ends the scan; the writes before it stay (`ScanWrite`). A non-zero status, negated, is the exception code.
- Every frame is parsed once (bound as the one element of a set), so that TLC does not recompute its CRC for each use.
- `SlaveSend`: the response is written after the turnaround.
- `Tick`: one 2 ms poll. It is disabled while a step is due (`Due`), so time does not pass a step the code takes at once.
- `LineFault`: loses or garbles one frame, bounded by `MaxFaults`.
- `Done`: the master has made its calls.
- The master and slave engines are not under `src/`; they are modelled from spec §4.6 and §4.7 over the code's flush, read loop and frame operators.

The MC modules `MCFramingRead`, `MCBackend`, `MCRtuLink`, `MCDataImage` and
`MCExchange` give the constants. `PROJECT.json` maps every definition to its source lines.

## Runs

| Run | Checks | Result |
|---|---|---|
| `framing` (FramingRead.cfg) | TypeOK, ReadReturns, ChannelRefined | Passes, 44538 states; the clock wraps inside reads. |
| `framing_merge` (FramingReadMerge.cfg) | NoMerge | Violated (see finding 1). |
| `backend` (Backend.cfg) | TypeOK, HandleValid | Passes for the RTU+SOCK build, 1288 states. |
| `backend_destroy_leak` | NoLeak | Violated (finding 2). |
| `backend_sock_fd0` | NoLeak | Violated (finding 3). |
| `rtu_link` (RtuLink.cfg) | TypeOK, Integrity, RoundTrip, SpecVectors | Passes, about 20000 states. |
| `rtu_link_trailing` | ExactLength | Violated (finding 4). |
| `data_image` (DataImage.cfg) | TypeOK, StoreRefined | Passes, 17408 states, about 1.5 min. |
| `exchange` (Exchange.cfg) | TypeOK, CallResult | Passes over RTU, 8752 states, a few seconds. |
| `exchange_tcp` (ExchangeTcp.cfg) | CallResult, ReplyReported | Passes over TCP, 1604656 states, about 55 s. |
| `exchange_broadcast` (ExchangeBroadcast.cfg) | CallResult | Violated (finding 5). |

What the passing runs show:

- **framing**:
  - `modbus_backend_read` implements `FrameChannel` (ChannelRefined). With intra-frame gaps of at most the inter-byte timeout, every frame is handed over whole, in order, and eventually. A frame larger than the buffer counts as its buffer-sized pieces. The mapping is `delivered <- out`, with the channel's chunks computed from the frame lengths and the buffer size.
  - With inter-frame gaps above the timeout plus the poll slack, no chunk mixes two frames; this is part of ChannelRefined, and `framing_merge` checks it alone (NoMerge) with short gaps.
  - A frame longer than the buffer is cut where the buffer fills.
  - Every call returns (ReadReturns).
  - This holds for every placement of the 2 ms sleeps and late wake-ups.
- **backend**, for a build with RTU and SOCK backends:
  - For two instances, any order of calls and any driver failure, with SOCK backends adopting accepted sockets (fd 0 among them):
    - a live `hinst` is a handle open for that instance alone (HandleValid).
  - The run has no fairness and no liveness property: whether a closed backend comes back depends only on the application calling `modbus_connect` and the driver's open succeeding.
- **rtu_link**, over requests and responses of every supported shape plus unsupported codes:
  - An undamaged frame round-trips with the exact length (RoundTrip).
  - With up to two garbles, losses, trailing bytes or merged frames, an accepted frame is always the one sent (Integrity).
  - The spec's literal frames of scenarios 1 and 3 come out of make byte for byte (SpecVectors). So does scenario 2, but with the CRC bytes `C1 34`: the spec prints `C0 F1`, which is not the CRC-16/Modbus of `11 83 02`.

- **data_image**:
  - `DataImage` implements `DataStore` (StoreRefined). The mapping reads each bit with `modbus_bitmap_get` and each register with `modbus_cvt_u16_get`.
  - So every `modbus_bitmap_set` changes exactly its bit, and the padding bits keep whatever the heap left in them. Every u16, u32 and f32 put writes its value big-endian into exactly its registers, the high word first.
  - The float is checked against a bit-level IEEE encoding in `DataStore`, not the module's own packing.
- **exchange**:
  - The slave's turnaround is at most the master's ack timeout.
  - Three calls are made, each a read, a read of an unknown register or a write; write_hold may fail with -4.
  - The line may lose or garble one frame.
  - Under these conditions, every call that returns a value or an exception returns the slave's answer to that very call (CallResult).
  - The run checks safety only; every call returning is the business of `FramingRead`'s ReadReturns.
- **exchange_tcp**:
  - The same master and slave speak Modbus TCP.
  - The slave's turnaround may be up to 6 ticks, three times the ack timeout. So a reply can land in the next call's read, or the one after.
  - The calls are a two-register read, a write-multiple of registers 1 and 2 (the slave has 0 and 1, so the scan writes 1 and fails at 2 with -2), and a read of zero registers (exception 3).
  - The write callback may fail with -4.
  - The application may switch the master to unit 2. The build is the default one (`MB_USING_ADDR_CHK` and `MB_USING_MBAP_CHK` off, part_003 20-21), so the slave serves every unit id.
  - The tsid may wrap from 65535 to 0.
  - The application may switch the master to RTU framing between calls.
  - A call to the slave's own unit that reads the slave's own reply to it never returns 0, the value of a timeout (ReplyReported). This rests on the slave's count check: without it (the `CountOkZero` mutant) a zero-count read is answered with an empty success, which the master returns as 0.
  - Under these conditions, every call that returns a value or an exception still returns the slave's answer to that very call (CallResult). The transaction id rejects the stale replies that break RTU (finding 5).
  - The `TsidSame` mutant, a request that keeps the previous id, lets a stale reply through.

Each property of a passing run has a mutant in `PROJECT.json`: a plausible bug in the mapped code that TLC shows the property catches.

### Bounds

- **FramingRead:**
  - ByteTmo 3, AckTmo 5, Delay 2, Latency 1.
  - BufSize 3 with frames of 2 and 4 bytes. One frame fits and one overflows.
  - The sender's in-frame gap is 3, equal to the timeout, which is the boundary of ChannelRefined. The frame gap is 10 in the pass run and 2 in the merge run.
  - The sender's idle timer is capped at the largest gap it is compared with, so the cap never changes a comparison.
  - The port clock and int are 32 bits in the code; both are scaled to 5 bits, kept equal. The clock starts anywhere in 0..31, so reads that span the wrap occur. Every tmo_ms the read computes (at most AckTmo + Delay + Latency = 8) fits in the scaled int.
- **Backend:**
  - Two instances and four handles: three device handles and fd 0. This allows reuse of a closed handle by the other instance.
  - The build compiles RTU and SOCK, so creating a TCP backend fails, which is the `Compiled` check. Sockets offered to SOCK include fd 0.
- **RtuLink:**
  - Address 17, the spec's example.
  - PDUs: one per shape, chosen so that byte counts are non-zero, plus an unsupported code in each direction. The payload bytes are mixed with the damage.
  - Two faults, so that a damaged byte-count and a damaged CRC can combine.
- **DataImage:**
  - Coils: 9 bits in 2 bytes, so 7 padding bits, with bit arguments 0, 1 and 2 (any non-zero value sets).
  - Registers: 3 registers, so u32 and f32 puts overlap at offsets 0 and 1.
  - Values: one of each kind, with all bytes distinct: 0x1234, 0x12345678, and -3.0 (sign, exponent and fraction all non-zero). A wrong byte order, width or field position shows on any of them.
  - One heap byte value (0xA5, alternating bits), enough to tell a changed padding bit from an untouched one.
- **Exchange:**
  - AckTmo 2 and MaxDelay 2. The turnaround reaches the timeout, so a reply can arrive in the very poll where the timeout is checked.
  - Three calls, so that a stale reply can outlive one call and meet the next, and a third call follows a timed-out one.
  - One fault, which is enough for a lost request, a lost reply or a garbled frame.
  - The broadcast run sets the address to 0 or 1 and makes a broadcast write and reads, with MaxDelay 2 and three calls.
  - The TCP run has two registers, so that a read returns two values in order and a write-multiple can fail after its first write. It has MaxDelay 6, three calls, no line faults (TCP delivers or the connection fails, which is Backend's), addresses 1 and 2, and the master's framing TCP or RTU. The tsid starts at 0 or 65535, and write_hold returns 0 or -4.
  - The pass RTU run keeps the address at the slave's own; write_hold returns 0 or -4 there too.
  - `RtuFrame`'s `CrcShiftF` passes each shift result through a function application, so that TLC evaluates it once.

## Findings

1. **Frames merge when the inter-frame gap is short.** At part_004:523 the read ends a frame only after more than `byte_tmo_ms` of silence, which is observed with 2 ms polls and wake-up latency. Spec §4.5 gives no minimum gap. A merged second frame is then silently dropped by the RTU parser.
2. **Destroy leaks the handle when close fails.** `modbus_backend_destory` ignores a failed close (part_004:313) and frees the backend, leaking the handle.
3. **fd 0 is treated as NULL.** A SOCK backend built on fd 0 stores a NULL `hinst` (part_004:209), so it is closed from birth and the socket is never closed.
4. **Trailing bytes are accepted.** `modbus_rtu_frame_parse` accepts bytes after the CRC (rtu.c:83). Spec §4.3 requires an exact length.
5. **A late reply is taken for the next call, and a broadcast makes that happen.** Spec §5 says responses are matched to their immediately preceding request, relying on the flush before each call (`modbus_flush`). The flush drops only what has already arrived. A reply later than `ack_tmo_ms` arrives after the next call's flush. RTU carries no transaction id, and a read response carries no address, so the late reply is returned as the next call's result. Spec §4.6 makes this reachable even when every turnaround fits the timeout. A broadcast returns at once, without a turnaround delay, so the next request waits behind the slave's work on it. Its ack timeout counts from its own write (part_004:530), so it times out, and the call after it returns its value.

The model cannot show these code issues, because they are link- or compile-level:

- `modbus_pdu.c:537` calls `mb_pdu_rsp_make`, which is not the name of the function it defines.
- `modbus_set_tmo` calls `modbus_backend_config`, but the backend defines `modbus_backend_timeout_config`.
- The read uses `mb_port_get_ms`, while the port API is `modbus_port_get_ms`.
- The header declares `modbus_destory`.

## Not modelled

- **Port drivers:** they are not under `src/`. Backend models them as nondeterministic results.
- **Master and slave engines beyond `Exchange`:**
  - the bit, input-register, mask-write and read-write shapes; they add callbacks of the same contract and no new control;
  - whether a write-multiple that fails part-way should undo its earlier writes: neither the spec nor the header says, so the model keeps them and no property claims either;
  - a second slave: two slaves answering one request, as they do in the default build without the address check, would collide byte by byte, which a line of whole frames does not express.
- **`modbus_set_tmo`:** it calls `modbus_backend_config`, which is declared (part_000:151) but defined nowhere.
- **`modbus_raw_printf`:** it is logging.
- **`modbus_backend_timeout_config`:** it stores the two timeouts, which `FramingRead` takes as constants.
- **The port clock's width:** it is not under `src/`. The model assumes the clock is as wide as `int` (a 32-bit ms tick). A narrower clock, for example a 16-bit timer, would make tmo_ms negative after a wrap and the read would spin for ever. This is the failure the `TmoMs` → `TmoMsWide` mutant shows.

## Further work

1. **The TCP stream in `Exchange`:** a stale reply and the awaited one that arrive within the inter-byte timeout are returned by one read, joined, and fail the MBAP length check. `Exchange` hands frames over whole, one per read.
2. **An abstract request/response specification that `Exchange` refines** when turnarounds fit the timeout.
3. **`Exchange` composed with `FramingRead`:** a merged reply and a trailing frame.
4. **Coil shapes in `Exchange`:** through `DataImage`'s converters.
5. **Integer width in `Exchange`:** the master's timer is relative there, so wrap is checked only in `FramingRead`.
