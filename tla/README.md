# Verification of embedded-bridge

embedded-bridge is a communication stack between an embedded device (C++) and
a host (Python): a message protocol that mixes text lines and binary messages
on one byte stream, framings for noisy lines, transports, receivers that watch
what the device says, and a session that runs tests on a device which may fall
asleep or crash. This directory holds TLA+ models of it, the TLC configurations
that check them on small instances and TLAPS proofs of what holds for every
instance. `PROJECT.json` maps every definition to the lines of code it models.

To check a run: `tlc -workers 2 -config MessageStream.cfg MCMessageStream`.
To check a proof: `tlapm MessageStream_proofs.tla`.

## 1. The system

| Part | Source (`python/src/embedded_bridge`, `cpp/include/embedded_bridge`) | State | Operations |
|---|---|---|---|
| Message reader | `framing/message.py`, `message.h` | parser state, varint accumulator, payload bytes left; handler: text and payload buffers, finished messages | `feed`, `drain`, `reset` |
| Message writer (Python) | `framing/message.py` | buffer of a streamed message, `_in_message` | `write_text`, `write_binary`, `begin_*`, `write`, `end` |
| HDLC, SLIP, COBS | `framing/*.py`, `framing/*.h`, `writer.h` | framer: state or flags, frame buffer; writer: buffer, overflow flag | `process_byte`, `reset`, `set_flow_control`; `write`, `end_frame`, `discard`; `encode` |
| CRC-16/HDLC | `framing/crc16.py`, `detail/crc16.h` | none | update (table or bitwise), checksum, residue |
| LineFramer | `framing/line.py` | decoder (the bytes of a character begun), partial line, finished lines | `feed`, `drain`, `reset` |
| C++ message handler | `message.h` (`BufferingMessageHandler`) | text and payload buffers of fixed size | the five callbacks |
| Transports | `transport/serial.py`, `transport/websocket.py` | handle or socket, receive buffer | `connect`, `disconnect`, `read`, `write`, reconnect |
| Router | `receivers/router.py` | routes | `feed` |
| CrashDetector | `receivers/crash_detector.py` | crash buffer, time of the last line, event | `feed`, `check_timeout`, `reset` |
| SleepWakeMonitor | `receivers/sleep_wake.py` | awake/sleeping/waking, `_port_was_gone` | `feed`, `check_port`, `reset` |
| EventCapture | `receivers/event_capture.py` | last raw timestamp, wrap count, open scopes, log, spans | `feed`, `reset` |
| MemoryTracker | `receivers/memory_tracker.py` | current test, numbers of every test | `feed`, `set_current_test`, `reset` |
| TestSession | `testing/session.py`, `protocol.py`, `types.py` | `_line_buf` and the locals of `monitor` | `discover`, `start_test`, `monitor` |

How they interact. Everything is driven by calls; no part has a thread of its
own. A host loop reads bytes of a transport and passes them to a reader or a
framer, which calls back with messages; a router passes each message to
receivers, and the loop calls the receivers' polls (`check_timeout`,
`check_port`). `TestSession` owns its loop: it reads lines, answers the
device's SLEEP marker with ACK, closes the port, polls it until the device is
back and shakes hands again. The concurrency is between host, device, port and
wire: a device that restarts, sleeps or drops off USB between any two steps of
the host; bytes cut anywhere, lost or changed; clocks that run while a call
waits; callbacks that raise.

What must be right:

- **reader/writer**: the link is a channel of whole messages for every
  chunking, with restarts, and the reader terminates on and recovers from
  garbage exactly as its grammar says;
- **transports**: `read` is the byte stream of one connection after the other;
  what a retried write repeats, how long a call lasts past its timeout and what it
  raises stay within bounds;
- **framings**: noise costs only the frames it touches, nothing is cut,
  overflows are dropped, the framers resynchronise;
- **EventCapture**: wrapped timestamps are unwrapped to the true time, spans
  pair the right START and STOP;
- **Router and receivers**: every receiver gets its messages even when others
  raise; crash reports hold the right lines, hangs are real and all are
  reported; sleep callbacks alternate and "waking" is justified; memory numbers
  belong to the test they are kept for;
- **TestSession**: the log is what the device said, the verdict is of this
  run, a device that slept is not accused of not sleeping, reconnecting goes on until the port
  opens or every attempt was made, times are bounded and a call returns unless it waits for a
  device that does not take its command.

Every hazard is listed at its line in `PROJECT.json` with the properties that
cover it, or with the reason why none does yet.

## 2. Modules

    Flattening_proofs            facts about sequences and recursive functions that four proofs share
    MessageFormat                wire format: varints, UTF-8, headers
      MessageReader              MessageReader.feed/drain/reset, a branch of feed's loop per action
        BufferingHandler         the C++ handler with fixed buffers, driven by the same loop
      LineFramer                 LineFramer.feed/drain/reset
        MessageStream            reader and line framer on an arbitrary stream; reference parses
          MessageStream_proofs
        MessageLink              writer + wire + reader + both handlers + restarts
          MessageLink_proofs
    MessageChannel               abstract: a channel of whole messages (implemented by MessageLink)
    ByteStream                   abstract: the bytes of one connection after the other
    Transport                    what both transports share: caller, reconnect loop, peer
      SerialTransport, WebSocketTransport      read and write (both implement ByteStream)
        Transports               a behaviour of one of the two
          Transports_proofs
    FramedLink                   framing writer, encoder, noisy line: what the framings share
      HdlcLink, SlipLink, CobsLink
        Framings                 a behaviour of one of the three, HDLC with the CRC of Crc16
          Framings_proofs
    Crc16                        CRC-16/HDLC, both builds
    EventCapture                 multicore tracer + receiver
      EventCapture_proofs
    CrashDetector, SleepWakeMonitor, MemoryTracker
      Router                     composes the three behind a list of routes
        Router_proofs
    TestSession                  host calls + transport + device
      TestSession_proofs
    MC*                          instances for TLC

### Message protocol

`MessageReader.feed(data)` is a loop over a chunk. `Feed(chunk)` puts the chunk
into `data`, and each branch of the loop is an action (`IdleSOH`,
`FeedTextPartial`, `LengthDone`, ...) that consumes a part of it; `Drain` and
`Reset` happen between two calls. The internal `_DrainHandler` is part of the
actions (`TextEnd`, `TextData`, `BinaryEnd`).
The base of the varint (`Radix`, 128 in the code) and its maximal length are
constants so that short payloads have lengths of several bytes.

`MessageStream` feeds any bytes. It is compared with `MessagesOf`, a parse of
the whole stream written from the grammar at the top of `message.py`, which
knows nothing of chunks. `MessageLink` connects the Python `MessageWriter` (whole and
streamed messages), a reliable wire and the reader; `Restart` is a device
restart after which the host reconnects and resets the reader. `MessageChannel` is
what that promises, and `MessageLink` is checked to implement it, with liveness,
under the refinement `delivered <- got \o messages`.

`LineFramer` is fed the same chunks as the reader. It keeps the first byte of a character
that a chunk cuts, where the reader decodes each chunk on its own, and is compared with
a split of the whole stream into lines (`LinesOfStream`); `ParsesStream` says exactly what the reader
makes of a cut character.

`BufferingHandler` is the C++ handler. `Callbacks` reads off from each iteration of the loop which
callbacks it makes, so one wire drives the Python and the C++ handler, and
`BufferedAsParsed` says that both report the same messages, those of C++ cut to the buffers. A
C++ `reset()` does not reach the handler; `stale` is the half line that this leaves.

### Transports

`Transport` has what is the same in `serial.py` and `websocket.py`: the caller's
`Connect`, `Disconnect`, `Read` and `Write`, the loop of `_do_reconnect` (`AttemptSucceeds`,
`AttemptFails`, `AttemptAgain`, `ReconnectFails`) and the peer, which sends, takes
commands, goes away with what was in flight (`Drops`) and comes back. `handle` is `dead` when the
transport holds a connection that is gone. `SerialTransport` and
`WebSocketTransport` add the steps of `read` and `write`: `in_waiting`, `ser.write` and `flush` there, the
buffer, `recv` and `send` here. A serial write has two steps, because the port can go between
`write` and `flush`. Frames that came before the close can still be received, a
prefix of any length. `clock` counts from the start of the call and advances only while the
host waits. The caller does not open a third connection and calls nothing while a call runs. `kind` says which of the two
transports a behaviour uses, so that one set of properties, at the end of `Transport`, serves both.

`ByteStream` is what `transport/base.py` promises to a reader: bytes of the connection held, in order
and without a gap. Both transports implement it. A reader behind them gets a prefix of a
connection's bytes and then the next connection from its beginning. When the caller reconnects and
resets the reader this is what `MessageLink` assumes; a reconnect inside `read` is not
told to the caller, the reader keeps half a message, and only `MessageStream` (any bytes) applies.

### Framings

`FramedLink` holds the C++ framing writer (`Write`, `EndFrame`, `Discard`), the
Python encoder without size limit (`EncodeAndSend`) and a line on which a byte
may be changed, lost or inserted (`Noise`). Each framing module adds its encoding and
`process_byte` (`ProcessByte`, a disjunct per branch). Every byte on the line
carries the number of its frame, and the history `damaged` names the frames that a
disturbance can touch: the one it is in, and for COBS the next one too when it
hits the delimiter, because a COBS frame has no delimiter in front of it.
A `reset()` of the framer counts as noise for the frame it falls in.
`Crc` is a parameter of `HdlcLink`; `Framings` gives it the real CRC. `framing` says which of the three
a behaviour uses, so that one specification, with the properties of each, serves all of them.

### EventCapture

The device has a microsecond counter with `2 * HalfPeriod` values, and each core
builds an event (stamping it) and sends it later. The period the counter is in is not sent;
it is what the receiver must infer. `Tick` keeps the device's promises:
events arrive within `MaxSkew` and at least every `MaxGap`, both below half a
period. The comment at `event_capture.py:32-38` relies on them. `straddled` records that two
lines were out of order across a wrap, which the code does not handle (section 5).

### Router, CrashDetector, SleepWakeMonitor, MemoryTracker

A message is reduced to what the receivers look for in it: the first crash pattern found,
whether a sleep and a wake pattern are found, and the tag of a MEM line with how many of its numbers
`int()` takes. `Routes` and `Accepts` are constants; a
predicate says yes, no or raises, and a callback of a receiver may raise at
each message (`raising`), as does the MemoryTracker at a number that is none. The router calls a
receiver inside the `try` of its predicate, so an exception there is swallowed, but the call without
a predicate is outside it and aborts the rest (`Aborts`). The host loop calls
`CheckTimeout`, `CheckPort` and `SetCurrentTest` at any time and the port comes and goes at any time.
The clock is kept as the difference from the last line, up to the timeout. The value of a
number is the line it came with, so a pair of numbers shows which lines it was made of.

### TestSession

The host runs one call at a time. `at` is where it stands: the head of its loop (`top`), in the `write` of the call's
command (`commanding`), in `_read_line` (`reading`), in the `write` of ACK (`acking`), in `time.sleep` of the poll
(`polling`), or in the places of an attempt of `_reconnect_after_wake`: `connect` (`connecting`), the `write` of SOH
(`greeting`) and the pause after a failure (`retrying`). `clock` counts from the start
of the call and advances only while the host waits (`Tick`). What the transport does is the part of `SerialTransport`
that matters to the session:

- `connect` with a closed handle may raise at any time, with the port there too (name not resolved, busy, not
  permitted: `ConnectFails`), or open the port when its path exists, and lasts up to `ConnectTime` (the subprocess of
  `resolve_port` has 10 s). With a handle, a dead one too, it returns at once.
- `write` puts the command into the port and then waits in `flush` (`commanding`, `acking`, `greeting`). `Flushed`, its end,
  may come at any time, and must when the device has read the command or is gone, in which case it raises (`Drained`).
  A device that is there and reads nothing may keep it waiting for ever.
- `read` lasts up to `ReadTime`, so the last one of a `_read_line` ends after its deadline.

The device is
external: an automaton written from what `session.py` and `protocol.py` expect,
which runs a test, prints lines, announces a sleep, waits for an ACK or gives
up, sleeps, wakes, waits for SOH, ends the test with `test_end` and
`TEST_STOPPED`, or crashes or drops off USB at any moment, with the port back at once or later (`PortBack`). Lines are
tokens; a read returns any
non-empty prefix of what has arrived, so a line is cut anywhere between a word
and its newline. A connection whose device went away is `dead`: `connect`
returns at once and `write` raises. Answers to calls that timed out stay on the wire,
in `line_buf` or in the device's input, and later calls meet them. The caller may reopen
the port with the same session, which keeps `line_buf`, or with a new one (`Reopen`), and
may call `monitor` again after it timed out (`again`). `leftover` counts the tokens of `line_buf` that
came over an earlier connection. When they hold a whole TEST_STARTED line, `start_test` takes it for
its own (`misled`), and what `monitor` then logs and returns is of no run; the two properties that
relate the log and the verdict to the device's run leave this case out.

## 3. Runs

| Run | Instance | Distinct states (time) | Shows |
|---|---|---|---|
| `message_stream` | all streams of <= 6 bytes over {0, SOH, 2, LF, CR, 129, 195}, chunks <= 3, varints <= 2 bytes | 1.1 million (60-100 s) | chunking, drains and resets do not matter, cut characters excepted for the reader; buffers belong to their message |
| `message_link` | 3 lines, 4 payloads (SOH, newline, header look-alikes, two-byte length with Radix 4), 2 messages, 1 restart, C++ buffers of 2 and 3 bytes | 800 000 (60-100 s) | `ImplementsChannel`, `InSync`, `BufferedAsParsed` |
| `transports` | both transports, reconnect on and off, 2 chunks of 0 or 2 bytes, 2 writes, 2 losses, sizes 1 and all, timeouts 0 and 2, reconnect for 2 | 860 000 (80-130 s) | `ImplementsStream`, repeated commands, overruns, errors, termination |
| `framings` | buffer of 4 bytes, COBS block of 3, <= 2 frames, <= 2 disturbances | 3.2 million (70-120 s) | resynchronisation, no cut frames, writer drops overflows; CRC assumptions |
| `hdlc_overflow` | one frame longer than the buffer | seconds | violated: section 5 |
| `event_capture` | 2 cores, 2 names, counter of 4 values, 2 wraps, 4 events, resets | 2.8 million (45-80 s) | true times, spans |
| `event_jitter` | the same | seconds | violated: section 5 |
| `session` | 1 test, 3 calls (one of their runs failing), 1 line or marker per run, reads of 2, 1 in `connect`, 1 in `flush`, 1 drop, 2 attempts | 1.4 million (140-190 s) | log, verdict, sleep bookkeeping, reconnecting, time bounds, termination |
| `sleep_duration` | 2 calls, a sleep of 2, a later limit for entering sleep | seconds | violated: section 5 |
| `router` | 8 kinds of message in two alphabets, 3 receivers, <= 4 messages, line limits 0, 1 and 3, 2 tests | 465 000 (65-100 s) | routing with exceptions, crash reports, hangs, sleep states, memory numbers |
| `crash_silence`, `port_back` | the same | seconds | violated: section 5 |

Why the bounds suffice.

- Six bytes hold a text and a whole binary message, or a binary message with an
  overlong two-byte length and what follows it; chunks of three cut each of
  these everywhere. The alphabet has a byte for every test the parser makes, and a
  character of two bytes.
- Two messages, one of them begun before a restart, are what it takes for a message to
  affect another. The C++ buffers are shorter than the longest line with its restart and
  than the longest payload.
- Two losses are a loss in the call and another one in its reconnect or retry; two chunks and a
  size of 1 leave bytes on the wire and in the buffer for the next read and the next connection. A
  timeout of 2 is as long as `reconnect_timeout`, one of 0 shorter.
- A framer forgets everything at a delimiter, so two frames show whatever one
  does to the other; two disturbances can hit the same frame or one each. The
  pieces and payloads are of the framing's own special bytes, the buffer is
  filled exactly and exceeded by one.
- Four counter values give a threshold with values on both sides; two wraps
  show that counts add up. The proof removes the bound.
- Three calls of `discover` or `start_test` are enough for the answer to a call that timed out to be
  left in the buffer over a reopened port, and read in a third. The second call of `monitor` counts as a call.
  `MonitorTimeout` is longer than a sleep with reconnect, and
  `EnterLimit` shorter, so that every end of `monitor` is reached. With two attempts there is a refused one followed by a
  good one, two refused ones with the port there all the time, and a refused one followed by one whose device goes away before SOH is out.
  A read of 2, a `connect` of 1 and 1 in `flush` show each in the time of a call; the proof removes the bounds.
- A line limit of 0 (the event is reported at once, like 1), 1 and 3 are all the
  cases of the comparison with the buffer; the proofs remove the bound. MEM lines have
  an alphabet of their own, because the MemoryTracker shares no state with the other receivers: three of them
  are a whole pair and a line that replaces or breaks a part of it.

Every property has a mutation: an operator next to the definition it replaces
(`ResetHandler_KeepsBuffers`, `WrapSeen_AnyStep`, ...) with a bug that this code could plausibly
have. With it in place TLC finds the property violated in the same run, so the instance
is large enough for the property to matter. `PROJECT.json` lists the pairs. No
specification uses these operators.

Deadlock is not checked in `framings`, `hdlc_overflow`, `event_capture`,
`event_jitter`, `session`, `sleep_duration` and `transports`: there the bounds (frames and noise;
events and wraps; calls; connections and losses) let a behaviour end.

### Fairness

- `MessageLink`: `WF(FeedIteration)`, `feed` is an ordinary loop, and `WF(HostRead)`: the host
  polls its port. Nothing is assumed of the device, which may stop in the middle of a message, or of
  the caller of `drain`. `MessageStream` assumes nothing: `FeedAdvances` says that each iteration
  consumes input, which is why the loop ends.
- Transports: `WF(Host)`, the caller's thread is scheduled, and `SF(TimePasses)`, clocks run
  on. The peer may never send, come back or take a command. `ReadsReturn` is about finitely many losses:
  `MaxDrops` bounds them, and without a bound a serial `read` need not return.
- `Router`: `WF(CallCheckTimeout)`. The docstring of `CrashDetector` requires the
  caller to call it periodically. The clock is not fair: a device may speak in time for ever.
- `TestSession`: `WF(Host)`, the thread is scheduled, and `SF(Tick)`, clocks run on
  although the device keeps the host busy reading. `connect` ends because `resolve_port` has a timeout. The device may do
  nothing for ever, take no command, or
  talk for ever (within `MaxLines`), and the caller may stop. `flush` is scheduled only when it has nothing to wait for, so
  `CallsReturn` has one exception: a call that waits for ever in the `flush` of a command which a device that
  is there does not take.

## 4. Proofs

`Flattening_proofs` is about recursion over data. A decoded text, the images of a sequence of messages, a log of lines and
stuffed bytes are a `FlattenSeq`, and the varint, the reference parse, the partition into lines, the checksum and the COBS blocks are
recursive functions. The induction theorems of the library are out of reach, because they take an operator as a parameter, but
induction over a set of numbers is not: `SetInduction` is proved from the well-foundedness of `<`, and from it that these
functions exist and unfold (`Steps`, `RecursionExists`, `OnwardExists`) and the lemmas on `FlattenSeq` (`FlattenConcat`, ...).

`MessageStream_proofs` (any alphabet of bytes, radix, varint length, chunk size and stream):

- `BuffersCorrect`, `PayloadCorrect` prove two of the run's invariants and
  `FeedTerminates` proves that each iteration of `feed` consumes input.
  The invariant `Inv` adds to the two the types of the parser's variables and that in
  LENGTH fewer than `VarintMaxBytes` bytes have been read: without it the counter's
  type would not be preserved by `LengthMore`. One step per branch of the loop.
- In front of them, what the operators of `MessageFormat` compute: the text of bytes read in two pieces is the two texts unless a
  character was severed (`DecodeConcat`), and a varint accumulated byte by byte is the varint decoded whole (`DecodeEnds`,
  `DecodeContinues`).
- `TypeCorrect`: `TypeOK`, by `TypeInv`.
- `ParsesCorrect`: `ParsesStream`, the reader against the reference parse, on every stream. The reference looks at a whole stream and
  the reader never sees one, so the invariant `ParseInv` quantifies over how the stream goes on. `Boundary(s, cut, i, ms)` says that,
  whatever comes after the bytes consumed so far (`s`), the messages before position `i` are `ms`; `Standing` says for each state of the
  parser what its buffers and counters hold of the message that began at `i`. A branch that completes or gives up a message
  proves `Ends` (however `s` goes on, this message is the one read and ends here), from which `BoundaryNext` moves the boundary; the
  other branches leave it (`BoundaryGrows`). A character cut by a chunk is recorded only when its second byte arrives:
  `BoundaryRecut` and `TextRecut` say that recording it changes nothing of what was read. At the end the message at `i` is shown not to be
  complete (`StandingUnfinished`), so `ms` is all there is.
- `LinesCorrect`: `LinesOfStream`, a LineFramer against the split of the whole stream. `LineInv` says that the characters
  decoded so far are those of the stream up to the bytes held back, that the lines are theirs, one for each newline, numbered by
  the rank of the newline (`LinesTo`), and the buffer is the rest. `DecodedChunk` is the incremental decoder: bytes held
  back and a chunk decode to what the stream decodes to there.
- Assumptions: `RadixAssumption`, `VarintMaxAssumption`, `AlphabetAssumption`, `Utf8Assumption` (the bytes that open and continue a
  two-byte character are those of UTF-8).

`MessageLink_proofs` (any lines and payloads, buffer sizes, chunks, numbers of messages and restarts):

- `Invariant`: `Inv` is `TypeOK`, `StreamInv`, `WriterInv` and `CppInv`. `StreamInv` says that what was parsed is a prefix of
  what was sent and that the reader is between two messages or inside the next one: for each of its
  states, what its buffers and counters hold is the part it has read of that message, and the bytes ahead of it
  are the part it has not, followed by the images of the messages after it. Every iteration of `feed` moves a boundary in this picture;
  the lemmas in front (`WholeOf`, `PartOf`, `LineContinues`, `NextMessage`) are about where a chunk may end.
  `WriterInv` is the same for a message being streamed, `CppInv` for the C++ buffers.
- From it follow `TypeCorrect`, `AlwaysInSync` (a reader that has read everything is between messages) and
  `AlwaysBufferedAsParsed` (both handlers report the same messages, up to the cut), and `ChannelSafety`: every step is a
  step of `MessageChannel` or a stutter. The fairness of the channel is only model-checked.
- Assumptions: `LinesAssumption` (ASCII without newline and SOH, not ending in a carriage return: what a text
  message can carry), `PayloadsAssumption` (any bytes, with a length that the reader's varint can hold), `BoundsAssumption`.

`EventCapture_proofs` (any period, cores, names, numbers of wraps and events):

- `TypeCorrect` and `AdjustedTimeCorrect`: every event has its true time unless two
  lines were out of order across a wrap. `AdjustedTimeTrue` is not inductive. The
  invariant adds `BuiltInv` and `NewestInv`: the age of each stamp is the distance from
  its value to the counter (`InStep`), the event captured last is younger than half a
  period, and the wrap count is the difference between its period and the
  first one's. Lemma `WrapDetection` is the core: an age below half a period on both
  sides makes the code's threshold test equivalent to a change of period.
- `SpansCorrect`: `SpansMatchLog`, with a log of any length. The reference `SpansOf` is not recursive: it numbers the
  events that close a span (`Closing`, `Nth`). `PreviousNext` and `NthGrows` say what one more event changes of it: the
  last event with a name, and one more number behind the others. `Ranked` (each number has its place) is the
  strengthening.
- Assumptions: a half period of at least 1, skew and gap below it.

`Router_proofs` (any messages, routes, predicates, limits of lines and numbers of messages). Each receiver is
disturbed by its own calls only, so each invariant is proved from what one receiver's calls do and
from which of them each action of the router makes.

- `SleepCallbacksAlternate`, `WakingJustified`: `CallbacksAlternate` and `WakingWasSeen` hold together
  (`SleepInv`); the second needs that a remembered absence of the port was seen in this sleep,
  and that an awake monitor remembers none.
- `ReportsCounted`: `ReportedOnce` is inductive by itself over the steps of the detector.
- `DetectorSeesEveryMessage`: `NothingWithheld`, by `DetectorReceives`: a route without predicate that
  none without predicate precedes is always reached.
- `HangsAreSilences`: `HangIsSilence`, from the invariant that the detector's idea of the silence is the
  true one until it reports. It assumes `DetectorSeesAll`, and is false without: messages
  that the detector does not get are no sign of life to it.
- `CrashReportsExact`: `CrashReportExact`. The invariant `ReportInv` says of a detector that has reported nothing that
  its buffer is exactly the messages since the first crash message (`Buffered`), still fewer than the limit;
  `LinesGrow` and `FeedKeepsReport` carry it over one more message.
- `MemoryIsOfLastLines`: `MemoryOfLastLines`, with the lines that carry a number as a set to which a line adds
  its own position.
- `PassthroughIsExact`: `PassthroughExact`. The unmatched messages are a set of positions, to which a message passed on adds
  its own (`PickGrows`). If no reached route aborts, none aborts (`FirstAbortReached`), so that all routes were asked.
- `TypeCorrect`: `TypeOK`, from all of these invariants together (`RouterInv`): that a crash has a pattern and that the numbers kept
  of a test are lines of its log are consequences of them.
- Assumptions: `RoutesAssumption` (the detector and the monitor have a route, no receiver has two; alphabets of messages) and
  `LineLimitsAssumption` (integers, zero and negative ones included).

`Transports_proofs` (any sizes, timeouts, chunks, frames, numbers of connections, losses and writes). Both transports make most
of their steps with the operators of `Transport`, so most lemmas serve both.

- `TransportsImplementStream`: each transport implements `ByteStream`; every step is a
  step of the stream or a stutter. What it takes to know is that the bytes at hand are exactly those that come after
  the bytes read (`Bytes(taken, n)`). Over a serial port these are the wire (`SerialInv`). Over a WebSocket they are the buffer
  followed by the frames, and `WebSocketInv` says with a function of offsets that each frame begins where the one before it
  ends, so that a cut at any frame when the connection is lost leaves a prefix. `HandleInv` adds that a
  connection is opened only where none is held, hence where nothing is at hand. `SplitBytes` says that a read cut
  to its size leaves the rest.
- `TypeCorrect`: `TransportTypeOK`. `CallInv` adds where a call stands and what it knows
  there: a call that opens a connection holds none and may reconnect, and a `retry` is a write's.
- `CommandsHeardAsWritten`: `HeardAsWritten`, by `HeardInv`. Over a serial port only the command being
  written is on its way, and before its second writing it was heard on earlier connections at most (`SerialHeard`). A
  WebSocket may have commands of earlier writes on their way, all after those heard, but never the one being written
  (`WebSocketHeard`): that is why its retry repeats nothing.
- `ReadOverrunIsBounded`: `ReadOverrunBounded`, by `TimeInv`. A reconnect begins at the limit of those
  before it at the latest and ends one `OneReconnect` later; a WebSocket's begins before the deadline.
- `RawErrorIsSecondLoss`: the action property `RawOnlyIfLostAgain`, from `CallInv`.
- Assumptions: `TransportTimes`, `BoundsAssumption`, `NoneAssumption`. No fairness is needed.

`TestSession_proofs` (any timeouts, intervals, durations and verdicts, numbers of calls, attempts, lines and drops,
times of `read`, `connect` and `flush`). `Basic` is the
types with what the places of a call say of handle and locals; each theorem adds its own part.

- `TypeCorrect`: `TypeOK`.
- `OverrunIsBounded`: `OverrunBounded`, by `TimeInv`, the deadline under way at each place. The overrun is made of what was begun
  before the deadline: the last `read`, or a poll and the attempts behind it with `ConnectTime` and `RetryWait` each. To
  either the time spent in `flush` is added (`flushed`), which the code does not bound.
- `NoSleepIsMissed`: `NoSleepMissed`, by `GoneInv`: until the sleep is confirmed, the port has been gone since the last
  poll at most.
- `ReconnectsWhilePortOpens`: `ReconnectsIfPortOpens`, by `ReconnectInv`: as long as the handle is closed, every attempt so far was
  refused; an attempt that opened the port leaves it open, or dead when the device went away.
- `VerdictIsOfThisRun`: `VerdictOfThisRun`. The invariant `VerdictInv` looks at the whole stream from the device,
  buffer and wire: every line of this connection in it is whole (`WholeLines`); what follows a
  TEST_STARTED marker is the run it names, with the verdict before the end and nothing after it unless the device still
  runs it (`StartsFollowed`); the same of the run that `start_test` saw start and what has not been read since
  (`StartedFollowed`); and the status is the verdict once the log has it (`StatusInv`).
- `LogIsFaithful`: `LogFaithful`, by `LogInv`: the words of the log, of the buffer, of the wire and of what the device has
  sent since are kept one by one. `LineWords` is the core: the words of a stream are those of its first line and of the rest,
  wherever reads cut it, and `LineLog` moves that word from the stream to the log.
- Assumptions: `NoneAssumption`, `TimesAssumption` (positive times; the session's limits of 10 s and 15 s only in
  their order), `BoundsAssumption`.

`Framings_proofs` (any size of buffer and of a full COBS block, any pieces, payloads and noise bytes, any number of frames and
disturbances; HDLC with the CRC of the code):

- `CobsRoundTrip`: `cobs_decode` undoes `cobs_encode`, for every sequence of bytes. The encoder is followed byte by byte (the
  blocks closed so far, the bytes of the open one, where each block begins); the decoder is the function that goes from block to
  block. That the encoding has no zero in it, so that the delimiter is its only one, comes from the same walk.
- `FramingsTypes`: `FramingsTypeOK`, and `WholeFramesOrNone`: `FramingsWholeOrDropped`. `TypeInv` is both, with what each framer
  stores bounded by its buffer.
- `FramingsCarryAll`: `FramingsCarry`. The property speaks of an idle line; the invariant `CarryInv` has to say what is on the way.
  It names a place (g, j): the first `j` bytes of frame `g` are off the line, and the line is the rest of that frame and the frames
  after it (`Reading`); noise strikes at the head of the line only. `Holds` says that the framer, if frame `g` is not damaged, has stored what
  these `j` bytes carry (`CobsHolds`, `HdlcHolds`, `SlipHolds`: a payload is laid out in stuffed parts of one or two bytes,
  so a place is a part and perhaps the escape in front of it). `Arrived` says that the undamaged frames with room before `g` have been
  delivered, in order, among whatever noise made, and that without noise nothing else has. The three framings make the same
  nine moves (`Moves`), so writing, losing, changing and inserting a byte are treated once; receiving one is treated
  for each framing, in and between frames.
- Of the checksum, `FramingsCarryAll` takes only that a frame that arrives as it was sent has the checksum it was sent with.
- `TableUpdateIsBitwise`: the C++ update with the lookup table and the bit-by-bit one (Python, and C++ without the table) agree
  for every checksum and byte. `Crc16` takes the xor of words half byte by half byte, so the proof reads a word as its 16 bits
  (`Value`, `Half`): a shift is `ShiftedBits`, whence it is linear (`ShiftXor`) and loses nothing (`ShiftLosesNothing`).
- `ResidueIsChecksum`: for every frame, the residue test of `_deliver` is the comparison of its last two bytes with the checksum
  of the others, which is how `HdlcLink` models it.
- `BurstDetected`: when two neighbouring bytes of a frame of any length are changed, into whatever, the frame
  fails the test. It is about the frame after unescaping, of the length it was sent with.
- Assumptions: `BufSizeAssumption`, `BytesAssumption`, `FramingsAssumption` (payloads and noise are bytes) and
  `FullBlockAssumption` (a code byte fits a byte).

Only model-checked:

- `HdlcOnlySentDelivered`: that one disturbance is never delivered rests on the checksum detecting it, which no 16-bit
  checksum does for every payload: a disturbance that changes where a frame ends can leave a good one. It holds of the
  instance, and cannot be a theorem of all of them. What can is `BurstDetected`: a frame that keeps its length.
- The check value of CRC-16/HDLC (`CheckValue`, an assumption of `MCFramings` that TLC evaluates).
- All liveness (`HangsReported`, `CallsReturn`, `ReadsReturn`, the fairness in `ImplementsChannel`): out of the
  prover's reach.

## 5. Where the code and its documentation disagree

1. `hdlc_overflow`. "Corrupt or overflowed frames are silently discarded"
   (`hdlc.py:32`). In ESCAPE, `_store` sets ERROR when the buffer is full and the next
   statement sets IN_FRAME over it, in Python and C++. A frame whose excess bytes are all escaped stays
   alive and is delivered cut to the bytes that had room, if these end in a good checksum.
2. `event_jitter`. "Host-side wrap detection restores monotonicity", "jitter is always a few
   ms" (`event_capture.py:32-38`). When the line of one core built just before a wrap arrives
   after the line of another built just after it, the late one is placed a whole
   period too late and every line after them too, because a second wrap is counted.
3. `sleep_duration`. `sleep_actual_s` is documented as "port gone time" (`types.py:42`) and
   is measured from the SLEEP marker, so it includes the time to enter sleep.
4. `crash_silence`. A crash followed by fewer lines than `crash_line_limit` and then
   silence, which is what a device that crashes hard does, is reported as a silent hang
   without pattern or lines; the crash is dropped.
5. `port_back`. After a sleep announced by a pattern, `check_port` never records that the
   port went, so its return leaves the state sleeping; the docstring says waking.

Smaller things met on the way and modelled as they are.

- Framings: the HDLC writer accepts payloads of `buf_size` bytes, which a framer of the same size
  cannot hold with its checksum; the COBS framer allows one byte of overhead where a full block at the
  end of the payload needs two; XON and XOFF are not escaped; a frame of two zero bytes is a good empty
  HDLC frame; noise before the first END of SLIP is delivered as a frame.
- Messages: `write_text` and `write_binary` do not look at `_in_message`. A character cut by two chunks
  becomes two replacement characters in a `MessageReader` and is whole in a `LineFramer`. The C++ handler strips a
  carriage return after the cut, so a line whose last byte in the buffer is a carriage return loses it; half a
  line from before `reset()` comes in front of the first line after it.
- Transports: `write` is documented to raise `ConnectionError` (`serial.py:203`, `websocket.py:202`); when the connection is
  lost again in the retry, it raises the library's error (`RawOnlyIfLostAgain`). A serial `read` that reconnects again and
  again has no deadline. After `ConnectionClosed` without reconnect the WebSocket stays "connected" and `connect`
  returns at once. `read` with timeout 0 never receives from the WebSocket. An empty frame ends a `read` early.
  `WebSocketTransport.port_path` is the URI, which `TestSession` would poll as a file.
- Receivers: `check_timeout` runs while a crash is buffered; an exception of a receiver with a predicate is swallowed
  and of one without aborts the later routes. A MEM line without CRC is accepted when it is
  truncated; a number that is missing counts as 0; one that is none leaves the numbers before it stored.
- TestSession: a half line kept over a reopened port joins the first line of the next connection, which can
  cost a call its answer. `monitor` called again after it has read `test_end` but not `TEST_STOPPED` returns
  "ok" whatever the device reported. A whole TEST_STARTED line left over from an earlier connection
  makes `start_test` return "started" before the device has seen the command (`misled`). When the SOH of a
  reconnect fails, the transport is not disconnected: `connect` finds the dead handle open and returns at once, so the attempts
  left fail too although the port may be back. `flush` has no timeout, so a device that is there
  and takes nothing holds a call for ever and takes `monitor` past its timeout.
- MemoryTracker: an AFTER line is paired with an older BEFORE line of the same test when the newer one was lost;
  `MemoryOfLastLines` allows that, and finds the pairs that are mixed although both lines came.

## 6. Not modelled, and the plan

Not modelled, and not planned: the C++ `MessageWriter` (`message.h:331-392`: it writes through at once and does not know
whether a message is open, so `MessageLink` is about the Python writer), how port names are resolved (a subprocess call; that it may fail or last is part of `connect`), protocols and
re-exports (no behaviour), `BufferWriter` (a bounded copy), the wording of events and reports, JSON and MEM line
syntax, `on_event` and `on_span` callbacks of EventCapture, PPK markers (`protocol.py` formatting), reads that
block without timeout, the 32-bit length of the C++ reader (a message would need 4 GB).
`TestSession` is modelled without a `sleep_detector` callback.

Next, in this order:

1. **TestSession** with a `sleep_detector` that answers "unknown" or raises, and over a transport with
   `reconnect`, where a `read` may itself take longer than the call's timeout.
2. **MessageReader behind a transport that reconnects inside `read`**: how many messages after the
   reconnect are lost to the half message before it.
3. **Proofs**: from `BurstDetected`, the disturbances of the line that never deliver a payload, as a property of
   `HdlcLink` that holds of every payload.
