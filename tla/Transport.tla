------------------------------ MODULE Transport ------------------------------
(***************************************************************************)
(* What transport/serial.py and transport/websocket.py share: a caller     *)
(* that opens, closes, reads and writes; a peer (the device on its port,   *)
(* or a server) that comes and goes; and _do_reconnect, the same loop in   *)
(* both.  SerialTransport and WebSocketTransport EXTEND this module with   *)
(* the steps of read and write.                                            *)
(*                                                                         *)
(* A byte is <<connection, position>>, a command is its number.  The clock *)
(* counts from the beginning of the running call.                          *)
(***************************************************************************)
EXTENDS Integers, Sequences, FiniteSets, SequencesExt

CONSTANTS
    Sizes,              \* the values of read's size; None is -1
    Timeouts,           \* the values of read's timeout
    Chunks,             \* the sizes of what the device sends at once
    OpenTimeout,        \* the longest an attempt to open takes
    ReconnectTimeout,   \* _reconnect_timeout
    ReconnectInterval,  \* _reconnect_interval
    MaxConnects,        \* bound: connect() is not called after so many connections
    MaxSends,           \* bound: chunks sent by the device
    MaxWrites,          \* bound: calls of write
    MaxDrops,           \* bound: connections lost
    None

ASSUME TransportTimes ==
    /\ {OpenTimeout, ReconnectTimeout, ReconnectInterval} \subseteq Nat \ {0}
    /\ Timeouts \subseteq Nat /\ Chunks \subseteq Nat
    /\ Sizes \subseteq (Nat \ {0}) \cup {None}

ASSUME BoundsAssumption == {MaxConnects, MaxSends, MaxWrites, MaxDrops} \subseteq Nat
ASSUME NoneAssumption == None \notin Nat \cup {"ConnectionError", "raw"}

VARIABLES
    kind,           \* "serial" or "websocket": which of the two this is
    reconnect,      \* _reconnect
    \* The connection.
    handle,         \* _serial or _ws: "none", "open", or "dead" (held, but the connection is gone)
    present,        \* the port exists, the server listens
    wire,           \* what the device has sent and read() can still return
    buffer,         \* _buffer of the WebSocketTransport
    out,            \* commands written that the device has not taken
    \* The running call.
    call, at, size, clock,
    due,            \* the deadline of read
    until,          \* the deadline of _do_reconnect
    wake,           \* when the attempt or the time.sleep under way ends
    retry,          \* write has reconnected, and writes again
    \* History.
    conn, sent, taken, got, \* as in ByteStream
    heard,                  \* the commands the device has taken, with the connection
    written,                \* calls of write
    raised,                 \* what the last write raised: None, "ConnectionError" or "raw"
    reconnects,             \* reconnects in the running call
    drops, sends

link_vars == <<handle, present, wire, buffer, out>>
call_vars == <<call, at, size, clock, due, until, wake, retry>>
stream_vars == <<conn, sent, taken, got>>
history_vars == <<heard, written, raised, reconnects, drops, sends>>
transport_vars == <<kind, reconnect, link_vars, call_vars, stream_vars, history_vars>>

TransportInit ==
    /\ kind \in {"serial", "websocket"}
    /\ reconnect \in BOOLEAN
    /\ handle = "none" /\ present = TRUE
    /\ wire = <<>> /\ buffer = <<>> /\ out = <<>>
    /\ call = "none" /\ at = "none" /\ size = None /\ clock = 0
    /\ due = 0 /\ until = 0 /\ wake = 0 /\ retry = FALSE
    /\ conn = 0 /\ sent = 0 /\ taken = 0 /\ got = <<>>
    /\ heard = <<>> /\ written = 0 /\ raised = None
    /\ reconnects = 0 /\ drops = 0 /\ sends = 0

-----------------------------------------------------------------------------
(* The handle.                                                             *)

Opened ==
    /\ handle' = "open"
    /\ conn' = conn + 1
    /\ sent' = 0
    /\ taken' = 0
    /\ UNCHANGED <<present, wire, buffer, out, got>>

\* Mutation: the bytes received before the connection was closed stay.
Closed_KeepsBuffer ==
    /\ handle' = "none"
    /\ wire' = <<>>
    /\ out' = <<>>
    /\ UNCHANGED <<present, buffer>>

\* disconnect()
Closed ==
    /\ handle' = "none"
    /\ wire' = <<>>
    /\ out' = <<>>
    /\ buffer' = <<>>
    /\ UNCHANGED present

-----------------------------------------------------------------------------
(* The caller, between two calls.  A call on no connection raises at once,  *)
(* and connect() on a handle, a dead one too, returns at once.             *)

Idle == call = "none"

Connect ==
    /\ Idle /\ handle = "none" /\ present /\ conn < MaxConnects
    /\ Opened
    /\ UNCHANGED <<reconnect, call_vars, history_vars>>

Disconnect ==
    /\ Idle /\ handle # "none"
    /\ Closed
    /\ UNCHANGED <<reconnect, call_vars, stream_vars, history_vars>>

Begin(name, place, n, timeout) ==
    /\ Idle /\ handle # "none"
    /\ call' = name
    /\ at' = place
    /\ size' = n
    /\ due' = timeout
    /\ UNCHANGED <<clock, until, wake, retry, reconnect, link_vars, stream_vars,
                   heard, raised, reconnects, drops, sends>>

Read(n, timeout) == Begin("read", "reading", n, timeout) /\ UNCHANGED written

Write ==
    /\ written < MaxWrites
    /\ Begin("write", "writing", None, 0)
    /\ written' = written + 1

Caller ==
    \/ Connect
    \/ Disconnect
    \/ \E n \in Sizes, timeout \in Timeouts : Read(n, timeout)
    \/ Write

\* The call ends; error is what it raises, or None.
Return(error) ==
    /\ call' = "none" /\ at' = "none" /\ size' = None
    /\ clock' = 0 /\ due' = 0 /\ until' = 0 /\ wake' = 0 /\ retry' = FALSE
    /\ reconnects' = 0
    /\ raised' = IF call = "write" THEN error ELSE raised
    /\ UNCHANGED <<reconnect, heard, written, drops, sends>>

\* read returns these bytes.
ReturnBytes(bytes) ==
    /\ Return(None)
    /\ got' = got \o bytes
    /\ taken' = taken + Len(bytes)
    /\ UNCHANGED <<conn, sent>>

\* Mutation: the result is cut to the size asked for, and the rest dropped.
Split_Dropped(bytes) ==
    IF size = None \/ size >= Len(bytes) THEN <<bytes, <<>>>>
    ELSE <<SubSeq(bytes, 1, size), <<>>>>

\* What a read of `size` returns of the bytes at hand, and what it leaves.
Split(bytes) ==
    IF size = None \/ size >= Len(bytes) THEN <<bytes, <<>>>>
    ELSE <<SubSeq(bytes, 1, size), SubSeq(bytes, size + 1, Len(bytes))>>

-----------------------------------------------------------------------------
(* _do_reconnect.                                                          *)

Attempt ==
    /\ at' = "opening"
    /\ wake' = clock + OpenTimeout
    /\ UNCHANGED <<call, size, clock, due, retry>>

\* Mutation: write reconnects as often as it must.
MayReconnect_Always == reconnect

\* read reconnects again and again, write once.
MayReconnect == reconnect /\ ~retry

\* Mutation: the error of the library is not converted.
LossError_Raw == "raw"

\* The error of the second write is not converted.
LossError == IF reconnect THEN "raw" ELSE "ConnectionError"

\* The connection is found lost in the middle of a call.
ConnectionLost ==
    IF MayReconnect
    THEN /\ Closed
         /\ until' = clock + ReconnectTimeout
         /\ Attempt
         /\ reconnects' = reconnects + 1
         /\ UNCHANGED <<reconnect, stream_vars, heard, written, raised, drops, sends>>
    ELSE /\ Return(LossError)
         /\ UNCHANGED <<link_vars, stream_vars>>

\* read goes round its loop; write writes again.
AttemptSucceeds ==
    /\ at = "opening" /\ present
    /\ Opened
    /\ at' = IF call = "read" THEN "reading" ELSE "writing"
    /\ retry' = (call = "write")
    /\ until' = 0 /\ wake' = 0
    /\ UNCHANGED <<reconnect, call, size, clock, due, history_vars>>

AttemptFails ==
    /\ at = "opening" /\ (present => clock = wake)
    /\ at' = "sleeping"
    /\ wake' = clock + ReconnectInterval
    /\ UNCHANGED <<call, size, clock, due, until, retry>>
    /\ UNCHANGED <<reconnect, link_vars, stream_vars, history_vars>>

AttemptAgain ==
    /\ at = "sleeping" /\ clock = wake /\ clock < until
    /\ Attempt
    /\ UNCHANGED <<until, reconnect, link_vars, stream_vars, history_vars>>

ReconnectFails ==
    /\ at = "sleeping" /\ clock = wake /\ clock >= until
    /\ Return("ConnectionError")
    /\ UNCHANGED <<link_vars, stream_vars>>

Reconnecting == AttemptSucceeds \/ AttemptFails \/ AttemptAgain \/ ReconnectFails

-----------------------------------------------------------------------------
(* The peer.                                                               *)

PeerVars == <<reconnect, call_vars, taken, got, written, raised, reconnects>>

\* The device sends a chunk of n bytes; Put(chunk) is how it reaches the wire.
Sends(n, Put(_)) ==
    /\ handle = "open" /\ sends < MaxSends
    /\ sends' = sends + 1
    /\ sent' = sent + n
    /\ Put([i \in 1..n |-> <<conn, sent + i>>])
    /\ UNCHANGED <<PeerVars, handle, present, buffer, out, conn, heard, drops>>

\* The device takes the next command.
Hears ==
    /\ out # <<>>
    /\ heard' = Append(heard, <<conn, Head(out)>>)
    /\ out' = Tail(out)
    /\ UNCHANGED <<PeerVars, handle, present, wire, buffer, conn, sent, drops, sends>>

\* The peer goes away, or only the connection; what was in flight to the device is
\* lost, and the first k elements of the wire can still be read.
Drops(stays, k) ==
    /\ present /\ drops < MaxDrops
    /\ drops' = drops + 1
    /\ present' = stays
    /\ handle' = IF handle = "open" THEN "dead" ELSE handle
    /\ wire' = IF handle = "open" THEN SubSeq(wire, 1, k) ELSE wire
    /\ out' = <<>>
    /\ UNCHANGED <<PeerVars, buffer, conn, sent, heard, sends>>

ComesBack ==
    /\ ~present
    /\ present' = TRUE
    /\ UNCHANGED <<PeerVars, handle, wire, buffer, out, conn, sent, heard, drops, sends>>

\* Time passes while the host waits, and only then.
Tick ==
    /\ \/ at = "reading" /\ clock < due
       \/ at \in {"opening", "sleeping"} /\ clock < wake
    /\ clock' = clock + 1
    /\ UNCHANGED <<call, at, size, due, until, wake, retry>>
    /\ UNCHANGED <<reconnect, link_vars, stream_vars, history_vars>>

-----------------------------------------------------------------------------
(* Properties.                                                             *)

Byte == Nat \X Nat
Command == 1..MaxWrites

\* A call stands where it may stand, and past its first line it holds a handle
\* except while it opens one: the second _ensure_connected of read and write never
\* raises.  Without a handle nothing is buffered.
TransportTypeOK ==
    /\ reconnect \in BOOLEAN /\ present \in BOOLEAN
    /\ handle \in {"none", "open", "dead"}
    /\ wire \in Seq(IF kind = "serial" THEN Byte ELSE Seq(Byte))
    /\ buffer \in Seq(Byte) /\ (kind = "serial" => buffer = <<>>)
    /\ out \in Seq(Command)
    /\ \/ call = "none" /\ at = "none"
       \/ call = "read" /\ at \in {"reading", "opening", "sleeping"} /\ ~retry
       \/ call = "write" /\ at \in {"writing", "flushing", "opening", "sleeping"}
    /\ at \in {"reading", "writing", "flushing"} => handle # "none"
    /\ handle = "none" => wire = <<>> /\ buffer = <<>> /\ out = <<>>
    /\ {clock, due, until, wake} \subseteq Nat
    /\ raised \in {None, "ConnectionError", "raw"}

HeardAs(c) == {i \in DOMAIN heard : heard[i][2] = c}

\* The device hears commands in the order of the writes.  The retry of a write may
\* repeat one, once, on another connection, and only where a flush can fail after
\* the command has left: over a WebSocket no command is heard twice.  A serial write
\* that returned was heard.
HeardAsWritten ==
    /\ \A i, j \in DOMAIN heard : i < j => heard[i][2] <= heard[j][2]
    /\ \A c \in Command : \A i, j \in HeardAs(c) :
        i # j => kind = "serial" /\ reconnect /\ heard[i][1] # heard[j][1]
    /\ \A c \in Command : Cardinality(HeardAs(c)) <= 2
    /\ kind = "serial" /\ call # "write" /\ written > 0 /\ raised = None => HeardAs(written) # {}

\* The longest that one reconnect takes.
OneReconnect == ReconnectTimeout - 1 + OpenTimeout + ReconnectInterval

\* read overruns its timeout by one reconnect over a WebSocket, and over a serial
\* port by every reconnect it makes: its deadline does not stop it from making more.
ReadOverrunBounded ==
    call = "read" =>
        clock <= due + OneReconnect * (IF kind = "serial" \/ reconnects = 0 THEN reconnects ELSE 1)

\* An error that is not a ConnectionError leaves a write only when the connection
\* it has just reconnected is lost again.
RawOnlyIfLostAgain ==
    [][raised # "raw" /\ raised' = "raw" => call = "write" /\ reconnects > 0 /\ handle = "dead"]_transport_vars

\* The caller reads a byte stream: what read returns are the bytes of the connection
\* of that moment, in order and without a gap, none of an earlier connection after
\* one of a later, whatever was buffered, cut to size or lost on the way.
Stream == INSTANCE ByteStream
ImplementsStream == Stream!Spec

=============================================================================
