---------------------------- MODULE MessageLink ----------------------------
(***************************************************************************)
(* A sender that writes messages with MessageWriter of message.py, a       *)
(* reliable wire (USB CDC, TCP), a host that feeds what it reads to        *)
(* MessageReader and drains it.                                            *)
(* The sender may be restarted in the middle of a message; the             *)
(* host then reopens the port, which drops the bytes in flight, and resets *)
(* its reader.  The reader's handler is modelled twice, in Python and C++. *)
(***************************************************************************)
EXTENDS BufferingHandler

CONSTANTS
    Lines,          \* the text lines the device writes, as character sequences
    Payloads,       \* the binary payloads it writes
    MaxSent,        \* bound: messages written since the last restart
    MaxRestarts     \* bound: restarts

ASSUME BoundsAssumption == MaxSent \in Nat /\ MaxRestarts \in Nat

\* What a text line may hold: ASCII characters other than newline and SOH, which
\* end it, and no final carriage return, which the reader strips.  The bytes of a
\* longer character may come in two chunks, and are then lost (MessageStream).
Ascii == {<<c>> : c \in (0..127) \ {LF, SOH}}

ASSUME LinesAssumption ==
    /\ Lines \subseteq Seq(Ascii)
    /\ \A line \in Lines : line # <<>> => Last(line) # <<CR>>

\* What a binary payload may hold: anything, up to the length that the reader takes.
ASSUME PayloadsAssumption ==
    /\ Payloads \subseteq Seq(Byte)
    /\ \A payload \in Payloads : Len(EncodeVarint[Len(payload)]) <= VarintMaxBytes

VARIABLES
    out,            \* MessageWriter._buf
    in_message,     \* MessageWriter._in_message
    writing,        \* the message the device is streaming (history)
    unwritten,      \* its bytes not yet passed to write()
    wire,           \* bytes sent and not yet read by the host
    sent,           \* history: the messages sent since the last restart
    got,            \* history: the messages drained since the last restart
    stale,          \* history: what the last restart left in cpp_text
    restarts

writer_vars == <<out, in_message, writing, unwritten>>
host_vars == <<reader_vars, cpp_vars>>
vars == <<host_vars, writer_vars, wire, sent, got, stale, restarts>>

NoMessage == Text(<<>>)

Init ==
    /\ ReaderInit
    /\ CppInit
    /\ stale = <<>>
    /\ out = <<>>
    /\ in_message = FALSE
    /\ writing = NoMessage
    /\ unwritten = <<>>
    /\ wire = <<>>
    /\ sent = <<>>
    /\ got = <<>>
    /\ restarts = 0

-----------------------------------------------------------------------------
(* MessageWriter.                                                          *)

\* write_text(line); like write_binary it does not ask whether a message is
\* being streamed.
WriteText(line) ==
    /\ wire' = wire \o WireText(line)
    /\ sent' = Append(sent, Text(line))
    /\ UNCHANGED <<host_vars, writer_vars, got, stale, restarts>>

\* write_binary(payload)
WriteBinary(payload) ==
    /\ wire' = wire \o WireBinary(payload)
    /\ sent' = Append(sent, Binary(payload))
    /\ UNCHANGED <<host_vars, writer_vars, got, stale, restarts>>

\* begin_text()
BeginText(line) ==
    /\ ~in_message
    /\ in_message' = TRUE
    /\ out' = <<>>
    /\ writing' = Text(line)
    /\ unwritten' = EncodeUtf8(line)
    /\ UNCHANGED <<host_vars, wire, sent, got, stale, restarts>>

\* begin_binary(length)
BeginBinary(payload) ==
    /\ ~in_message
    /\ in_message' = TRUE
    /\ out' = BinaryHeader(Len(payload))
    /\ writing' = Binary(payload)
    /\ unwritten' = payload
    /\ UNCHANGED <<host_vars, wire, sent, got, stale, restarts>>

\* write(data), with the next n bytes
Write(n) ==
    /\ in_message
    /\ out' = out \o SubSeq(unwritten, 1, n)
    /\ unwritten' = SubSeq(unwritten, n + 1, Len(unwritten))
    /\ UNCHANGED <<host_vars, in_message, writing, wire, sent, got, stale, restarts>>

\* Mutation: a streamed text is not ended by a newline.
Terminator_Missing == <<>>

\* A text is ended by a newline.
Terminator == IF out = <<>> \/ out[1] # SOH THEN <<LF>> ELSE <<>>

\* end(), which the device calls when the whole message has been written
End ==
    /\ in_message
    /\ unwritten = <<>>
    /\ in_message' = FALSE
    /\ wire' = wire \o out \o Terminator
    /\ out' = <<>>
    /\ sent' = Append(sent, writing)
    /\ writing' = NoMessage
    /\ UNCHANGED <<host_vars, unwritten, got, stale, restarts>>

-----------------------------------------------------------------------------
(* The host and the wire.                                                  *)

\* The transport returns any non-empty prefix of the bytes in flight.
ReadAndFeed(n) ==
    /\ Feed(SubSeq(wire, 1, n))
    /\ UNCHANGED cpp_vars
    /\ wire' = SubSeq(wire, n + 1, Len(wire))
    /\ UNCHANGED <<writer_vars, sent, got, stale, restarts>>

FeedIteration ==
    /\ FeedLoop
    /\ Callbacks
    /\ UNCHANGED <<writer_vars, wire, sent, got, stale, restarts>>

DrainMessages ==
    /\ Drain
    /\ UNCHANGED cpp_vars
    /\ got' = got \o messages
    /\ UNCHANGED <<writer_vars, wire, sent, stale, restarts>>

\* The device restarts, perhaps in the middle of a message of which the host
\* has already consumed a part; the host reconnects and resets its reader.
Restart ==
    /\ restarts < MaxRestarts
    /\ restarts' = restarts + 1
    /\ Reset
    /\ cpp_messages' = <<>>
    /\ stale' = cpp_text
    /\ UNCHANGED <<cpp_text, cpp_binary>>
    /\ wire' = <<>>
    /\ out' = <<>>
    /\ in_message' = FALSE
    /\ writing' = NoMessage
    /\ unwritten' = <<>>
    /\ sent' = <<>>
    /\ got' = <<>>

Device ==
    \/ /\ Len(sent) < MaxSent
       /\ \/ \E line \in Lines : WriteText(line) \/ BeginText(line)
          \/ \E payload \in Payloads : WriteBinary(payload) \/ BeginBinary(payload)
    \/ \E n \in 1..Len(unwritten) : Write(n)
    \/ End

HostRead == \E n \in 1..Len(wire) : ReadAndFeed(n)

Next ==
    \/ Device
    \/ HostRead
    \/ FeedIteration
    \/ DrainMessages
    \/ Restart

\* The host polls the port for ever and feed is an ordinary loop.  Nothing is
\* assumed of the device, nor of the caller of drain().
Spec == Init /\ [][Next]_vars /\ WF_vars(HostRead) /\ WF_vars(FeedIteration)

-----------------------------------------------------------------------------
(* Properties.                                                             *)

TypeOK ==
    /\ ReaderTypeOK
    /\ out \in Seq(Byte)
    /\ in_message \in BOOLEAN
    /\ writing \in Message
    /\ unwritten \in Seq(Byte)
    /\ wire \in Seq(Byte)
    /\ sent \in Seq(Message)
    /\ got \in Seq(Message)
    /\ restarts \in 0..MaxRestarts
    /\ cpp_text \in Seq(Byte) /\ Len(cpp_text) <= TextBufSize
    /\ cpp_binary \in Seq(Byte) /\ Len(cpp_binary) <= BinaryBufSize

Channel == INSTANCE MessageChannel WITH
    Messages <- {Text(line) : line \in Lines} \cup {Binary(payload) : payload \in Payloads},
    delivered <- got \o messages

\* However the bytes are chunked, and whatever bytes the payloads hold (SOH and
\* newlines included), the link is a reliable channel of whole messages; a
\* restart in the middle of a message leaves no trace in the messages sent
\* after it; and every message sent is delivered in the end.
ImplementsChannel == Channel!Spec

\* The parser is between two messages whenever it has consumed all that was
\* sent: the host never waits inside a message for bytes that will not come.
InSync == data = <<>> /\ wire = <<>> => state = "IDLE"

\* The messages parsed since the last restart, and the first text of them.
Parsed == got \o messages
FirstText == SelectInSeq(Parsed, LAMBDA m : m.kind = "text")

\* What the C++ handler makes of the k-th message parsed.
CppView(k) ==
    IF Parsed[k].kind = "binary" THEN Binary(Cut(Parsed[k].body, BinaryBufSize))
    ELSE [kind |-> "text",
          body |-> CppLine((IF k = FirstText THEN stale ELSE <<>>) \o EncodeUtf8(Parsed[k].body))]

\* The C++ handler delivers the same messages, each cut to its buffer, and after a
\* restart nothing of the payload that was being received; but what was left of the
\* text comes in front of the first text line after it.
BufferedAsParsed == cpp_messages = [k \in 1..Len(Parsed) |-> CppView(k)]

=============================================================================
