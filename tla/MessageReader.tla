--------------------------- MODULE MessageReader ---------------------------
(***************************************************************************)
(* framing/message.py: MessageReader, fed by a transport in chunks of any  *)
(* size, with the internal _DrainHandler.                                  *)
(*                                                                         *)
(* `feed` is a loop over one chunk; each branch of the loop is an action   *)
(* and `data` is the part of the chunk (data[i:]) the loop has not reached.*)
(* A new chunk is taken, the messages drained, or the reader reset only    *)
(* between two calls of feed, when data is empty.                          *)
(***************************************************************************)
EXTENDS MessageFormat

VARIABLES
    data,               \* what the running call of feed has still to process
    state,              \* _state
    varint_value,       \* _varint_value
    varint_scale,       \* 1 << _varint_shift
    varint_bytes_read,  \* _varint_bytes_read
    payload_remaining,  \* _payload_remaining
    text_buf,           \* _text_buf, joined
    binary_buf,         \* _binary_buf
    messages            \* _DrainHandler.messages

parser_vars == <<state, varint_value, varint_scale, varint_bytes_read, payload_remaining>>
varint_vars == <<varint_value, varint_scale, varint_bytes_read>>
handler_vars == <<text_buf, binary_buf, messages>>
reader_vars == <<data, parser_vars, handler_vars>>

States == {"IDLE", "TEXT", "VERSION", "LENGTH", "PAYLOAD"}

ReaderInit ==
    /\ data = <<>>
    /\ state = "IDLE"
    /\ varint_value = 0
    /\ varint_scale = 1
    /\ varint_bytes_read = 0
    /\ payload_remaining = 0
    /\ text_buf = <<>>
    /\ binary_buf = <<>>
    /\ messages = <<>>

-----------------------------------------------------------------------------
(* The handler's callbacks.                                                *)

\* on_text_data(chunk) when there is a chunk, then on_text_end()
TextEnd(chunk) ==
    /\ messages' = Append(messages, Text(StripCR(text_buf \o DecodeUtf8(chunk))))
    /\ text_buf' = <<>>
    /\ UNCHANGED binary_buf

\* on_text_data(chunk): every chunk is decoded on its own
TextData(chunk) ==
    /\ text_buf' = text_buf \o DecodeUtf8(chunk)
    /\ UNCHANGED <<binary_buf, messages>>

\* on_binary_data(chunk) then on_binary_end()
BinaryEnd(chunk) ==
    /\ messages' = Append(messages, Binary(binary_buf \o chunk))
    /\ binary_buf' = <<>>
    /\ UNCHANGED text_buf

-----------------------------------------------------------------------------
(* The branches of the loop of feed.                                       *)

Delimiter(c) == c \in {LF, SOH}

IdleSOH ==
    /\ data # <<>> /\ state = "IDLE" /\ Head(data) = SOH
    /\ state' = "VERSION"
    /\ data' = Tail(data)
    /\ UNCHANGED <<varint_vars, payload_remaining, handler_vars>>

IdleNewline ==
    /\ data # <<>> /\ state = "IDLE" /\ Head(data) = LF
    /\ TextEnd(<<>>)
    /\ data' = Tail(data)
    /\ UNCHANGED parser_vars

\* The states in which feed calls _feed_text.
AtText ==
    /\ data # <<>>
    /\ \/ state = "TEXT"
       \/ state = "IDLE" /\ ~Delimiter(Head(data))

\* Mutation: an SOH that ends a text does not begin a binary message.
AfterText_DropsSOH(c) == "IDLE"

AfterText(c) == IF c = LF THEN "IDLE" ELSE "VERSION"

\* The next delimiter of the chunk is at k + 1.
FeedTextDelimiter ==
    /\ AtText
    /\ \E k \in 0..(Len(data) - 1) :
        /\ Delimiter(data[k + 1])
        /\ \A j \in 1..k : ~Delimiter(data[j])
        /\ TextEnd(SubSeq(data, 1, k))
        /\ state' = AfterText(data[k + 1])
        /\ data' = SubSeq(data, k + 2, Len(data))
    /\ UNCHANGED <<varint_vars, payload_remaining>>

FeedTextPartial ==
    /\ AtText
    /\ \A j \in 1..Len(data) : ~Delimiter(data[j])
    /\ TextData(data)
    /\ state' = "TEXT"
    /\ data' = <<>>
    /\ UNCHANGED <<varint_vars, payload_remaining>>

VersionKnown ==
    /\ data # <<>> /\ state = "VERSION" /\ Head(data) = BINARY_PROTOCOL_V1
    /\ state' = "LENGTH"
    /\ varint_value' = 0
    /\ varint_scale' = 1
    /\ varint_bytes_read' = 0
    /\ data' = Tail(data)
    /\ UNCHANGED <<payload_remaining, handler_vars>>

\* Mutation: the unknown version is parsed again as the start of a message.
VersionByte_Reparsed == data

VersionByte == Tail(data)

VersionUnknown ==
    /\ data # <<>> /\ state = "VERSION" /\ Head(data) # BINARY_PROTOCOL_V1
    /\ state' = "IDLE"
    /\ data' = VersionByte
    /\ UNCHANGED <<varint_vars, payload_remaining, handler_vars>>

\* _process_varint_byte accumulates whatever the byte is.
VarintByte(c) ==
    /\ varint_value' = varint_value + LowBits(c) * varint_scale
    /\ varint_scale' = varint_scale * Radix
    /\ varint_bytes_read' = varint_bytes_read + 1

\* Mutation: the limit on the length of a varint is off by one.
TooLong_OffByOne(bytes_read) == bytes_read > VarintMaxBytes

TooLong(bytes_read) == bytes_read >= VarintMaxBytes

LengthMore ==
    /\ data # <<>> /\ state = "LENGTH" /\ Continues(Head(data))
    /\ VarintByte(Head(data))
    /\ state' = IF TooLong(varint_bytes_read') THEN "IDLE" ELSE "LENGTH"
    /\ data' = Tail(data)
    /\ UNCHANGED <<payload_remaining, handler_vars>>

\* on_binary_start(length); a zero length ends the message at once.
LengthDone ==
    /\ data # <<>> /\ state = "LENGTH" /\ ~Continues(Head(data))
    /\ VarintByte(Head(data))
    /\ binary_buf' = <<>>
    /\ IF varint_value' = 0
       THEN /\ state' = "IDLE"
            /\ messages' = Append(messages, Binary(<<>>))
            /\ UNCHANGED payload_remaining
       ELSE /\ state' = "PAYLOAD"
            /\ payload_remaining' = varint_value'
            /\ UNCHANGED messages
    /\ data' = Tail(data)
    /\ UNCHANGED text_buf

\* Mutation: the whole chunk is taken for payload.
PayloadTake_All == Len(data)

PayloadTake == IF Len(data) < payload_remaining THEN Len(data) ELSE payload_remaining

\* Mutation: a chunk of the payload replaces the one before it.
Collected_Replaces(chunk) == chunk

\* on_binary_data(chunk)
Collected(chunk) == binary_buf \o chunk

FeedPayload ==
    LET take == PayloadTake IN
    /\ data # <<>> /\ state = "PAYLOAD"
    /\ payload_remaining' = payload_remaining - take
    /\ IF take = payload_remaining
       THEN /\ BinaryEnd(SubSeq(data, 1, take))
            /\ state' = "IDLE"
       ELSE /\ binary_buf' = Collected(SubSeq(data, 1, take))
            /\ UNCHANGED <<state, text_buf, messages>>
    /\ data' = SubSeq(data, take + 1, Len(data))
    /\ UNCHANGED varint_vars

FeedLoop ==
    \/ IdleSOH
    \/ IdleNewline
    \/ FeedTextDelimiter
    \/ FeedTextPartial
    \/ VersionKnown
    \/ VersionUnknown
    \/ LengthMore
    \/ LengthDone
    \/ FeedPayload

-----------------------------------------------------------------------------
(* The calls.                                                              *)

Feed(chunk) ==
    /\ data = <<>>
    /\ data' = chunk
    /\ UNCHANGED <<parser_vars, handler_vars>>

\* drain(): the caller takes `messages`
Drain ==
    /\ data = <<>>
    /\ messages' = <<>>
    /\ UNCHANGED <<data, parser_vars, text_buf, binary_buf>>

\* Mutation: the handler's buffers are not reset.
ResetHandler_KeepsBuffers == messages' = <<>> /\ UNCHANGED <<text_buf, binary_buf>>

ResetHandler ==
    /\ text_buf' = <<>>
    /\ binary_buf' = <<>>
    /\ messages' = <<>>

Reset ==
    /\ data = <<>>
    /\ UNCHANGED data
    /\ state' = "IDLE"
    /\ varint_value' = 0
    /\ varint_scale' = 1
    /\ varint_bytes_read' = 0
    /\ payload_remaining' = 0
    /\ ResetHandler

-----------------------------------------------------------------------------
Message == [kind : {"text"}, body : Seq(Seq(Byte))] \cup [kind : {"binary"}, body : Seq(Byte)]

ParserTypeOK ==
    /\ data \in Seq(Byte)
    /\ state \in States
    /\ varint_value \in Nat
    /\ varint_scale \in Nat
    /\ varint_bytes_read \in 0..VarintMaxBytes
    /\ payload_remaining \in Nat
    /\ binary_buf \in Seq(Byte)

ReaderTypeOK ==
    /\ ParserTypeOK
    /\ text_buf \in Seq(Seq(Byte))
    /\ messages \in Seq(Message)

=============================================================================
