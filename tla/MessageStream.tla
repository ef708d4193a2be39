--------------------------- MODULE MessageStream ---------------------------
(***************************************************************************)
(* MessageReader, and a LineFramer beside it, on an arbitrary byte stream: *)
(* a host that attaches in the middle of a message, a device that reboots  *)
(* while it writes, a corrupted wire.  Both are compared with what the     *)
(* whole stream says, so the chunks in which the transport returned it     *)
(* must not matter.                                                        *)
(***************************************************************************)
EXTENDS MessageReader, LineFramer

CONSTANTS
    Alphabet,   \* the bytes that may appear on the wire
    MaxBytes,   \* bound: bytes fed since the start or the last reset
    MaxChunk    \* bound: bytes returned by one read

ASSUME AlphabetAssumption == Alphabet \subseteq Byte

VARIABLES
    \* History since the last reset.
    fed,        \* every byte passed to feed
    got,        \* every message drained
    got_lines,  \* every line drained from the LineFramer
    broken      \* positions of the first bytes of characters cut between two chunks

vars == <<reader_vars, line_vars, fed, got, got_lines, broken>>

Init ==
    /\ ReaderInit
    /\ LineInit
    /\ fed = <<>>
    /\ got = <<>>
    /\ got_lines = <<>>
    /\ broken = {}

FeedChunk(chunk) ==
    /\ Feed(chunk)
    /\ FeedLine(chunk)
    /\ fed' = fed \o chunk
    /\ broken' = IF fed # <<>> /\ Last(fed) \in Lead /\ Head(chunk) \in Cont
                 THEN broken \cup {Len(fed)} ELSE broken
    /\ UNCHANGED <<got, got_lines>>

FeedIteration ==
    /\ FeedLoop
    /\ UNCHANGED <<line_vars, fed, got, got_lines, broken>>

DrainMessages ==
    /\ Drain
    /\ DrainLines
    /\ got' = got \o messages
    /\ got_lines' = got_lines \o lines
    /\ UNCHANGED <<fed, broken>>

ResetReader ==
    /\ Reset
    /\ ResetLines
    /\ fed' = <<>>
    /\ got' = <<>>
    /\ got_lines' = <<>>
    /\ broken' = {}

\* A read that returned nothing is passed to feed by no caller.
Chunks == SeqOf(Alphabet, MaxChunk) \ {<<>>}

Next ==
    \/ \E chunk \in Chunks : Len(fed) + Len(chunk) <= MaxBytes /\ FeedChunk(chunk)
    \/ FeedIteration
    \/ DrainMessages
    \/ ResetReader

Spec == Init /\ [][Next]_vars

-----------------------------------------------------------------------------
(* Reference: the messages of a byte stream, from the grammar at the top   *)
(* of message.py.                                                          *)

\* The first position at or after i that holds a newline or SOH, or 0.
DelimiterFrom(s, i) == SelectInSubSeq(s, i, Len(s), Delimiter)

\* A text of which the characters in `cut` were read in two pieces, as UTF-8: no
\* byte of such a character decodes to anything but an error.
TextBytes(s, first, last, cut) ==
    [i \in 1..(last - first + 1) |-> IF first - 1 + i \in cut THEN 255 ELSE s[first - 1 + i]]

\* What begins at a message boundary: the position after it, or 0 when it does not
\* end in s, and the message, if it is one.
Unfinished == [next |-> 0, yields |-> <<>>]

TextAt(s, cut, i) ==
    LET end == DelimiterFrom(s, i)
    IN  IF end = 0 THEN Unfinished
        ELSE [next |-> IF s[end] = LF THEN end + 1 ELSE end,
              yields |-> <<Text(StripCR(DecodeUtf8(TextBytes(s, i, end - 1, cut))))>>]

BinaryAt(s, i) ==
    LET length == DecodeVarint(SubSeq(s, i + 2, Len(s)))
        payload == i + 2 + length.used
        end == payload + length.value
    IN  IF i = Len(s) THEN Unfinished
        ELSE IF s[i + 1] # BINARY_PROTOCOL_V1 THEN [next |-> i + 2, yields |-> <<>>]
        ELSE IF length.ok
        THEN IF end > Len(s) + 1 THEN Unfinished
             ELSE [next |-> end, yields |-> <<Binary(SubSeq(s, payload, end - 1))>>]
        ELSE IF i + 1 + VarintMaxBytes <= Len(s)
        THEN [next |-> i + 2 + VarintMaxBytes, yields |-> <<>>]
        ELSE Unfinished

ItemAt(s, cut, i) == IF s[i] = SOH THEN BinaryAt(s, i) ELSE TextAt(s, cut, i)

\* The messages from each position on, if that is a boundary.
MessagesFrom(s, cut) ==
    LET From[i \in 1..(Len(s) + 1)] ==
            IF i > Len(s) THEN <<>>
            ELSE LET item == ItemAt(s, cut, i)
                 IN  IF item.next = 0 THEN <<>> ELSE item.yields \o From[item.next]
    IN  From

MessagesOf(s, cut) == MessagesFrom(s, cut)[1]

Consumed == SubSeq(fed, 1, Len(fed) - Len(data))

\* The line of a whole text that ends at the newline e, split off before it is decoded.
LineTo(s, ends, e) ==
    StripCR(DecodeUtf8(SubSeq(s, 1 + Max({0} \cup {j \in ends : j < e}), e - 1)))

-----------------------------------------------------------------------------
(* Properties.                                                             *)

TypeOK ==
    /\ ReaderTypeOK
    /\ fed \in Seq(Byte)
    /\ got \in Seq(Message)

\* What was drained and what waits to be drained are exactly the messages of
\* the bytes consumed so far, each one available as soon as its last byte is
\* consumed: nothing is lost, merged, repeated or reordered by the way the
\* stream was cut into chunks, by the moments of drain() or by garbage.  One trace
\* of the chunks is left: a character cut in two by them is two errors.
ParsesStream == got \o messages = MessagesOf(Consumed, broken)

\* A LineFramer leaves no trace of the chunks: its lines are those of the stream
\* decoded as a whole, characters and carriage returns cut by a chunk included.
LinesOfStream ==
    LET ends == {i \in DOMAIN fed : fed[i] = LF}
        all == got_lines \o lines
    IN  /\ Len(all) = Cardinality(ends)
        /\ \A e \in ends : all[Cardinality({j \in ends : j <= e})] = LineTo(fed, ends, e)

\* A buffer is used only inside the message it belongs to, and the parser is
\* in the payload exactly while bytes of it are missing: no stale text or
\* payload is left for the next message, after a reset either.
BuffersBelongToMessage ==
    /\ text_buf # <<>> => state = "TEXT"
    /\ binary_buf # <<>> => state = "PAYLOAD"
    /\ state = "PAYLOAD" <=> payload_remaining > 0

\* A payload grows to the announced length and no further: the bytes buffered
\* and the bytes missing always make the length the varint announced.
PayloadAsAnnounced ==
    state = "PAYLOAD" => Len(binary_buf) + payload_remaining = varint_value

\* Every iteration of feed's loop consumes a byte, so feed returns.
FeedAdvances == [][data # <<>> => Len(data') < Len(data)]_vars

=============================================================================
