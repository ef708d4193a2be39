--------------------------- MODULE MessageFormat ---------------------------
(***************************************************************************)
(* The wire format of framing/message.py: the bytes of a text line and of  *)
(* a binary message, the varint length and the UTF-8 decoding of a chunk.  *)
(*                                                                         *)
(* Bytes are numbers.  A character is the sequence of bytes that encodes   *)
(* it; only one- and two-byte characters are modelled.  Radix is 128 in    *)
(* the code (7 payload bits per varint byte); a smaller power of two lets  *)
(* a short payload have a multi-byte length.                               *)
(***************************************************************************)
EXTENDS Integers, Sequences, SequencesExt

CONSTANTS
    Radix,          \* 2^7 in the code: c & 0x7F is c % Radix
    VarintMaxBytes, \* _VARINT_MAX_BYTES
    Lead,           \* the bytes that open a two-byte UTF-8 character
    Cont            \* the UTF-8 continuation bytes

Byte == 0..255
SOH == 1
BINARY_PROTOCOL_V1 == 1
LF == 10
CR == 13

ASSUME RadixAssumption == Radix \in Nat /\ Radix > 1 /\ 2 * Radix <= 256
ASSUME VarintMaxAssumption == VarintMaxBytes \in Nat \ {0}
ASSUME Utf8Assumption ==
    /\ Lead \subseteq 194..223
    /\ Cont \subseteq 128..191

Text(chars) == [kind |-> "text", body |-> chars]
Binary(bytes) == [kind |-> "binary", body |-> bytes]

-----------------------------------------------------------------------------
(* Varints (LEB128).                                                       *)

LowBits(c) == c % Radix
Continues(c) == (c \div Radix) % 2 = 1

EncodeVarint[n \in Nat] ==
    IF n >= Radix THEN <<LowBits(n) + Radix>> \o EncodeVarint[n \div Radix]
                  ELSE <<n>>

\* The value of the first k bytes of a varint, and the scale of the one after them.
Accumulated(data) ==
    LET After[k \in 0..Len(data)] ==
            IF k = 0 THEN [value |-> 0, scale |-> 1]
            ELSE [value |-> After[k - 1].value + LowBits(data[k]) * After[k - 1].scale,
                  scale |-> After[k - 1].scale * Radix]
    IN  After

\* decode_varint: the value and the bytes consumed, or no result ("too long"
\* and "truncated" are both a ValueError).
DecodeVarint(data) ==
    LET last == SelectInSeq(data, LAMBDA c : ~Continues(c))
    IN  IF last = 0 \/ last > VarintMaxBytes
        THEN [ok |-> FALSE, value |-> 0, used |-> 0]
        ELSE [ok |-> TRUE, value |-> Accumulated(data)[last].value, used |-> last]

-----------------------------------------------------------------------------
(* UTF-8 with errors="replace".                                            *)

Replacement == <<239, 191, 189>>

\* What bytes.decode yields at position i: the character that starts there,
\* nothing when the byte completes the character before it.
DecodedAt(s, i) ==
    IF s[i] < 128 THEN << <<s[i]>> >>
    ELSE IF s[i] \in Lead /\ i < Len(s) /\ s[i + 1] \in Cont
    THEN << <<s[i], s[i + 1]>> >>
    ELSE IF s[i] \in Cont /\ i > 1 /\ s[i - 1] \in Lead
    THEN << >>
    ELSE << Replacement >>

DecodeUtf8(s) == FlattenSeq([i \in 1..Len(s) |-> DecodedAt(s, i)])

EncodeUtf8(chars) == FlattenSeq(chars)

-----------------------------------------------------------------------------
(* Whole messages.                                                         *)

\* line[:-1] if line.endswith("\r") else line
StripCR(chars) ==
    IF chars # <<>> /\ Last(chars) = <<CR>> THEN Front(chars) ELSE chars

BinaryHeader(length) == <<SOH, BINARY_PROTOCOL_V1>> \o EncodeVarint[length]

WireText(chars) == EncodeUtf8(chars) \o <<LF>>
WireBinary(payload) == BinaryHeader(Len(payload)) \o payload

=============================================================================
