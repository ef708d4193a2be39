------------------------------ MODULE CobsLink ------------------------------
(***************************************************************************)
(* framing/cobs.py and framing/cobs.h: CobsFramer behind a noisy line.     *)
(* FullBlock is 0xFF in the code, the code byte of a block of FullBlock-1  *)
(* bytes that no zero follows; a smaller value makes short blocks.         *)
(***************************************************************************)
EXTENDS FramedLink

CONSTANT FullBlock

ASSUME FullBlockAssumption == FullBlock \in 2..255

VARIABLES
    raw,    \* _raw
    error   \* _error

framer_vars == <<raw, error>>
vars == <<link_vars, framer_vars>>

Init ==
    /\ LinkInit
    /\ raw = <<>>
    /\ error = FALSE

-----------------------------------------------------------------------------
(* cobs_encode: the blocks closed so far and the bytes of the open block;   *)
(* a block is written with its code byte in front when it closes.           *)

Block(bytes) == <<Len(bytes) + 1>> \o bytes

NoBlocks == [closed |-> <<>>, open |-> <<>>]

Extended(blocks, c) ==
    LET open == Append(blocks.open, c)
    IN  IF c = 0 THEN [closed |-> blocks.closed \o Block(blocks.open), open |-> <<>>]
        ELSE IF Len(open) + 1 = FullBlock
        THEN [closed |-> blocks.closed \o Block(open), open |-> <<>>]
        ELSE [blocks EXCEPT !.open = open]

cobs_encode(payload) ==
    LET After[i \in 0..Len(payload)] ==
            IF i = 0 THEN NoBlocks ELSE Extended(After[i - 1], payload[i])
        last == After[Len(payload)]
    IN  last.closed \o Block(last.open)

Encode(payload) == cobs_encode(payload) \o <<0>>

\* cobs_decode, from the block that starts at i; NoFrame is None.  The framer
\* never passes it a zero.
NoFrame == [ok |-> FALSE, bytes |-> <<>>]

cobs_decode(data) ==
    LET From[i \in 1..(Len(data) + 1)] ==
            LET end == i + data[i]      \* first position after the block
                separator == IF data[i] < FullBlock /\ end <= Len(data) THEN <<0>> ELSE <<>>
            IN  IF i > Len(data) THEN [ok |-> TRUE, bytes |-> <<>>]
                ELSE IF end > Len(data) + 1 \/ ~From[end].ok THEN NoFrame
                ELSE [ok |-> TRUE,
                      bytes |-> SubSeq(data, i + 1, end - 1) \o separator \o From[end].bytes]
    IN  From[1]

-----------------------------------------------------------------------------
(* CobsFramer.process_byte.                                                *)

\* The C++ decoder also stops at BufSize payload bytes; a payload is never longer
\* than its encoding less one, so the bound on raw covers it.
EndOfFrame ==
    LET decoded == cobs_decode(raw) IN
    /\ delivered' = IF raw # <<>> /\ ~error /\ decoded.ok
                    THEN Append(delivered, decoded.bytes) ELSE delivered
    /\ raw' = <<>>
    /\ error' = FALSE

Store(c) ==
    IF Len(raw) < BufSize + 1
    THEN raw' = Append(raw, c) /\ UNCHANGED error
    ELSE error' = TRUE /\ UNCHANGED raw

ProcessByte(c) ==
    \/ c = 0 /\ EndOfFrame
    \/ c # 0 /\ Store(c) /\ UNCHANGED delivered

Reset ==
    /\ raw' = <<>>
    /\ error' = FALSE
    /\ Noise(IF MidFrame THEN {at} ELSE {})
    /\ UNCHANGED <<writer_vars, line, sent, at, delivered>>

-----------------------------------------------------------------------------
(* Only the delimiter behind a frame separates it from the next one.        *)

\* The next byte is the delimiter of its frame.
AtDelimiter == Len(line) = 1 \/ line[2].frame # line[1].frame

TakenHits ==
    LET f == Head(line).frame IN IF AtDelimiter THEN {f, f + 1} ELSE {f}

InsertHits(c) ==
    IF MidFrame THEN {at} ELSE IF c = 0 THEN {} ELSE {at + 1}

Sending == Send(Encode) /\ UNCHANGED framer_vars

Arriving == Arrive(ProcessByte)

Noisy ==
    \/ \E c \in NoiseBytes : line # <<>> /\ Change(c, TakenHits, ProcessByte)
    \/ \E c \in NoiseBytes : Insert(c, InsertHits(c), ProcessByte)
    \/ line # <<>> /\ Lose(TakenHits) /\ UNCHANGED framer_vars

Next ==
    \/ Sending
    \/ Arriving
    \/ Noisy
    \/ Reset

Spec == Init /\ [][Next]_vars

-----------------------------------------------------------------------------
(* Properties.                                                             *)

TypeOK ==
    /\ LinkTypeOK
    /\ raw \in Seq(Byte) /\ Len(raw) <= BufSize + 1
    /\ error \in BOOLEAN

\* The framer has room for the encoded payload.  A payload the writer accepts
\* may need two bytes more than BufSize, and is then dropped here.
Carried(payload) == Len(cobs_encode(payload)) <= BufSize + 1

\* Without noise the link delivers exactly the payloads it can carry, once each,
\* in order: one that is too long is dropped whole and never truncated.
RoundTrip ==
    noise = 0 => /\ IsSubsequence(delivered, CanArrive(Carried))
                 /\ line = <<>> => delivered = CanArrive(Carried)

\* Noise costs no frame but those it touches; a lost delimiter touches two.
UntouchedDelivered == line = <<>> => IsSubsequence(MustArrive(Carried), delivered)

=============================================================================
