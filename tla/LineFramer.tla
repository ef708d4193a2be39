----------------------------- MODULE LineFramer -----------------------------
(* framing/line.py: LineFramer, with the incremental UTF-8 decoder of the   *)
(* library, which holds a character's first byte until the next one comes. *)
EXTENDS MessageFormat

VARIABLES
    decoder,    \* what _decoder holds back
    line_buf,   \* _buf
    lines       \* _messages

line_vars == <<decoder, line_buf, lines>>

LineInit == decoder = <<>> /\ line_buf = <<>> /\ lines = <<>>

HeldBack(bytes) ==
    IF bytes # <<>> /\ Last(bytes) \in Lead THEN <<Last(bytes)>> ELSE <<>>

\* The lines of a text, each without its carriage return, and the text after
\* the last newline.
Partition(chars) ==
    LET Upto[i \in 0..Len(chars)] ==
            IF i = 0 THEN [whole |-> <<>>, rest |-> <<>>]
            ELSE IF chars[i] = <<LF>>
            THEN [whole |-> Append(Upto[i - 1].whole, StripCR(Upto[i - 1].rest)), rest |-> <<>>]
            ELSE [whole |-> Upto[i - 1].whole, rest |-> Append(Upto[i - 1].rest, chars[i])]
    IN  Upto[Len(chars)]

\* feed(data)
FeedLine(chunk) ==
    LET bytes == decoder \o chunk
        held == HeldBack(bytes)
        text == line_buf \o DecodeUtf8(SubSeq(bytes, 1, Len(bytes) - Len(held)))
    IN  /\ decoder' = held
        /\ line_buf' = Partition(text).rest
        /\ lines' = lines \o Partition(text).whole

\* drain(): the caller takes `lines`
DrainLines ==
    /\ lines' = <<>>
    /\ UNCHANGED <<decoder, line_buf>>

\* Mutation: the decoder is not reset.
ResetLines_KeepsDecoder ==
    /\ line_buf' = <<>>
    /\ lines' = <<>>
    /\ UNCHANGED decoder

\* reset()
ResetLines ==
    /\ decoder' = <<>>
    /\ line_buf' = <<>>
    /\ lines' = <<>>

=============================================================================
