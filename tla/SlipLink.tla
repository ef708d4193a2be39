------------------------------ MODULE SlipLink ------------------------------
(***************************************************************************)
(* framing/slip.py and framing/slip.h: SlipFramer behind a noisy line.     *)
(***************************************************************************)
EXTENDS FramedLink

END_BYTE == 192
ESC == 219
ESC_END == 220
ESC_ESC == 221

VARIABLES
    buf,    \* _buf[0.._len)
    error,  \* _error
    escape  \* _escape

framer_vars == <<buf, error, escape>>
vars == <<link_vars, framer_vars>>

Init ==
    /\ LinkInit
    /\ buf = <<>>
    /\ error = FALSE
    /\ escape = FALSE

-----------------------------------------------------------------------------
Stuffed(c) ==
    CASE c = END_BYTE -> <<ESC, ESC_END>>
      [] c = ESC      -> <<ESC, ESC_ESC>>
      [] OTHER        -> <<c>>

Encode(payload) ==
    <<END_BYTE>> \o FlattenSeq([i \in 1..Len(payload) |-> Stuffed(payload[i])]) \o <<END_BYTE>>

-----------------------------------------------------------------------------
(* SlipFramer.process_byte, a disjunct for each branch.                    *)

Store(c) ==
    IF Len(buf) < BufSize
    THEN buf' = Append(buf, c) /\ UNCHANGED error
    ELSE error' = TRUE /\ UNCHANGED buf

\* What an escape sequence that ends in c stands for.
Unescaped == [c \in {ESC_END, ESC_ESC} |-> IF c = ESC_END THEN END_BYTE ELSE ESC]

\* Mutation: an escape left open by the frame escapes into the next one.
EndOfFrame_KeepsEscape ==
    /\ delivered' = IF buf # <<>> /\ ~error THEN Append(delivered, buf) ELSE delivered
    /\ buf' = <<>>
    /\ error' = FALSE
    /\ UNCHANGED escape

EndOfFrame ==
    /\ delivered' = IF buf # <<>> /\ ~error THEN Append(delivered, buf) ELSE delivered
    /\ buf' = <<>>
    /\ error' = FALSE
    /\ escape' = FALSE

ProcessByte(c) ==
    \/ c = END_BYTE /\ EndOfFrame
    \/ /\ c = ESC
       /\ escape' = TRUE
       /\ UNCHANGED <<buf, error, delivered>>
    \/ /\ c \notin {END_BYTE, ESC} /\ escape /\ c \in DOMAIN Unescaped
       /\ escape' = FALSE
       /\ Store(Unescaped[c])
       /\ UNCHANGED delivered
    \/ /\ c \notin {END_BYTE, ESC} /\ escape /\ c \notin DOMAIN Unescaped
       /\ escape' = FALSE
       /\ error' = TRUE
       /\ UNCHANGED <<buf, delivered>>
    \/ /\ c \notin {END_BYTE, ESC} /\ ~escape
       /\ Store(c)
       /\ UNCHANGED <<escape, delivered>>

Reset ==
    /\ buf' = <<>>
    /\ error' = FALSE
    /\ escape' = FALSE
    /\ Noise(IF MidFrame THEN {at} ELSE {})
    /\ UNCHANGED <<writer_vars, line, sent, at, delivered>>

-----------------------------------------------------------------------------
(* The END on each side of a frame keeps noise from reaching its neighbour. *)

Sending == Send(Encode) /\ UNCHANGED framer_vars

Arriving == Arrive(ProcessByte)

Noisy ==
    \/ \E c \in NoiseBytes : Change(c, {Head(line).frame}, ProcessByte)
    \/ \E c \in NoiseBytes : Insert(c, IF MidFrame THEN {at} ELSE {}, ProcessByte)
    \/ line # <<>> /\ Lose({Head(line).frame}) /\ UNCHANGED framer_vars

Next ==
    \/ Sending
    \/ Arriving
    \/ Noisy
    \/ Reset

Spec == Init /\ [][Next]_vars

-----------------------------------------------------------------------------
(* Properties.                                                             *)

TypeOK ==
    /\ LinkTypeOK
    /\ buf \in Seq(Byte) /\ Len(buf) <= BufSize
    /\ error \in BOOLEAN
    /\ escape \in BOOLEAN

\* The framer has room for the payload; an empty one is not delivered.
Carried(payload) == Len(payload) \in 1..BufSize

\* Without noise the link delivers exactly the payloads it can carry, once each,
\* in order: one that is too long is dropped whole and never truncated.
RoundTrip ==
    noise = 0 => /\ IsSubsequence(delivered, CanArrive(Carried))
                 /\ line = <<>> => delivered = CanArrive(Carried)

\* Noise costs no frame but those it touches, whatever state (an open escape, an
\* error, a half frame) it leaves the framer in.
UntouchedDelivered == line = <<>> => IsSubsequence(MustArrive(Carried), delivered)

=============================================================================
