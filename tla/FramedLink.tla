----------------------------- MODULE FramedLink -----------------------------
(***************************************************************************)
(* What the HDLC, SLIP and COBS links share: the framing writer of the C++ *)
(* side (the same code in framing/hdlc.h, slip.h and cobs.h), the static   *)
(* encoder of the Python side, and a serial line that loses, changes and   *)
(* adds bytes.  A module for one framing EXTENDS this one and supplies the *)
(* encoding of a payload and the decoder's process_byte.                   *)
(***************************************************************************)
EXTENDS Integers, Sequences, SequencesExt

CONSTANTS
    BufSize,        \* template parameter of writer and framer, buf_size
    Pieces,         \* what the device passes to one call of write()
    Payloads,       \* what the Python encoder is given
    NoiseBytes,     \* the bytes noise can make appear
    MaxWritten,     \* bound: bytes the device writes for one frame
    MaxFrames,      \* bound: frames put on the line
    MaxNoise        \* bound: noise events and host resets

Byte == 0..255

ASSUME BufSizeAssumption == BufSize \in Nat \ {0}
ASSUME BytesAssumption ==
    /\ Pieces \subseteq Seq(Byte)
    /\ Payloads \subseteq Seq(Byte)
    /\ NoiseBytes \subseteq Byte

VARIABLES
    w_buf,          \* the writer's _buf[0.._len)
    w_overflow,     \* the writer's _overflow
    intended,       \* history: the bytes passed to write() for this frame
    line,           \* bytes on the line, each with the number of its frame
    sent,           \* history: the payloads framed, in order
    at,             \* history: the frame of the last byte taken off the line
    damaged,        \* history: the frames noise may have spoilt
    noise,
    delivered       \* the payloads passed to on_frame, in order

writer_vars == <<w_buf, w_overflow, intended>>
line_vars == <<line, sent, at, damaged, noise>>
link_vars == <<writer_vars, line_vars, delivered>>

LinkInit ==
    /\ w_buf = <<>>
    /\ w_overflow = FALSE
    /\ intended = <<>>
    /\ line = <<>>
    /\ sent = <<>>
    /\ at = 0
    /\ damaged = {}
    /\ noise = 0
    /\ delivered = <<>>

-----------------------------------------------------------------------------
(* The sending side.                                                       *)

Tagged(bytes, frame) == [i \in 1..Len(bytes) |-> [byte |-> bytes[i], frame |-> frame]]

PutFrame(payload, Encode(_)) ==
    /\ Len(sent) < MaxFrames
    /\ sent' = Append(sent, payload)
    /\ line' = line \o Tagged(Encode(payload), Len(sent) + 1)
    /\ UNCHANGED <<at, damaged, noise, delivered>>

\* Mutation: what does not fit is written past the buffer.
Stored_All(piece, room) == piece

\* The bytes of a piece that there is room for.
Stored(piece, room) == IF Len(piece) < room THEN piece ELSE SubSeq(piece, 1, room)

\* write(buf, len): the bytes that do not fit are refused and remembered only
\* as an overflow.
Write(piece) ==
    LET room == BufSize - Len(w_buf) IN
    /\ Len(intended) + Len(piece) <= MaxWritten
    /\ w_buf' = w_buf \o Stored(piece, room)
    /\ w_overflow' = (w_overflow \/ Len(piece) > room)
    /\ intended' = intended \o piece
    /\ UNCHANGED <<line_vars, delivered>>

\* Mutation: the overflow stays with the next frame.
Discard_KeepsOverflow ==
    /\ w_buf' = <<>>
    /\ intended' = <<>>
    /\ UNCHANGED w_overflow

\* discard()
Discard ==
    /\ w_buf' = <<>>
    /\ w_overflow' = FALSE
    /\ intended' = <<>>

\* end_frame()
EndFrame(Encode(_)) ==
    /\ Discard
    /\ IF w_overflow THEN UNCHANGED <<line_vars, delivered>>
                     ELSE PutFrame(w_buf, Encode)

\* HdlcFrameEncoder.encode and its peers, which have no size limit
EncodeAndSend(payload, Encode(_)) ==
    /\ PutFrame(payload, Encode)
    /\ UNCHANGED writer_vars

Send(Encode(_)) ==
    \/ \E piece \in Pieces : Write(piece)
    \/ EndFrame(Encode)
    \/ \E payload \in Payloads : EncodeAndSend(payload, Encode)

-----------------------------------------------------------------------------
(* The line.  Process(c) is the receiving framer's process_byte; it sets    *)
(* the framer's variables and delivered.                                   *)

\* The line stands inside a frame of which some bytes are already taken.
MidFrame == line # <<>> /\ Head(line).frame = at

Taken ==
    /\ line # <<>>
    /\ at' = Head(line).frame
    /\ line' = Tail(line)
    /\ UNCHANGED <<writer_vars, sent>>

\* Noise that can spoil the frames in hit.
Noise(hit) ==
    /\ noise < MaxNoise
    /\ noise' = noise + 1
    /\ damaged' = damaged \cup hit

Arrive(Process(_)) ==
    /\ Taken
    /\ Process(Head(line).byte)
    /\ UNCHANGED <<damaged, noise>>

Change(c, hit, Process(_)) ==
    /\ Taken
    /\ c # Head(line).byte
    /\ Process(c)
    /\ Noise(hit)

Insert(c, hit, Process(_)) ==
    /\ Process(c)
    /\ Noise(hit)
    /\ UNCHANGED <<writer_vars, line, sent, at>>

\* Lose(hit) leaves the framer alone; the framing's module says so.
Lose(hit) ==
    /\ Taken
    /\ Noise(hit)
    /\ UNCHANGED delivered

-----------------------------------------------------------------------------
(* What is said of every framing.                                          *)

LinkTypeOK ==
    /\ w_buf \in Seq(Byte) /\ Len(w_buf) <= BufSize
    /\ w_overflow \in BOOLEAN
    /\ intended \in Seq(Byte)
    /\ line \in Seq([byte : Byte, frame : Nat])
    /\ sent \in Seq(Seq(Byte))
    /\ at \in Nat
    /\ damaged \subseteq Nat
    /\ noise \in Nat
    /\ delivered \in Seq(Seq(Byte))

\* The device's writer never frames a part of what it was given: either all of
\* it is buffered or the frame is marked to be dropped.
WholeOrDropped ==
    IF w_overflow THEN Len(intended) > BufSize ELSE w_buf = intended

\* s can be obtained from t by leaving elements out.
IsSubsequence(s, t) ==
    \E place \in [1..Len(s) -> 1..Len(t)] :
        /\ \A i \in 1..Len(s) : s[i] = t[place[i]]
        /\ \A i, j \in 1..Len(s) : i < j => place[i] < place[j]

\* The payloads of some of the frames, in order.
SentIn(frames) ==
    FlattenSeq([f \in 1..Len(sent) |-> IF f \in frames THEN <<sent[f]>> ELSE <<>>])

\* The payloads that are not lost by their content or size.
CanArrive(Carried(_)) == SentIn({f \in DOMAIN sent : Carried(sent[f])})

\* The payloads that must arrive: those of the frames that noise did not touch
\* either.
MustArrive(Carried(_)) == SentIn({f \in DOMAIN sent : f \notin damaged /\ Carried(sent[f])})

=============================================================================
