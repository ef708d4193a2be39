------------------------------ MODULE HdlcLink ------------------------------
(***************************************************************************)
(* framing/hdlc.py and framing/hdlc.h: HdlcFramer behind a noisy line.     *)
(* The checksum is a parameter, so that what does not depend on the        *)
(* polynomial can be proved for every checksum.                            *)
(***************************************************************************)
EXTENDS FramedLink

CONSTANT Crc(_)     \* the two checksum bytes of a payload, low byte first

FLAG == 126
ESC == 125
XON == 17
XOFF == 19

\* c ^ ESC_XOR
Toggle(c) == IF (c \div 32) % 2 = 1 THEN c - 32 ELSE c + 32

VARIABLES
    state,          \* _state
    buf,            \* _buf[0.._len)
    flow_control,   \* _flow_control
    overflowed      \* history: a byte of the frame in buf found no room

framer_vars == <<state, buf, flow_control, overflowed>>
vars == <<link_vars, framer_vars>>

States == {"IDLE", "IN_FRAME", "ESCAPE", "ERROR"}

Init ==
    /\ LinkInit
    /\ state = "IDLE"
    /\ buf = <<>>
    /\ flow_control = FALSE
    /\ overflowed = FALSE

-----------------------------------------------------------------------------
(* The encoder.                                                            *)

\* _emit_stuffed
Stuffed(c) == IF c \in {FLAG, ESC} THEN <<ESC, Toggle(c)>> ELSE <<c>>

Encode(payload) ==
    LET content == payload \o Crc(payload)
    IN  <<FLAG>> \o FlattenSeq([i \in 1..Len(content) |-> Stuffed(content[i])]) \o <<FLAG>>

-----------------------------------------------------------------------------
(* HdlcFramer.process_byte, a disjunct for each branch.                    *)

\* Mutation: the checksum is not compared.
Deliver_Unchecked ==
    LET n == Len(buf) IN
    IF n >= 2 THEN delivered' = Append(delivered, SubSeq(buf, 1, n - 2))
              ELSE UNCHANGED delivered

\* The frame in buf is over: _deliver() passes it on when its checksum is good.
Deliver ==
    LET n == Len(buf) IN
    IF n >= 2 /\ SubSeq(buf, n - 1, n) = Crc(SubSeq(buf, 1, n - 2))
    THEN delivered' = Append(delivered, SubSeq(buf, 1, n - 2))
    ELSE UNCHANGED delivered

ClearBuf == buf' = <<>> /\ overflowed' = FALSE

\* _store(c) in a state in which the code then goes to `next`, unless the state
\* that _store sets when the buffer is full is the last one set.
Store(c, stateIfRoom, stateIfFull) ==
    IF Len(buf) < BufSize
    THEN /\ buf' = Append(buf, c)
         /\ state' = stateIfRoom
         /\ UNCHANGED overflowed
    ELSE /\ state' = stateIfFull
         /\ overflowed' = TRUE
         /\ UNCHANGED buf

FlowByte(c) == flow_control /\ c \in {XON, XOFF}

ProcessByte(c) ==
    /\ UNCHANGED flow_control
    /\ \/ /\ FlowByte(c)
          /\ UNCHANGED <<state, buf, overflowed, delivered>>
       \/ /\ ~FlowByte(c) /\ state \in {"IDLE", "ERROR"}
          /\ UNCHANGED delivered
          /\ IF c = FLAG THEN ClearBuf /\ state' = "IN_FRAME"
                         ELSE UNCHANGED <<state, buf, overflowed>>
       \/ /\ ~FlowByte(c) /\ state = "IN_FRAME" /\ c = FLAG
          /\ Deliver
          /\ ClearBuf
          /\ UNCHANGED state
       \/ /\ ~FlowByte(c) /\ state = "IN_FRAME" /\ c = ESC
          /\ state' = "ESCAPE"
          /\ UNCHANGED <<buf, overflowed, delivered>>
       \/ /\ ~FlowByte(c) /\ state = "IN_FRAME" /\ c \notin {FLAG, ESC}
          /\ Store(c, "IN_FRAME", "ERROR")
          /\ UNCHANGED delivered
       \/ /\ ~FlowByte(c) /\ state = "ESCAPE" /\ c = FLAG
          /\ ClearBuf
          /\ state' = "IN_FRAME"
          /\ UNCHANGED delivered
       \/ /\ ~FlowByte(c) /\ state = "ESCAPE" /\ c # FLAG
          \* the code assigns IN_FRAME after _store, over its ERROR
          /\ Store(Toggle(c), "IN_FRAME", "IN_FRAME")
          /\ UNCHANGED delivered

\* reset(), which keeps the flow control setting
Reset ==
    /\ state' = "IDLE"
    /\ ClearBuf
    /\ Noise(IF MidFrame THEN {at} ELSE {})
    /\ UNCHANGED <<writer_vars, line, sent, at, delivered, flow_control>>

\* set_flow_control(enable), called while nothing is on the line
SetFlowControl(enable) ==
    /\ sent = <<>>
    /\ flow_control' = enable
    /\ UNCHANGED <<link_vars, state, buf, overflowed>>

-----------------------------------------------------------------------------
(* A flag on each side of a frame keeps noise from reaching its neighbour.  *)

InsertHits(c) == IF FlowByte(c) \/ ~MidFrame THEN {} ELSE {at}

Sending == Send(Encode) /\ UNCHANGED framer_vars

Arriving == Arrive(ProcessByte)

Noisy ==
    \/ \E c \in NoiseBytes : Change(c, {Head(line).frame}, ProcessByte)
    \/ \E c \in NoiseBytes : Insert(c, InsertHits(c), ProcessByte)
    \/ line # <<>> /\ Lose({Head(line).frame}) /\ UNCHANGED framer_vars

Next ==
    \/ Sending
    \/ Arriving
    \/ Noisy
    \/ Reset
    \/ \E enable \in BOOLEAN : SetFlowControl(enable)

Spec == Init /\ [][Next]_vars

-----------------------------------------------------------------------------
(* Properties.                                                             *)

TypeOK ==
    /\ LinkTypeOK
    /\ state \in States
    /\ buf \in Seq(Byte) /\ Len(buf) <= BufSize
    /\ flow_control \in BOOLEAN
    /\ overflowed \in BOOLEAN

\* One disturbance is never delivered as a payload: whatever it does to the
\* flags, escapes and content, what on_frame receives was framed by the sender,
\* and in that order.  (Two can be: the checksum of the empty payload is 0, 0, so
\* a frame of two bytes both changed to 0 is a good empty frame.)
OnlySentDelivered == noise <= 1 => IsSubsequence(delivered, sent)

\* The frames the framer has room for and, under flow control, that hold no
\* XON or XOFF, which the encoder does not escape.
Carried(payload) ==
    /\ Len(payload) + 2 <= BufSize
    /\ flow_control => Range(Encode(payload)) \cap {XON, XOFF} = {}

\* Noise costs no frame but those it touches: as soon as the line is empty every
\* other frame that can be carried has been delivered, in order, however the
\* noise left the framer in the frame before it.
UntouchedDelivered == line = <<>> => IsSubsequence(MustArrive(Carried), delivered)

\* "Corrupt or overflowed frames are silently discarded" (HdlcFramer): a frame
\* of which a byte found no room is not passed to on_frame.
OverflowDiscarded == [][delivered' # delivered => ~overflowed]_vars

=============================================================================
