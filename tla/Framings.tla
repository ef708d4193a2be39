------------------------------ MODULE Framings ------------------------------
(***************************************************************************)
(* The three framings side by side.  A behaviour uses one of them, and the *)
(* framers of the other two rest.                                          *)
(***************************************************************************)
EXTENDS CobsLink, Crc16

CONSTANTS
    HdlcPieces, HdlcPayloads, HdlcNoise,    \* as in FramedLink, for HDLC
    SlipPieces, SlipPayloads, SlipNoise     \* and for SLIP

ASSUME FramingsAssumption ==
    /\ HdlcPieces \cup HdlcPayloads \cup SlipPieces \cup SlipPayloads \subseteq Seq(Byte)
    /\ HdlcNoise \cup SlipNoise \subseteq Byte

VARIABLES
    framing,    \* the framing of this behaviour
    hdlc_state, hdlc_buf, flow_control, overflowed,
    slip_buf, slip_error, slip_escape

cobs_vars == <<raw, error>>
hdlc_vars == <<hdlc_state, hdlc_buf, flow_control, overflowed>>
slip_vars == <<slip_buf, slip_error, slip_escape>>

Hdlc == INSTANCE HdlcLink WITH
    Crc <- Crc16Bytes, state <- hdlc_state, buf <- hdlc_buf,
    Pieces <- HdlcPieces, Payloads <- HdlcPayloads, NoiseBytes <- HdlcNoise

Slip == INSTANCE SlipLink WITH
    buf <- slip_buf, error <- slip_error, escape <- slip_escape,
    Pieces <- SlipPieces, Payloads <- SlipPayloads, NoiseBytes <- SlipNoise

FramingsInit ==
    /\ framing \in {"cobs", "hdlc", "slip"}
    /\ Init
    /\ Hdlc!Init
    /\ Slip!Init

FramingsNext ==
    /\ UNCHANGED framing
    /\ \/ framing = "cobs" /\ Next /\ UNCHANGED <<hdlc_vars, slip_vars>>
       \/ framing = "hdlc" /\ Hdlc!Next /\ UNCHANGED <<cobs_vars, slip_vars>>
       \/ framing = "slip" /\ Slip!Next /\ UNCHANGED <<cobs_vars, hdlc_vars>>

framings_vars == <<vars, hdlc_vars, slip_vars, framing>>

FramingsSpec == FramingsInit /\ [][FramingsNext]_framings_vars

-----------------------------------------------------------------------------
(* The properties of each framing's module, of that framing's behaviours.   *)

\* The variables of the writer, the line and the three framers are well typed.
FramingsTypeOK == TypeOK /\ Hdlc!TypeOK /\ Slip!TypeOK

\* All framings: the writer frames all it was given or nothing.
FramingsWholeOrDropped == WholeOrDropped

\* HDLC: one disturbance is never delivered as a payload.
HdlcOnlySentDelivered == framing = "hdlc" => Hdlc!OnlySentDelivered

\* All framings: noise costs no frame but those it touches; SLIP and COBS, which have
\* no checksum: without noise exactly the payloads with room are delivered.
FramingsCarry ==
    /\ framing = "hdlc" => Hdlc!UntouchedDelivered
    /\ framing = "slip" => Slip!UntouchedDelivered /\ Slip!RoundTrip
    /\ framing = "cobs" => UntouchedDelivered /\ RoundTrip

=============================================================================
