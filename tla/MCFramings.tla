----------------------------- MODULE MCFramings -----------------------------
(* The three framings, each with payloads full of its own framing bytes and *)
(* noise of its own kind.                                                   *)
EXTENDS Framings

\* An ordinary byte, HDLC's flag and escape and a flow control byte, SLIP's end,
\* escape and escape codes.
A == 65
FLAG == 126
HDLC_ESC == 125
XON == 17
END_BYTE == 192
SLIP_ESC == 219
ESC_END == 220
ESC_ESC == 221

\* The device's pieces are two bytes that are escaped (for COBS: a full block):
\* two of them fill the writer's buffer, which is too long for HDLC's framer, and
\* a third overflows it.  Python's payloads are the empty one, one with a special
\* byte, and one byte too many.
MCCobsPieces == {<<A, 2>>, <<0, A>>}
MCCobsPayloads == {<<>>, <<0, 0>>, <<A, A, A, A, 0, A>>}
MCCobsNoise == {0, 3}

MCHdlcPieces == {<<FLAG, HDLC_ESC>>}
MCHdlcPayloads == {<<>>, <<XON>>, <<A, FLAG, HDLC_ESC>>}
MCHdlcNoise == {0, FLAG, HDLC_ESC}

MCSlipPieces == {<<END_BYTE, SLIP_ESC>>}
MCSlipPayloads == {<<>>, <<ESC_END>>, <<A, SLIP_ESC, END_BYTE, ESC_ESC, A>>}
MCSlipNoise == {0, END_BYTE, SLIP_ESC}

-----------------------------------------------------------------------------
(* CRC-16/HDLC.                                                            *)

\* The check value of crc16.py.
ASSUME CheckValue == Crc16(<<49, 50, 51, 52, 53, 54, 55, 56, 57>>) = 36974

\* The two builds of crc16_hdlc_update agree (every table entry is used).
ASSUME TableIsBitwise ==
    \A byte \in Byte, crc \in {0, 21930, 33800, 65535} :
        TableUpdate(crc, byte) = BitwiseUpdate(crc, byte)

\* HdlcLink compares the checksum bytes where the code looks for the residue.
ASSUME ResidueIsComparison ==
    \A data \in SeqOf({0, 65, FLAG, 255}, 2), noise_lo \in {0, 1}, noise_hi \in {0, 128} :
        LET crc == Crc16Bytes(data)
            lo == (crc[1] + noise_lo) % 256
            hi == (crc[2] + noise_hi) % 256
        IN  ResidueGood(data \o <<lo, hi>>) <=> <<lo, hi>> = crc

=============================================================================
