----------------------------- MODULE MCHdlcLink -----------------------------
(* HdlcLink with CRC-16/HDLC and one frame longer than the framer's buffer. *)
EXTENDS HdlcLink, Crc16

MCCrc(data) == Crc16Bytes(data)

\* With a buffer of three bytes: a payload whose first three bytes are a valid
\* frame and whose other bytes, checksum included, are all escaped on the line.
MCPayloads ==
    {<<65>> \o Crc16Bytes(<<65>>)
            \o <<125, 125, 125, 125, 126, 126, 126, 126, 126, 125, 126, 126, 126>>}
=============================================================================
