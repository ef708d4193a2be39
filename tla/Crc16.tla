------------------------------- MODULE Crc16 -------------------------------
(***************************************************************************)
(* framing/crc16.py and detail/crc16.h: CRC-16/HDLC, bit by bit and with   *)
(* the lookup table.                                                       *)
(***************************************************************************)
EXTENDS Integers, Sequences

CRC16_INIT == 65535
CRC16_GOOD == 3911

\* The bit of value 1, 2, 4, ... in n.
Has(n, bit) == (n \div bit) % 2 = 1
Flip(n, bit) == IF Has(n, bit) THEN n - bit ELSE n + bit

High(n) == n \div 256
Low(n) == n % 256

\* Exclusive or of two half bytes, of two bytes and of two 16-bit numbers.
XorHalfByte == [x \in 0..15 |-> [y \in 0..15 |->
    LET Xor(bit) == IF Has(x, bit) <=> Has(y, bit) THEN 0 ELSE bit
    IN  Xor(1) + Xor(2) + Xor(4) + Xor(8)]]
XorByte(x, y) == XorHalfByte[x \div 16][y \div 16] * 16 + XorHalfByte[x % 16][y % 16]
Xor16(x, y) == XorByte(High(x), High(y)) * 256 + XorByte(Low(x), Low(y))

\* One shift; 32768, 1024 and 8 are the bits of 0x8408.
ShiftedOnce(crc) ==
    LET half == crc \div 2
    IN  IF Has(crc, 1) THEN Flip(Flip(Flip(half, 32768), 1024), 8) ELSE half

\* The eight shifts for a byte.
Shifted(crc) ==
    LET S[k \in 0..8] == IF k = 0 THEN crc ELSE ShiftedOnce(S[k - 1])
    IN  S[8]

\* crc16_hdlc_update(crc, byte), bit by bit
BitwiseUpdate(crc, byte) == Shifted(Xor16(crc, byte))

\* _crc16_table, and the update that uses it
crc16_table == [b \in 0..255 |-> Shifted(b)]
TableUpdate(crc, byte) ==
    Xor16(High(crc), crc16_table[XorByte(Low(crc), byte)])

\* crc16_hdlc(data); the final exclusive or with 0xFFFF is a complement
Crc16(data) ==
    LET Upto[i \in 0..Len(data)] ==
            IF i = 0 THEN CRC16_INIT ELSE TableUpdate(Upto[i - 1], data[i])
    IN  65535 - Upto[Len(data)]

\* The checksum as the encoder sends it, low byte first.
Crc16Bytes(data) == LET crc == Crc16(data) IN <<Low(crc), High(crc)>>

\* The test of HdlcFramer._deliver: the checksum of the frame, checksum bytes
\* included, leaves the residue of a valid frame.
ResidueGood(frame) == Crc16(frame) = CRC16_GOOD

=============================================================================
