------------------------------ MODULE LinkCrc16 -------------------------------
(***************************************************************************)
(* link_crc16_ccitt_false: the checksum of the link packet, over the bytes *)
(* 0, 1, ..., n - 1 of a function.  The register is the tuple of its 16    *)
(* bits, the lowest first, so that its shift and its exclusive or are what *)
(* they do to each bit.                                                    *)
(***************************************************************************)
EXTENDS Integers

Bit == 0..1
Xor(a, b) == (a + b) % 2

BitOf(byte, weight) == (byte \div weight) % 2

\* LINK_CRC16_CCITT_FALSE_INIT: 0xFFFF
CrcInit == <<1, 1, 1, 1, 1, 1, 1, 1, 1, 1, 1, 1, 1, 1, 1, 1>>

\* A byte meets the upper half of the register.
Meet(c, byte) ==
  <<c[1], c[2], c[3], c[4], c[5], c[6], c[7], c[8],
    Xor(c[9], BitOf(byte, 1)), Xor(c[10], BitOf(byte, 2)),
    Xor(c[11], BitOf(byte, 4)), Xor(c[12], BitOf(byte, 8)),
    Xor(c[13], BitOf(byte, 16)), Xor(c[14], BitOf(byte, 32)),
    Xor(c[15], BitOf(byte, 64)), Xor(c[16], BitOf(byte, 128))>>

\* The register is shifted, and the bit that leaves it fed back where
\* LINK_CRC16_CCITT_FALSE_POLY, 0x1021, has ones: in bits 0, 5 and 12.
ShiftBit(c) ==
  <<c[16], c[1], c[2], c[3], c[4], Xor(c[5], c[16]), c[6], c[7],
    c[8], c[9], c[10], c[11], Xor(c[12], c[16]), c[13], c[14], c[15]>>

ShiftTwo(c) == ShiftBit(ShiftBit(c))
ShiftFour(c) == ShiftTwo(ShiftTwo(c))

\* Zero stays zero.
Zero == <<0, 0, 0, 0, 0, 0, 0, 0, 0, 0, 0, 0, 0, 0, 0, 0>>
ShiftByte(c) == IF c = Zero THEN Zero ELSE ShiftFour(ShiftFour(c))

Octet(c, k) ==
  c[k] + 2 * c[k + 1] + 4 * c[k + 2] + 8 * c[k + 3]
    + 16 * c[k + 4] + 32 * c[k + 5] + 64 * c[k + 6] + 128 * c[k + 7]

\* The register before the first byte and after each of n bytes.
Registers(bytes, n) ==
  LET crc[i \in 0..n] ==
        IF i = 0 THEN CrcInit ELSE ShiftByte(Meet(crc[i - 1], bytes[i - 1]))
  IN crc

\* The last one as a number.
Crc16(bytes, n) ==
  LET crc == Registers(bytes, n)[n] IN 256 * Octet(crc, 9) + Octet(crc, 1)

=============================================================================
