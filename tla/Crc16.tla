-------------------------------- MODULE Crc16 --------------------------------
(***************************************************************************)
(* crc16_x25 of src/protocol.rs: the reflected CCITT polynomial over the   *)
(* bytes of a frame, initial value and final complement 0xFFFF.            *)
(***************************************************************************)
EXTENDS Integers, Sequences

(* Exclusive or of the n lowest bits.                                      *)
Xor[n \in Nat, x \in Nat, y \in Nat] ==
  IF n = 0 THEN 0 ELSE ((x + y) % 2) + 2 * Xor[n - 1, x \div 2, y \div 2]

WithByte[crc \in Nat, byte \in Nat] == crc - (crc % 256) + Xor[8, crc, byte]

(* The polynomial 0x8408 has the bits 15, 10 and 3; bit 15 is clear after  *)
(* the shift.                                                              *)
Flip[x \in Nat, k \in Nat] ==
  IF (x \div 2^k) % 2 = 1 THEN x - 2^k ELSE x + 2^k

Shift[crc \in Nat] ==
  IF crc % 2 = 1 THEN Flip[Flip[(crc \div 2) + 32768, 10], 3] ELSE crc \div 2

Shifted[n \in Nat, crc \in Nat] == IF n = 0 THEN crc ELSE Shifted[n - 1, Shift[crc]]

(* Over the first n bytes.                                                 *)
Over[n \in Nat, data \in Seq(Nat)] ==
  IF n = 0 THEN 65535 ELSE Shifted[8, WithByte[Over[n - 1, data], data[n]]]

CrcX25(data) == 65535 - Over[Len(data), data]
=============================================================================
