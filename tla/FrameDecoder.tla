----------------------------- MODULE FrameDecoder -----------------------------
(***************************************************************************)
(* The GT06N wire format of src/protocol.rs: how a frame is found in the   *)
(* bytes received so far, what a frame says, and what is sent back.  A     *)
(* byte is an integer in 0..255, 120 is 0x78, 13 and 10 are 0x0D and 0x0A. *)
(***************************************************************************)
EXTENDS Integers, Sequences, SequencesExt

CONSTANT Crc(_)   \* crc16_x25 of a sequence of bytes, see Crc16

START_BYTES == <<120, 120>>
STOP_BYTES  == <<13, 10>>

PROTOCOL_LOGIN             == 1
PROTOCOL_LOCATION          == 18
PROTOCOL_HEARTBEAT         == 19
PROTOCOL_EXTENDED_LOCATION == 34

Bytes    == 0..255
U16(s)   == s[1] * 256 + s[2]
U32(s)   == U16(s) * 65536 + U16(SubSeq(s, 3, 4))
Bit(x, k) == (x \div 2^k) % 2 = 1
Drop(s, n) == SubSeq(s, n + 1, Len(s))

-----------------------------------------------------------------------------
(* FrameDecoder::next_frame: what it returns, how many bytes it takes off  *)
(* the front of the buffer, and the frame.  Bytes before a start pair go   *)
(* in every case, a buffer's last byte stays: it may be half a pair.       *)

StartsAt(b, k) == Len(b) - k < 2 \/ SubSeq(b, k + 1, k + 2) = START_BYTES

SkippedBefore(b) ==
  CHOOSE k \in 0..Len(b) : StartsAt(b, k) /\ \A j \in 0..(k - 1) : ~StartsAt(b, j)

TotalLen(b) == b[3] + 5

Incomplete(b) == Len(b) < 5 \/ (b[3] >= 5 /\ Len(b) < TotalLen(b))

Malformed(b) ==
  LET n == TotalLen(b)
  IN \/ b[3] < 5
     \/ SubSeq(b, n - 1, n) # STOP_BYTES
     \/ Crc(SubSeq(b, 3, n - 4)) # U16(SubSeq(b, n - 3, n - 2))

FrameOf(b) ==
  LET end == b[3] - 1     \* payload_end, the payload begins at the fifth byte
  IN [protocol_number |-> b[4],
      payload |-> SubSeq(b, 5, end),
      serial |-> U16(SubSeq(b, end + 1, end + 2))]

NoFrame == [protocol_number |-> 0, payload |-> <<>>, serial |-> 0]

(* Mutant: an error gives up all the bytes the bad frame claims.           *)
GivenUpFrame(b) == TotalLen(b)

(* Mutant: an error takes nothing off the buffer.                          *)
GivenUpNothing(b) == 0

(* A bad frame may be a start pair by chance: only its first byte goes.    *)
GivenUp(b) == 1

(* The turn at a start pair, or at what is left behind the last one.       *)
AtStart[b \in Seq(Bytes)] ==
  IF Incomplete(b) THEN [kind |-> "none", taken |-> 0, frame |-> NoFrame]
  ELSE IF Malformed(b) THEN [kind |-> "error", taken |-> GivenUp(b), frame |-> NoFrame]
  ELSE [kind |-> "frame", taken |-> TotalLen(b), frame |-> FrameOf(b)]

NextFrame(b) ==
  LET k == SkippedBefore(b)
  IN [AtStart[Drop(b, k)] EXCEPT !.taken = k + @]

-----------------------------------------------------------------------------
(* decode_message                                                          *)

(* Mutant: the low digit is not masked.                                    *)
DecodeBcdImeiUnmasked(s) ==
  LET digits == [i \in 1..2 * Len(s) |-> IF i % 2 = 1 THEN s[(i + 1) \div 2] \div 16
                                         ELSE s[i \div 2]]
  IN IF Len(digits) = 16 /\ digits[1] = 0 THEN Tail(digits) ELSE digits

(* Two digits a byte; of sixteen a leading zero is dropped.                *)
DecodeBcdImei(s) ==
  LET digits == [i \in 1..2 * Len(s) |-> IF i % 2 = 1 THEN s[(i + 1) \div 2] \div 16
                                         ELSE s[i \div 2] % 16]
  IN IF Len(digits) = 16 /\ digits[1] = 0 THEN Tail(digits) ELSE digits

BcdToDecimal(byte) == (byte \div 16) * 10 + (byte % 16)

(* Year, month, day, hour, minute, second.                                 *)
DecodeTimestamp(s, extended) ==
  [i \in 1..6 |-> (IF i = 1 THEN 2000 ELSE 0) +
                  (IF extended /\ i <= 4 THEN s[i] ELSE BcdToDecimal(s[i]))]

(* Mutant: the extended packet is read with the classic hemisphere bits.   *)
DecodeCoordinatesClassic(lat, lon, course_status, extended) ==
  <<IF Bit(course_status, 10) THEN -lat ELSE lat, IF Bit(course_status, 11) THEN -lon ELSE lon>>

(* In units of 1/1800000 degree; the sign is in the course and status.     *)
DecodeCoordinates(lat, lon, course_status, extended) ==
  LET south == IF extended THEN ~Bit(course_status, 13) ELSE Bit(course_status, 10)
      west  == ~extended /\ Bit(course_status, 11)
  IN <<IF south THEN -lat ELSE lat, IF west THEN -lon ELSE lon>>

DecodeLocation(p, extended) ==
  LET course_status == U16(SubSeq(p, 17, 18))
  IN [timestamp |-> DecodeTimestamp(SubSeq(p, 1, 6), extended),
      satellites |-> p[7] % 16,
      position |-> DecodeCoordinates(U32(SubSeq(p, 8, 11)), U32(SubSeq(p, 12, 15)),
                                     course_status, extended),
      speed_kph |-> p[16],
      course |-> course_status % 1024]

DecodeHeartbeat(p) ==
  [terminal_info |-> p[1], voltage_level |-> p[2], gsm_signal_strength |-> p[3],
   alarm_language |-> U16(SubSeq(p, 4, 5))]

DecodeMessage(frame) ==
  LET p == frame.payload
      n == frame.protocol_number
  IN CASE n = PROTOCOL_LOGIN /\ Len(p) >= 8 ->
            [kind |-> "login", packet |-> DecodeBcdImei(SubSeq(p, 1, 8))]
       [] n = PROTOCOL_HEARTBEAT /\ Len(p) >= 5 ->
            [kind |-> "heartbeat", packet |-> DecodeHeartbeat(p)]
       [] n \in {PROTOCOL_LOCATION, PROTOCOL_EXTENDED_LOCATION} /\ Len(p) >= 18 ->
            [kind |-> "location", packet |-> DecodeLocation(p, n = PROTOCOL_EXTENDED_LOCATION)]
       [] OTHER -> [kind |-> "ignored", packet |-> <<>>]

(* Mutant: the serial goes out low byte first.                             *)
EncodeAckSwapped(protocol_number, serial) ==
  LET body == <<5, protocol_number, serial % 256, serial \div 256>>
      crc == Crc(body)
  IN START_BYTES \o body \o <<crc \div 256, crc % 256>> \o STOP_BYTES

(* encode_ack: an empty frame that names the protocol and the serial.      *)
EncodeAck(protocol_number, serial) ==
  LET body == <<5, protocol_number, serial \div 256, serial % 256>>
      crc == Crc(body)
  IN START_BYTES \o body \o <<crc \div 256, crc % 256>> \o STOP_BYTES
=============================================================================
