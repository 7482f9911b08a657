--------------------------- MODULE DeviceConnection ---------------------------
(***************************************************************************)
(* One TCP connection of a GPS device: handle_connection in src/server.rs. *)
(* The device's bytes arrive cut anywhere; the task decodes what it has,   *)
(* acknowledges logins and heartbeats on the same socket and hands every   *)
(* message to the event handlers, one after the other, before it reads on. *)
(* What the handlers do with a message is ServiceDistance's subject.       *)
(***************************************************************************)
EXTENDS FrameDecoder

CONSTANTS
  NULL,
  Scripts   \* what the device may send: sequences of [bytes, says], says = NULL for noise

Concat(script) ==
  LET upto[n \in 0..Len(script)] == IF n = 0 THEN <<>> ELSE upto[n - 1] \o script[n].bytes
  IN upto[Len(script)]

ASSUME ConnectionAssumption ==
  /\ \A s \in Scripts : Len(s) \in Nat /\ \A i \in 1..Len(s) : s[i].bytes \in Seq(Bytes)
  /\ \A n \in {PROTOCOL_LOGIN, PROTOCOL_HEARTBEAT}, hi, lo \in Bytes :
       Crc(<<5, n, hi, lo>>) \in {crc \in Nat : crc \div 256 \in Bytes}   \* a u16

(* A frame, said without a decoder: what the device means comes in one.    *)
IsFrame(b) ==
  LET n == Len(b)
  IN /\ n >= 10 /\ SubSeq(b, 1, 2) = START_BYTES /\ b[3] = n - 5
     /\ SubSeq(b, n - 1, n) = STOP_BYTES
     /\ Crc(SubSeq(b, 3, n - 4)) = U16(SubSeq(b, n - 3, n - 2))

ASSUME SaidAssumption ==
  \A s \in Scripts : \A i \in 1..Len(s) : s[i].says # NULL => IsFrame(s[i].bytes)

VARIABLES
  script,    \* what this device sends
  wire,      \* its bytes
  received,  \* how many of them arrived
  buffer,    \* the BytesMut of the task
  device,    \* device_id, NULL before a login
  phase,     \* "read", "decode", "ack", "handle", "closed"
  sent,      \* bytes written to the socket
  frames,    \* history: frames taken off the buffer, with their place on the wire
  events     \* history: messages handed to the event handlers

vars == <<script, wire, received, buffer, device, phase, sent, frames, events>>

Init ==
  /\ script \in Scripts /\ wire = Concat(script)
  /\ received = 0 /\ buffer = <<>> /\ device = NULL /\ phase = "read"
  /\ sent = <<>> /\ frames = <<>> /\ events = <<>>

-----------------------------------------------------------------------------
(* stream.read_buf: some of what is there, at least a byte.                *)
Read(n) ==
  /\ phase = "read"
  /\ received' = received + n
  /\ buffer' = buffer \o SubSeq(wire, received + 1, received + n)
  /\ phase' = "decode"
  /\ UNCHANGED <<script, wire, device, sent, frames, events>>

(* The end of the stream, an error of the socket, or of the process.       *)
Close ==
  /\ phase # "closed"
  /\ phase' = "closed"
  /\ UNCHANGED <<script, wire, received, buffer, device, sent, frames, events>>

Decoding(kind) == phase = "decode" /\ NextFrame(buffer).kind = kind

Take == buffer' = Drop(buffer, NextFrame(buffer).taken)

Wait ==
  /\ Decoding("none") /\ Take
  /\ phase' = "read"
  /\ UNCHANGED <<script, wire, received, device, sent, frames, events>>

Reject ==
  /\ Decoding("error") /\ Take
  /\ UNCHANGED <<script, wire, received, device, phase, sent, frames, events>>

(* A login or a heartbeat is acknowledged before it is handled.            *)
WantsAck(message) == message.kind \in {"login", "heartbeat"}

(* A message of another protocol number or too short is only logged.       *)
PhaseFor(message) == CASE WantsAck(message) -> "ack"
                       [] message.kind = "location" -> "handle"
                       [] message.kind = "ignored" -> "decode"

Accept ==
  LET next == NextFrame(buffer)
      len  == Len(next.frame.payload) + 10
  IN /\ Decoding("frame") /\ Take
     /\ frames' = Append(frames, [frame |-> next.frame, len |-> len,
                                  at |-> received - Len(buffer) + next.taken - len + 1])
     /\ phase' = PhaseFor(DecodeMessage(next.frame))
     /\ UNCHANGED <<script, wire, received, device, sent, events>>

InHand == Last(frames).frame

(* stream.write_all; its error closes the connection (Close).              *)
Ack ==
  /\ phase = "ack"
  /\ sent' = sent \o EncodeAck(InHand.protocol_number, InHand.serial)
  /\ phase' = "handle"
  /\ UNCHANGED <<script, wire, received, buffer, device, frames, events>>

DeviceAfter(message) == IF message.kind = "login" THEN message.packet ELSE device

Handle ==
  /\ phase = "handle"
  /\ LET message == DecodeMessage(InHand)
     IN /\ device' = DeviceAfter(message)
        /\ events' = Append(events, message)
  /\ phase' = "decode"
  /\ UNCHANGED <<script, wire, received, buffer, sent, frames>>

Decode == Wait \/ Reject \/ Accept

Next == \/ \E n \in 1..(Len(wire) - received) : Read(n)
        \/ Wait \/ Reject \/ Accept \/ Ack \/ Handle \/ Close

(* The task runs until it waits for the socket; the device and the network *)
(* promise nothing.                                                        *)
Spec == Init /\ [][Next]_vars /\ WF_vars(Decode) /\ WF_vars(Ack) /\ WF_vars(Handle)

-----------------------------------------------------------------------------
(* What a frame on the wire is, without a decoder: at place p a start      *)
(* pair, a length, stop bytes where it says and the checksum.              *)
PairAt(p)  == p + 1 <= Len(wire) /\ SubSeq(wire, p, p + 1) = START_BYTES
EndAt(p)   == p + wire[p + 2] + 4
FrameAt(p) ==
  /\ PairAt(p) /\ p + 4 <= Len(wire) /\ wire[p + 2] >= 5 /\ EndAt(p) <= Len(wire)
  /\ SubSeq(wire, EndAt(p) - 1, EndAt(p)) = STOP_BYTES
  /\ Crc(SubSeq(wire, p + 2, EndAt(p) - 4)) = U16(SubSeq(wire, EndAt(p) - 3, EndAt(p) - 2))

Consumed == received - Len(buffer)
TakenAt(p) == \E i \in 1..Len(frames) : frames[i].at = p
Inside(p)  == \E i \in 1..Len(frames) : frames[i].at < p /\ p < frames[i].at + frames[i].len

TypeOK ==
  /\ received \in 0..Len(wire)
  /\ buffer = SubSeq(wire, Consumed + 1, received)
  /\ phase \in {"read", "decode", "ack", "handle", "closed"}
  /\ device = NULL \/ device \in Seq(0..15)
  /\ sent \in Seq(Bytes)
  /\ phase \in {"ack", "handle"} => frames # <<>>

(* Noise, false start pairs, bad lengths and bad checksums cost nothing:   *)
(* of all the frames on the stretch of the wire the task is done with,     *)
(* exactly those that do not begin inside an earlier one were decoded,     *)
(* however the reads cut the stream (next_frame advances by one).          *)
FramesAreGreedy ==
  \A p \in 1..Consumed : TakenAt(p) <=> FrameAt(p) /\ ~Inside(p)

(* Read back with the same decoder, what was written to the socket is an   *)
(* empty frame for each login and heartbeat, in order, with its number and *)
(* serial, and each was written before the message was handed on.          *)
Asked      == {i \in 1..Len(frames) : WantsAck(DecodeMessage(frames[i].frame))}
AskedBy(i) == Cardinality({j \in Asked : j <= i})
Handed     == {i \in 1..Len(events) : WantsAck(events[i])}
Answer(n)  == NextFrame(SubSeq(sent, 10 * n - 9, 10 * n)).frame
Answers    == Len(sent) \div 10

AcksAnswerInOrder ==
  /\ Len(sent) = 10 * Answers
  /\ Cardinality(Handed) <= Answers /\ Answers <= Cardinality(Asked)
  /\ Cardinality(Asked) <= Cardinality(Handed) + 1
  /\ \A i \in Asked : AskedBy(i) <= Answers =>
       Answer(AskedBy(i)) = [frames[i].frame EXCEPT !.payload = <<>>]

(* With no start byte in the noise, every message the device meant arrives *)
(* as it meant it, and in its order, once all bytes were read and decoded. *)
Quiet == \A i \in 1..Len(script) : script[i].says = NULL =>
           \A j \in 1..Len(script[i].bytes) : script[i].bytes[j] # 120
Meant        == {i \in 1..Len(script) : script[i].says # NULL}
MeantUpTo(i) == Cardinality({j \in Meant : j <= i})

QuietNoiseLosesNothing ==
  Quiet /\ phase = "read" /\ received = Len(wire) =>
    /\ Len(events) = Cardinality(Meant)
    /\ \A i \in Meant : events[MeantUpTo(i)] = script[i].says

(* Whatever the bytes, the task comes back to the socket: each turn of the *)
(* inner loop of handle_connection takes something off the buffer.         *)
DecodingEnds == phase # "read" ~> phase \in {"read", "closed"}
=============================================================================
