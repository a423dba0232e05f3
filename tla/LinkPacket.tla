------------------------------ MODULE LinkPacket ------------------------------
(***************************************************************************)
(* The packet of the radio link: 30 bytes, the last two of them a CRC-16   *)
(* of the others.  DuplexLink keeps of a received frame whether decoding   *)
(* accepts it.  Here a frame may be damaged on the air, or be the start of *)
(* one packet and the rest of another, as when a chip in continuous        *)
(* receive overwrites its buffer while the adapter reads it.               *)
(***************************************************************************)
EXTENDS Integers, LinkCrc16

CONSTANTS
  Packets,   \* packets the service sends
  Damages    \* what is added to a damaged byte, modulo 256

Byte == 0..255
WordMax == 65535    \* UINT16_MAX
Word == 0..WordMax

PayloadSize == 16   \* LINK_PACKET_PAYLOAD_SIZE
CrcOffset == 28     \* LINK_PACKET_OFFSET_CRC
EncodedSize == 30   \* LINK_PACKET_ENCODED_SIZE
Magic0 == 76        \* LINK_PACKET_MAGIC_BYTE_0
Magic1 == 82        \* LINK_PACKET_MAGIC_BYTE_1
Version == 1        \* LINK_PACKET_VERSION

MessageTypes == 1..4       \* LINK_MESSAGE_TYPE_DATA..LINK_MESSAGE_TYPE_PONG
PayloadLengths == 10..PayloadSize

Packet == [message_type : MessageTypes, source_id : Byte,
           destination_id : Byte, sequence : Word,
           acknowledged_sequence : Word, payload_length : PayloadLengths,
           flags : Byte, payload : [0..(PayloadSize - 1) -> Byte]]

Encoded == [0..(EncodedSize - 1) -> Byte]

ASSUME PacketAssumption ==
  /\ Packets \subseteq Packet
  /\ Damages \subseteq Byte

High(word) == word \div 256
Lower(word) == word % 256
ReadU16(bytes, i) == bytes[i] * 256 + bytes[i + 1]

-----------------------------------------------------------------------------
(* link_packet_encode and link_packet_decode.                              *)

\* The checksum of the first 28 bytes.
Crc(bytes) == Crc16(bytes, CrcOffset)

Body(p) ==
  [i \in 0..(CrcOffset - 1) |->
     CASE i = 0 -> Magic0
       [] i = 1 -> Magic1
       [] i = 2 -> Version
       [] i = 3 -> p.message_type
       [] i = 4 -> p.source_id
       [] i = 5 -> p.destination_id
       [] i = 6 -> High(p.sequence)
       [] i = 7 -> Lower(p.sequence)
       [] i = 8 -> High(p.acknowledged_sequence)
       [] i = 9 -> Lower(p.acknowledged_sequence)
       [] i = 10 -> p.payload_length
       [] i = 11 -> p.flags
       [] OTHER -> IF i - 12 < p.payload_length THEN p.payload[i - 12] ELSE 0]

Encode(p) ==
  LET crc == Crc(Body(p)) IN
  [i \in 0..(EncodedSize - 1) |->
     IF i < CrcOffset THEN Body(p)[i]
     ELSE IF i = CrcOffset THEN High(crc) ELSE Lower(crc)]

BodyOf(bytes) == [i \in 0..(CrcOffset - 1) |-> bytes[i]]

\* Mutant: the checksum of what was received is not compared.
DecodeStatus_NoCrc(bytes, destination) ==
  CASE bytes[0] # Magic0 \/ bytes[1] # Magic1 -> "INVALID_MAGIC"
    [] bytes[2] # Version -> "UNSUPPORTED_VERSION"
    [] bytes[3] \notin MessageTypes -> "INVALID_MESSAGE_TYPE"
    [] bytes[5] # destination -> "INVALID_DESTINATION"
    [] bytes[10] \notin PayloadLengths -> "INVALID_PAYLOAD_LENGTH"
    [] OTHER -> "OK"

\* The first thing wrong decides.
DecodeStatus(bytes, destination) ==
  IF bytes[0] # Magic0 \/ bytes[1] # Magic1 THEN "INVALID_MAGIC"
  ELSE IF bytes[2] # Version THEN "UNSUPPORTED_VERSION"
  ELSE IF bytes[3] \notin MessageTypes THEN "INVALID_MESSAGE_TYPE"
  ELSE IF bytes[5] # destination THEN "INVALID_DESTINATION"
  ELSE IF bytes[10] \notin PayloadLengths THEN "INVALID_PAYLOAD_LENGTH"
  ELSE IF ReadU16(bytes, CrcOffset) # Crc(BodyOf(bytes)) THEN "CRC_MISMATCH"
  ELSE "OK"

Decoded(bytes) ==
  [message_type |-> bytes[3], source_id |-> bytes[4],
   destination_id |-> bytes[5], sequence |-> ReadU16(bytes, 6),
   acknowledged_sequence |-> ReadU16(bytes, 8),
   payload_length |-> bytes[10], flags |-> bytes[11],
   payload |-> [i \in 0..(PayloadSize - 1) |-> bytes[i + 12]]]

\* A packet without what lies behind its payload, which is not sent.
Padded(p) ==
  [p EXCEPT !.payload = [i \in 0..(PayloadSize - 1) |->
                           IF i < p.payload_length THEN p.payload[i] ELSE 0]]

-----------------------------------------------------------------------------
(* A frame on its way: intact, with two neighbouring bytes damaged, or     *)
(* torn between two packets.                                               *)

Frames == [p \in Packets |-> Encode(p)]

VARIABLES
  packet_sent,    \* the packet the frame began as
  packet_bytes,   \* what the receiver gets of it
  packet_arrived

packetVars == <<packet_sent, packet_bytes, packet_arrived>>

PacketInit ==
  /\ packet_sent \in Packets
  /\ packet_bytes = Frames[packet_sent]
  /\ packet_arrived = FALSE

Arrive(bytes) ==
  /\ ~packet_arrived
  /\ packet_bytes' = bytes
  /\ packet_arrived' = TRUE
  /\ UNCHANGED packet_sent

Damaged(i, x, y) ==
  [packet_bytes EXCEPT ![i] = (@ + x) % 256, ![i + 1] = (@ + y) % 256]

\* The chip's buffer held one frame up to byte i and then the other.
Mixed(first, i, second) ==
  [j \in 0..(EncodedSize - 1) |-> IF j < i THEN first[j] ELSE second[j]]

Torn(i, p) == Mixed(packet_bytes, i, Frames[p])

Send(p) ==
  /\ packet_arrived
  /\ packet_sent' = p
  /\ packet_bytes' = Frames[p]
  /\ packet_arrived' = FALSE

PacketNext ==
  \/ \E i \in 0..(EncodedSize - 2), x, y \in Damages : Arrive(Damaged(i, x, y))
  \/ \E i \in 1..(EncodedSize - 1), p \in Packets : Arrive(Torn(i, p))
  \/ \E p \in Packets : Send(p)

PacketSpec == PacketInit /\ [][PacketNext]_packetVars

\* What a checksum of 16 bits cannot promise of every pair of packets: that of
\* a frame torn between them never fits.
TearsFound ==
  \A p, q \in Packets, i \in 1..(EncodedSize - 1) :
    LET bytes == Mixed(Frames[p], i, Frames[q]) IN
    ReadU16(bytes, CrcOffset) = Crc(BodyOf(bytes)) =>
      bytes \in {Frames[p], Frames[q]}

PacketTypeOK ==
  /\ packet_sent \in Packets
  /\ packet_bytes \in Encoded
  /\ packet_arrived \in BOOLEAN

\* What decoding accepts was sent, all of it and nothing else: neither two
\* damaged bytes side by side nor a frame torn between two packets passes.  An
\* intact frame is accepted.
AcceptedWasSent ==
  packet_arrived =>
    LET status == DecodeStatus(packet_bytes, packet_sent.destination_id) IN
    /\ status = "OK" => \E p \in Packets : Decoded(packet_bytes) = Padded(p)
    /\ packet_bytes = Frames[packet_sent] => status = "OK"

=============================================================================
