----------------------------- MODULE CrsfParser ------------------------------
(***************************************************************************)
(* The CRSF protocol of the STM32F407 receiver: a byte stream parser that  *)
(* has no notion of time, so that only the bytes themselves can bring it   *)
(* back into step after a damaged one, and the one-place mailbox in which  *)
(* it leaves a device ping for the telemetry service.                      *)
(*                                                                         *)
(* The transmitter sends whole frames <<address, length, type, ..., CRC>>; *)
(* the line may alter a byte, drop it or add one.  Of the frame buffer     *)
(* only the bytes the parser looks at are kept; crsf_good says whether all *)
(* of them are those of the frame being sent, from its first byte on.  The *)
(* checksum of such a frame matches; that of any other bytes may match too *)
(* (an 8-bit CRC).  rc_receiver_service_process takes a decoded frame in   *)
(* the same loop iteration, so frame_ready is never seen set.              *)
(***************************************************************************)
EXTENDS Integers, Sequences

CONSTANTS
  MaxFrameSize,   \* CRSF_MAX_FRAME_SIZE: 64
  RcFrame,        \* an RC_CHANNELS_PACKED frame as sent
  PingFrames,     \* PARAMETER_PING frames as sent
  OtherFrame,     \* a frame of another type as sent
  Noise           \* what a damaged byte may become

Addresses == {200, 236}   \* CRSF_ADDRESS_FLIGHT_CTRL, CRSF_ADDRESS_CRSF_RECEIVER
FlightController == 200
TypeRc == 22              \* CRSF_FRAME_TYPE_RC_CHANNELS_PACKED
TypePing == 40            \* CRSF_FRAME_TYPE_PARAMETER_PING
PingLength == 4           \* CRSF_EXTENDED_PING_FRAME_LENGTH

Sent == {RcFrame, OtherFrame} \union PingFrames
AnyByte == 0..255

ASSUME CrsfAssumption ==
  /\ MaxFrameSize \in 4..64
  /\ Noise \subseteq AnyByte
  /\ \A f \in Sent :
       /\ f \in Seq(AnyByte)
       /\ Len(f) \in 4..MaxFrameSize
       /\ f[1] \in Addresses
       /\ f[2] = Len(f) - 2

ASSUME CrsfTypeAssumption ==
  /\ RcFrame[3] = TypeRc
  /\ OtherFrame[3] \notin {TypeRc, TypePing}
  /\ \A f \in PingFrames : f[3] = TypePing /\ f[2] = PingLength

\* No byte of the frame but the first looks like an address.
Plain(f) == \A i \in 2..Len(f) : f[i] \notin Addresses

VARIABLES
  \* CrsfProtocolContext
  crsf_state, frame_pos, expected_length, frame_buffer,
  device_ping_pending, device_ping_origin,
  \* what process_byte returned for the last byte
  crsf_result,
  \* the transmitter: the frame it is sending and how much of it is sent
  crsf_plain, crsf_frame, crsf_sent,
  \* ghosts: whether the parser has the current frame from its first byte on,
  \* the frame of this kind that the last byte completed, bytes since the last
  \* damage, and the origin of a ping no later frame or error has followed
  crsf_good, crsf_ended, crsf_clean, crsf_owed

parserVars == <<crsf_state, frame_pos, expected_length, frame_buffer>>
pingVars == <<device_ping_pending, device_ping_origin>>
crsfVars == <<parserVars, pingVars, crsf_result, crsf_plain, crsf_frame,
              crsf_sent, crsf_good, crsf_ended, crsf_clean, crsf_owed>>

NoFrame == <<>>
NoOrigin == 0

\* Bytes that may pass after a damaged one before the parser must have given
\* up whatever that byte made it believe: the rest of the longest frame.
Horizon == MaxFrameSize - 1

-----------------------------------------------------------------------------
(* process_byte.  A reset of the parser leaves a pending ping alone, a     *)
(* reset of the protocol does not.                                         *)

\* frame_buffer[2], and for a ping [3] and [4].  What an earlier frame left in
\* the buffer is forgotten: these bytes are written again before they are read.
Unread == [type |-> 0, destination |-> 0, origin |-> 0]

ParserReset ==
  /\ crsf_state' = "WAIT_ADDRESS"
  /\ frame_pos' = 0
  /\ expected_length' = 0
  /\ frame_buffer' = Unread

ProtocolReset ==
  /\ ParserReset
  /\ device_ping_pending' = FALSE
  /\ device_ping_origin' = NoOrigin

WaitAddress(b) ==
  /\ crsf_state = "WAIT_ADDRESS"
  /\ IF b \in Addresses
       THEN /\ crsf_state' = "WAIT_LENGTH"
            /\ frame_pos' = 1
       ELSE UNCHANGED <<crsf_state, frame_pos>>
  /\ crsf_result' = "IN_PROGRESS"
  /\ UNCHANGED <<expected_length, frame_buffer, pingVars>>

\* Mutant: the longest length is taken for the length of the whole frame.
LengthAccepted_TooLong(b) == b >= 2 /\ b <= MaxFrameSize

LengthAccepted(b) == b >= 2 /\ b <= MaxFrameSize - 2

LengthError(b) ==
  /\ crsf_state = "WAIT_LENGTH"
  /\ ~LengthAccepted(b)
  /\ ProtocolReset
  /\ crsf_result' = "ERROR"

WaitLength(b) ==
  /\ crsf_state = "WAIT_LENGTH"
  /\ LengthAccepted(b)
  /\ crsf_state' = "READ_PAYLOAD"
  /\ frame_pos' = 2
  /\ expected_length' = b
  /\ crsf_result' = "IN_PROGRESS"
  /\ UNCHANGED <<frame_buffer, pingVars>>

Stored(b) ==
  CASE frame_pos = 2 -> [frame_buffer EXCEPT !.type = b]
    [] frame_pos = 3 /\ frame_buffer.type = TypePing ->
         [frame_buffer EXCEPT !.destination = b]
    [] frame_pos = 4 /\ frame_buffer.type = TypePing ->
         [frame_buffer EXCEPT !.origin = b]
    [] OTHER -> frame_buffer

Complete == frame_pos + 1 >= expected_length + 2

ReadPayload(b) ==
  /\ crsf_state = "READ_PAYLOAD" /\ ~Complete
  /\ frame_buffer' = Stored(b)
  /\ frame_pos' = frame_pos + 1
  /\ crsf_result' = "IN_PROGRESS"
  /\ UNCHANGED <<crsf_state, expected_length, pingVars>>

Ends == crsf_state = "READ_PAYLOAD" /\ Complete

\* crsf_crc8_dvb_s2 over bytes that are not those of one sent frame may match.
CrcError(b, good) ==
  /\ Ends /\ ~good
  /\ ProtocolReset
  /\ crsf_result' = "ERROR"

PingLengthError(b) ==
  /\ Ends /\ Stored(b).type = TypePing
  /\ expected_length # PingLength
  /\ ParserReset
  /\ crsf_result' = "ERROR"
  /\ UNCHANGED pingVars

\* Mutant: the ping path ends, like all others, with a reset of the protocol.
Ping_FullReset(b) ==
  /\ Ends /\ Stored(b).type = TypePing
  /\ expected_length = PingLength
  /\ ProtocolReset
  /\ crsf_result' = "IDLE"

Ping(b) ==
  /\ Ends /\ Stored(b).type = TypePing
  /\ expected_length = PingLength
  /\ IF Stored(b).destination \in {FlightController, 0}
       THEN /\ device_ping_pending' = TRUE
            /\ device_ping_origin' = Stored(b).origin
       ELSE UNCHANGED pingVars
  /\ ParserReset
  /\ crsf_result' = "IDLE"

\* The length of an RC frame is not looked at: a shorter one is decoded as if
\* what an earlier frame left in the buffer were part of it.
RcChannels(b) ==
  /\ Ends /\ Stored(b).type = TypeRc
  /\ ProtocolReset
  /\ crsf_result' = "FRAME_READY"

Unsupported(b) ==
  /\ Ends /\ Stored(b).type \notin {TypePing, TypeRc}
  /\ ProtocolReset
  /\ crsf_result' = "IN_PROGRESS"

CrsfProcessByte(b, good) ==
  \/ WaitAddress(b) \/ LengthError(b) \/ WaitLength(b) \/ ReadPayload(b)
  \/ CrcError(b, good)
  \/ PingLengthError(b) \/ Ping(b) \/ RcChannels(b) \/ Unsupported(b)

-----------------------------------------------------------------------------
(* The line, and the transmitter at its other end.                         *)

Sendable == IF crsf_plain THEN {f \in Sent : Plain(f)} ELSE Sent

Sending(f) == IF crsf_frame = NoFrame THEN f \in Sendable ELSE f = crsf_frame

Advance(f, good) ==
  LET sent == crsf_sent + 1 IN
  /\ crsf_sent' = sent % Len(f)
  /\ crsf_frame' = IF sent = Len(f) THEN NoFrame ELSE f
  /\ crsf_good' = (good /\ sent < Len(f))
  /\ crsf_ended' = IF good /\ sent = Len(f) THEN f ELSE NoFrame

\* The parser has the frame from its first byte on.
InStep == IF crsf_sent = 0 THEN crsf_state = "WAIT_ADDRESS" ELSE crsf_good

Reset == crsf_state # "WAIT_ADDRESS" /\ crsf_state' = "WAIT_ADDRESS"

\* For the flight controller or for every device.
ForUs(f) == f \in PingFrames /\ f[4] \in {FlightController, 0}

Owed ==
  crsf_owed' = IF ForUs(crsf_ended') THEN crsf_ended'[5]
               ELSE IF Reset THEN NoOrigin ELSE crsf_owed

JustDamaged == crsf_clean' = 0

SendByte(f) ==
  /\ Sending(f)
  /\ CrsfProcessByte(f[crsf_sent + 1], InStep)
  /\ Advance(f, InStep)
  /\ Owed
  /\ crsf_clean' = IF crsf_clean < Horizon THEN crsf_clean + 1 ELSE crsf_clean
  /\ UNCHANGED crsf_plain

AlterByte(f, v) ==
  /\ Sending(f) /\ v # f[crsf_sent + 1]
  /\ CrsfProcessByte(v, FALSE)
  /\ Advance(f, FALSE)
  /\ Owed
  /\ JustDamaged
  /\ UNCHANGED crsf_plain

DropByte(f) ==
  /\ Sending(f)
  /\ Advance(f, FALSE)
  /\ JustDamaged
  /\ UNCHANGED <<parserVars, pingVars, crsf_result, crsf_plain, crsf_owed>>

ExtraByte(v) ==
  /\ CrsfProcessByte(v, FALSE)
  /\ crsf_good' = FALSE /\ crsf_ended' = NoFrame
  /\ Owed
  /\ JustDamaged
  /\ UNCHANGED <<crsf_plain, crsf_frame, crsf_sent>>

\* crsf_protocol_take_device_ping, called by the telemetry service.
TakeDevicePing ==
  /\ device_ping_pending
  /\ device_ping_pending' = FALSE
  /\ device_ping_origin' = NoOrigin
  /\ crsf_owed' = NoOrigin
  /\ UNCHANGED <<parserVars, crsf_result, crsf_plain, crsf_frame, crsf_sent,
                 crsf_good, crsf_ended, crsf_clean>>

CrsfInit ==
  /\ crsf_state = "WAIT_ADDRESS"
  /\ frame_pos = 0 /\ expected_length = 0
  /\ frame_buffer = Unread
  /\ device_ping_pending = FALSE /\ device_ping_origin = NoOrigin
  /\ crsf_result = "IN_PROGRESS"
  /\ crsf_plain \in BOOLEAN
  /\ crsf_frame = NoFrame /\ crsf_sent = 0
  /\ crsf_good = FALSE /\ crsf_ended = NoFrame
  /\ crsf_clean = Horizon
  /\ crsf_owed = NoOrigin

CrsfNext ==
  \/ \E f \in Sent : SendByte(f)
  \/ \E f \in Sent, v \in Noise : AlterByte(f, v)
  \/ \E f \in Sent : DropByte(f)
  \/ \E v \in Noise : ExtraByte(v)
  \/ TakeDevicePing

CrsfSpec == CrsfInit /\ [][CrsfNext]_crsfVars

-----------------------------------------------------------------------------

\* Types; and while a frame is collected the next byte has a place in
\* frame_buffer, which process_byte does not check when it writes there.
CrsfTypeOK ==
  /\ crsf_state \in {"WAIT_ADDRESS", "WAIT_LENGTH", "READ_PAYLOAD"}
  /\ frame_pos \in 0..(MaxFrameSize - 1)
  /\ expected_length \in 0..(MaxFrameSize - 2)
  /\ frame_buffer \in [type : AnyByte, destination : AnyByte, origin : AnyByte]
  /\ device_ping_pending \in BOOLEAN
  /\ device_ping_origin \in AnyByte
  /\ crsf_result \in {"IN_PROGRESS", "ERROR", "IDLE", "FRAME_READY"}
  /\ crsf_frame \in Sent \union {NoFrame}
  /\ crsf_sent \in 0..(MaxFrameSize - 1)
  /\ crsf_clean \in 0..Horizon
  /\ (crsf_state = "READ_PAYLOAD") = (frame_pos >= 2)
  /\ crsf_state = "READ_PAYLOAD" => frame_pos < expected_length + 2

\* A frame that finds the parser waiting and arrives unharmed is recognised,
\* whatever passed before it: an RC frame is handed over, and a device ping
\* for this device waits for the telemetry service with the origin to answer,
\* until it is taken or the parser comes to the end of other bytes.
FramesRecognised ==
  /\ crsf_ended = RcFrame => crsf_result = "FRAME_READY"
  /\ crsf_owed # NoOrigin =>
       device_ping_pending /\ device_ping_origin = crsf_owed

\* The parser has no timeout: when no byte of the transmitter's frames but the
\* first looks like an address, a damaged length or a byte too many or too few
\* costs only the frames that begin within one frame size of it.
BackInStep ==
  crsf_plain /\ crsf_frame = NoFrame /\ crsf_clean = Horizon =>
    crsf_state = "WAIT_ADDRESS"

=============================================================================
