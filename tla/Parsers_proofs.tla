--------------------------- MODULE Parsers_proofs ---------------------------
(***************************************************************************)
(* The CRSF and SBUS parsers, for every size of a frame, every frame sent, *)
(* every damage on the line and every timing the assumptions allow.        *)
(***************************************************************************)
EXTENDS CrsfParser, SbusParser, Modular, TLAPS

-----------------------------------------------------------------------------
(* CRSF.                                                                   *)

LEMMA ByteTypes == AnyByte \subseteq Nat /\ 0 \in AnyByte
BY DEF AnyByte

LEMMA Sizes ==
  /\ MaxFrameSize \in Nat /\ MaxFrameSize >= 4
  /\ Horizon \in Nat /\ Horizon = MaxFrameSize - 1
  /\ Noise \subseteq AnyByte
BY CrsfAssumption DEF Horizon

LEMMA SentFrame ==
  ASSUME NEW f \in Sent
  PROVE  /\ f \in Seq(AnyByte) /\ f # NoFrame
         /\ Len(f) \in Nat /\ Len(f) >= 4 /\ Len(f) <= MaxFrameSize
         /\ f[1] \in Addresses /\ f[2] = Len(f) - 2
         /\ \A i \in 1..Len(f) : f[i] \in AnyByte
         /\ f[3] = TypePing => f \in PingFrames /\ f[2] = PingLength
<1>1. /\ f \in Seq(AnyByte) /\ Len(f) \in 4..MaxFrameSize
      /\ f[1] \in Addresses /\ f[2] = Len(f) - 2
  BY CrsfAssumption
<1>2. f # NoFrame
  BY <1>1 DEF NoFrame
<1>3. f[3] = TypePing => f \in PingFrames /\ f[2] = PingLength
  BY CrsfTypeAssumption DEF Sent, TypePing, TypeRc
<1> QED BY <1>1, <1>2, <1>3, Sizes

\* What the parser keeps while it waits and while it reads.
ParserInv ==
  /\ crsf_state \in {"WAIT_ADDRESS", "WAIT_LENGTH", "READ_PAYLOAD"}
  /\ frame_pos \in Nat /\ expected_length \in Nat
  /\ crsf_state = "WAIT_ADDRESS" => frame_pos = 0 /\ expected_length = 0
  /\ crsf_state = "WAIT_LENGTH" => frame_pos = 1 /\ expected_length = 0
  /\ crsf_state = "READ_PAYLOAD" =>
       /\ frame_pos >= 2 /\ frame_pos < expected_length + 2
       /\ expected_length <= MaxFrameSize - 2
  /\ frame_buffer \in [type : AnyByte, destination : AnyByte, origin : AnyByte]
  /\ device_ping_pending \in BOOLEAN
  /\ device_ping_origin \in AnyByte
  /\ crsf_result \in {"IN_PROGRESS", "ERROR", "IDLE", "FRAME_READY"}

\* What the transmitter is sending.
SenderInv ==
  /\ crsf_plain \in BOOLEAN
  /\ crsf_frame = NoFrame => crsf_sent = 0
  /\ crsf_frame # NoFrame =>
       /\ crsf_frame \in Sendable
       /\ crsf_sent \in 1..(Len(crsf_frame) - 1)
  /\ crsf_sent \in 0..(MaxFrameSize - 1)
  /\ crsf_clean \in 0..Horizon
  /\ crsf_good \in BOOLEAN

\* A parser that has a frame from its first byte on is where the transmitter
\* is, and knows what it has to know of the frame.
GoodInv ==
  crsf_good =>
    /\ crsf_frame # NoFrame
    /\ frame_pos = crsf_sent
    /\ crsf_sent = 1 => crsf_state = "WAIT_LENGTH"
    /\ crsf_sent >= 2 => /\ crsf_state = "READ_PAYLOAD"
                         /\ expected_length = Len(crsf_frame) - 2
    /\ crsf_sent >= 3 => frame_buffer.type = crsf_frame[3]
    /\ crsf_sent >= 4 /\ crsf_frame[3] = TypePing =>
         frame_buffer.destination = crsf_frame[4]
    /\ crsf_sent >= 5 /\ crsf_frame[3] = TypePing =>
         frame_buffer.origin = crsf_frame[5]

\* A parser out of step was misled by the last damage: what it still waits for
\* ends before the horizon.
AstrayInv ==
  crsf_plain /\ ~crsf_good =>
    /\ crsf_state = "WAIT_LENGTH" => crsf_clean = 0
    /\ crsf_state = "READ_PAYLOAD" =>
         crsf_clean + (expected_length + 2 - frame_pos) <= Horizon

CrsfInv == ParserInv /\ SenderInv /\ GoodInv /\ AstrayInv /\ FramesRecognised

LEMMA SendableSent == Sendable \subseteq Sent
BY DEF Sendable

\* What is stored.
LEMMA StoredType ==
  ASSUME ParserInv, NEW b \in AnyByte
  PROVE  /\ Stored(b) \in [type : AnyByte, destination : AnyByte, origin : AnyByte]
         /\ Stored(b).type = IF frame_pos = 2 THEN b ELSE frame_buffer.type
         /\ Stored(b).destination = IF frame_pos = 3 /\ frame_buffer.type = TypePing
                                      THEN b ELSE frame_buffer.destination
         /\ Stored(b).origin = IF frame_pos = 4 /\ frame_buffer.type = TypePing
                                 THEN b ELSE frame_buffer.origin
<1> DEFINE B == [type : AnyByte, destination : AnyByte, origin : AnyByte]
<1>1. frame_buffer \in B
  BY DEF ParserInv
<1>2. /\ [frame_buffer EXCEPT !.type = b] \in B
      /\ [frame_buffer EXCEPT !.destination = b] \in B
      /\ [frame_buffer EXCEPT !.origin = b] \in B
  BY <1>1
<1>3. CASE frame_pos = 2
  BY <1>1, <1>2, <1>3 DEF Stored
<1>4. CASE frame_pos = 3 /\ frame_buffer.type = TypePing
  BY <1>1, <1>2, <1>4 DEF Stored
<1>5. CASE frame_pos = 4 /\ frame_buffer.type = TypePing
  BY <1>1, <1>2, <1>5 DEF Stored
<1>6. CASE /\ frame_pos # 2
           /\ ~(frame_pos = 3 /\ frame_buffer.type = TypePing)
           /\ ~(frame_pos = 4 /\ frame_buffer.type = TypePing)
  BY <1>1, <1>6 DEF Stored
<1> QED BY <1>3, <1>4, <1>5, <1>6

\* A byte keeps the parser in shape, whatever it is.
LEMMA ParserByte ==
  ASSUME ParserInv, NEW b \in AnyByte, NEW good \in BOOLEAN, CrsfProcessByte(b, good)
  PROVE  ParserInv'
<1> USE DEF ParserInv
<1>0. b \in Nat /\ MaxFrameSize \in Nat /\ MaxFrameSize >= 4
      /\ Stored(b) \in [type : AnyByte, destination : AnyByte, origin : AnyByte]
  BY ByteTypes, Sizes, StoredType
<1>1. Unread \in [type : AnyByte, destination : AnyByte, origin : AnyByte]
      /\ NoOrigin \in AnyByte
  BY ByteTypes DEF Unread, NoOrigin
<1>2. CASE WaitAddress(b)
  BY <1>2 DEF WaitAddress, pingVars
<1>3. CASE LengthError(b)
  BY <1>1, <1>3 DEF LengthError, ProtocolReset, ParserReset
<1>4. CASE WaitLength(b)
  BY <1>0, <1>4 DEF WaitLength, LengthAccepted, pingVars
<1>5. CASE ReadPayload(b)
  BY <1>0, <1>5 DEF ReadPayload, Complete, pingVars
<1>6. CASE CrcError(b, good) \/ RcChannels(b) \/ Unsupported(b)
  <2>1. ProtocolReset /\ crsf_result' \in {"ERROR", "FRAME_READY", "IN_PROGRESS"}
    BY <1>6 DEF CrcError, RcChannels, Unsupported
  <2> QED BY <1>1, <2>1 DEF ProtocolReset, ParserReset
<1>7. CASE PingLengthError(b)
  BY <1>1, <1>7 DEF PingLengthError, ParserReset, pingVars
<1>8. CASE Ping(b)
  <2>1. device_ping_pending' \in BOOLEAN /\ device_ping_origin' \in AnyByte
    BY <1>0, <1>8 DEF Ping, pingVars
  <2> QED BY <1>1, <1>8, <2>1 DEF Ping, ParserReset
<1> QED BY <1>2, <1>3, <1>4, <1>5, <1>6, <1>7, <1>8 DEF CrsfProcessByte

\* The transmitter's next byte.
LEMMA SendingFrame ==
  ASSUME SenderInv, NEW f \in Sent, Sending(f)
  PROVE  /\ f \in Sendable /\ crsf_sent \in 0..(Len(f) - 1)
         /\ crsf_sent + 1 \in 1..Len(f) /\ f[crsf_sent + 1] \in AnyByte
         /\ crsf_sent > 0 => f = crsf_frame
<1>1. f \in Sendable /\ crsf_sent \in 0..(Len(f) - 1)
      /\ (crsf_sent > 0 => f = crsf_frame)
  BY SentFrame DEF SenderInv, Sending
<1>2. crsf_sent + 1 \in 1..Len(f)
  BY <1>1, SentFrame
<1> QED BY <1>1, <1>2, SentFrame

LEMMA SenderAdvance ==
  ASSUME SenderInv, NEW f \in Sent, Sending(f), NEW good \in BOOLEAN,
         Advance(f, good), crsf_plain' = crsf_plain, crsf_clean' \in 0..Horizon
  PROVE  /\ SenderInv'
         /\ crsf_sent + 1 < Len(f) =>
              crsf_sent' = crsf_sent + 1 /\ crsf_frame' = f /\ crsf_good' = good
              /\ crsf_ended' = NoFrame
         /\ crsf_sent + 1 = Len(f) =>
              crsf_sent' = 0 /\ crsf_frame' = NoFrame /\ ~crsf_good'
              /\ crsf_ended' = IF good THEN f ELSE NoFrame
<1>1. /\ Len(f) \in Nat \ {0} /\ Len(f) <= MaxFrameSize /\ f # NoFrame
      /\ MaxFrameSize \in Nat /\ Len(f) >= 4
  BY SentFrame, Sizes
<1>2. crsf_sent \in 0..(Len(f) - 1) /\ f \in Sendable
  BY SendingFrame
<1>3. (crsf_sent + 1) % Len(f) = IF crsf_sent + 1 = Len(f) THEN 0 ELSE crsf_sent + 1
  BY <1>1, <1>2, WrapNext
<1>4. Sendable' = Sendable
  BY DEF Sendable
<1>5. CASE crsf_sent + 1 = Len(f)
  <2>0. ~(crsf_sent + 1 < Len(f))
    BY <1>1, <1>5
  <2>1. /\ crsf_sent' = 0 /\ crsf_frame' = NoFrame /\ ~crsf_good'
        /\ crsf_ended' = IF good THEN f ELSE NoFrame
    <3>1. crsf_sent' = 0 /\ crsf_frame' = NoFrame
      BY <1>3, <1>5 DEF Advance
    <3>2. crsf_ended' = IF good THEN f ELSE NoFrame
      BY <1>5 DEF Advance
    <3>3. ~crsf_good'
      BY <2>0, Zenon DEF Advance
    <3> QED BY <3>1, <3>2, <3>3
  <2>2. crsf_good' \in BOOLEAN
    BY DEF Advance
  <2>3. 0 \in 0..(MaxFrameSize - 1)
    BY <1>1
  <2> QED BY <1>1, <1>2, <1>5, <2>1, <2>2, <2>3 DEF SenderInv
<1>6. CASE crsf_sent + 1 # Len(f)
  <2>1. crsf_sent + 1 < Len(f)
    BY <1>1, <1>2, <1>6
  <2>2. /\ crsf_sent' = crsf_sent + 1 /\ crsf_frame' = f
        /\ crsf_ended' = NoFrame
    BY <1>1, <1>2, <1>3, <1>6 DEF Advance
  <2>3. crsf_good' = good
    BY <2>1 DEF Advance
  <2>4. crsf_sent' \in 1..(Len(f) - 1) /\ crsf_sent' \in 0..(MaxFrameSize - 1)
    BY <1>1, <1>2, <2>1, <2>2
  <2> QED BY <1>1, <1>2, <1>4, <1>6, <2>1, <2>2, <2>3, <2>4 DEF SenderInv
<1> QED BY <1>5, <1>6

\* In step, the parser takes a frame's bytes for what they are.
LEMMA InStepByte ==
  ASSUME ParserInv, SenderInv, GoodInv, NEW f \in Sent, SendByte(f), InStep
  PROVE  /\ GoodInv'
         /\ crsf_ended' = RcFrame => crsf_result' = "FRAME_READY"
         /\ ForUs(crsf_ended') => device_ping_pending' /\ device_ping_origin' = crsf_ended'[5]
         /\ ~crsf_good' => crsf_state' = "WAIT_ADDRESS"
<1> DEFINE b == f[crsf_sent + 1]
<1>1. /\ Len(f) \in Nat /\ Len(f) >= 4 /\ Len(f) <= MaxFrameSize
      /\ MaxFrameSize \in Nat /\ f # NoFrame
      /\ crsf_sent \in 0..(Len(f) - 1) /\ b \in AnyByte /\ b \in Nat
      /\ crsf_sent > 0 => f = crsf_frame
  BY SentFrame, SendingFrame, ByteTypes, Sizes DEF SendByte
<1>2. CrsfProcessByte(b, TRUE)
  BY DEF SendByte
<1>3. /\ crsf_sent + 1 < Len(f) =>
           /\ crsf_sent' = crsf_sent + 1 /\ crsf_frame' = f /\ crsf_good'
           /\ crsf_ended' = NoFrame
      /\ crsf_sent + 1 = Len(f) =>
           /\ crsf_sent' = 0 /\ crsf_frame' = NoFrame /\ ~crsf_good'
           /\ crsf_ended' = f
  <2>1. /\ Advance(f, InStep) /\ InStep \in BOOLEAN /\ crsf_plain' = crsf_plain
        /\ Sending(f) /\ crsf_clean' \in 0..Horizon
    <3>1. crsf_good \in BOOLEAN /\ crsf_clean \in 0..Horizon
      BY DEF SenderInv
    <3>2. InStep \in BOOLEAN
      BY <3>1 DEF InStep
    <3> QED BY <3>1, <3>2, Sizes DEF SendByte
  <2> QED BY <2>1, SenderAdvance
<1>4. NoFrame # RcFrame /\ ~ForUs(NoFrame)
  <2>1. RcFrame # NoFrame /\ \A g \in PingFrames : g # NoFrame
    BY SentFrame DEF Sent
  <2> QED BY <2>1 DEF ForUs
<1> HIDE DEF b
<1>5. CASE crsf_sent = 0
  <2>1. crsf_state = "WAIT_ADDRESS" /\ b \in Addresses
    BY <1>5, SentFrame DEF InStep, b
  <2>2. WaitAddress(b)
    BY <1>2, <2>1 DEF CrsfProcessByte, LengthError, WaitLength, ReadPayload,
          CrcError, PingLengthError, Ping, RcChannels, Unsupported, Ends
  <2>3. crsf_state' = "WAIT_LENGTH" /\ frame_pos' = 1
    BY <2>1, <2>2 DEF WaitAddress
  <2>4. crsf_sent' = 1 /\ crsf_frame' = f /\ crsf_good' /\ crsf_ended' = NoFrame
    BY <1>1, <1>3, <1>5
  <2>5. GoodInv'
    BY <1>1, <2>3, <2>4 DEF GoodInv
  <2> QED BY <1>4, <2>4, <2>5
<1>6. CASE crsf_sent = 1
  <2>1. crsf_good /\ crsf_state = "WAIT_LENGTH" /\ b = Len(f) - 2
    BY <1>6, SentFrame DEF InStep, GoodInv, b
  <2>2. LengthAccepted(b)
    BY <1>1, <2>1 DEF LengthAccepted
  <2>3. WaitLength(b)
    BY <1>2, <2>1, <2>2 DEF CrsfProcessByte, LengthError, WaitAddress, ReadPayload,
          CrcError, PingLengthError, Ping, RcChannels, Unsupported, Ends
  <2>4. crsf_state' = "READ_PAYLOAD" /\ frame_pos' = 2 /\ expected_length' = Len(f) - 2
    BY <2>1, <2>3 DEF WaitLength
  <2>5. crsf_sent' = 2 /\ crsf_frame' = f /\ crsf_good' /\ crsf_ended' = NoFrame
    BY <1>1, <1>3, <1>6
  <2>6. GoodInv'
    BY <1>1, <2>4, <2>5 DEF GoodInv
  <2> QED BY <1>4, <2>5, <2>6
<1>7. CASE crsf_sent >= 2
  <2>1. /\ crsf_good /\ f = crsf_frame /\ frame_pos = crsf_sent
        /\ crsf_state = "READ_PAYLOAD" /\ expected_length = Len(f) - 2
        /\ crsf_sent >= 3 => frame_buffer.type = f[3]
        /\ crsf_sent >= 4 /\ f[3] = TypePing => frame_buffer.destination = f[4]
        /\ crsf_sent >= 5 /\ f[3] = TypePing => frame_buffer.origin = f[5]
    BY <1>1, <1>7 DEF InStep, GoodInv
  <2>2. Complete <=> crsf_sent + 1 = Len(f)
    BY <1>1, <2>1 DEF Complete
  <2>3. /\ Stored(b).type = IF frame_pos = 2 THEN b ELSE frame_buffer.type
        /\ Stored(b).destination = IF frame_pos = 3 /\ frame_buffer.type = TypePing
                                     THEN b ELSE frame_buffer.destination
        /\ Stored(b).origin = IF frame_pos = 4 /\ frame_buffer.type = TypePing
                                THEN b ELSE frame_buffer.origin
    BY <1>1, StoredType
  <2>4. Stored(b).type = f[3]
    <3>1. CASE crsf_sent = 2
      BY <2>1, <2>3, <3>1 DEF b
    <3>2. CASE crsf_sent >= 3
      BY <1>1, <2>1, <2>3, <3>2
    <3> QED BY <1>1, <1>7, <3>1, <3>2
  <2>5. crsf_sent >= 3 /\ f[3] = TypePing => Stored(b).destination = f[4]
    <3>1. CASE crsf_sent = 3
      BY <2>1, <2>3, <3>1 DEF b
    <3>2. CASE crsf_sent >= 4
      BY <1>1, <2>1, <2>3, <3>2
    <3> QED BY <1>1, <3>1, <3>2
  <2>6. crsf_sent >= 4 /\ f[3] = TypePing => Stored(b).origin = f[5]
    <3>1. CASE crsf_sent = 4
      BY <2>1, <2>3, <3>1 DEF b
    <3>2. CASE crsf_sent >= 5
      BY <1>1, <2>1, <2>3, <3>2
    <3> QED BY <1>1, <3>1, <3>2
  <2>7. CASE crsf_sent + 1 < Len(f)
    <3>1. ReadPayload(b)
      BY <1>1, <1>2, <2>1, <2>2, <2>7 DEF CrsfProcessByte, WaitAddress, LengthError,
            WaitLength, CrcError, PingLengthError, Ping, RcChannels, Unsupported, Ends
    <3>2. /\ frame_buffer' = Stored(b) /\ frame_pos' = frame_pos + 1
          /\ crsf_state' = crsf_state /\ expected_length' = expected_length
      BY <3>1 DEF ReadPayload
    <3>3. /\ crsf_sent' = crsf_sent + 1 /\ crsf_frame' = f /\ crsf_good'
          /\ crsf_ended' = NoFrame
      BY <1>3, <2>7
    <3>4. GoodInv'
      BY <1>1, <1>7, <2>1, <2>4, <2>5, <2>6, <3>2, <3>3 DEF GoodInv
    <3> QED BY <1>4, <3>3, <3>4
  <2>8. CASE crsf_sent + 1 = Len(f)
    <3>1. Ends
      BY <2>1, <2>2, <2>8 DEF Ends
    <3>2. PingLengthError(b) \/ Ping(b) \/ RcChannels(b) \/ Unsupported(b)
      BY <1>2, <3>1 DEF CrsfProcessByte, WaitAddress, LengthError, WaitLength,
            ReadPayload, CrcError, Ends
    <3>3. ~crsf_good' /\ crsf_ended' = f /\ crsf_state' = "WAIT_ADDRESS"
      BY <1>3, <2>8, <3>2 DEF PingLengthError, Ping, RcChannels, Unsupported,
            ProtocolReset, ParserReset
    <3>4. f = RcFrame => crsf_result' = "FRAME_READY"
      <4>1. RcFrame[3] = TypeRc /\ TypeRc # TypePing
        BY CrsfTypeAssumption DEF TypeRc, TypePing
      <4> QED BY <2>4, <3>2, <4>1 DEF PingLengthError, Ping, RcChannels, Unsupported
    <3>5. ForUs(f) => device_ping_pending' /\ device_ping_origin' = f[5]
      <4> SUFFICES ASSUME ForUs(f)
                   PROVE  device_ping_pending' /\ device_ping_origin' = f[5]
        OBVIOUS
      <4>1. f[3] = TypePing /\ f[2] = PingLength /\ f[4] \in {FlightController, 0}
        BY CrsfTypeAssumption DEF ForUs
      <4>2. expected_length = PingLength /\ crsf_sent = 5
        BY <1>1, <2>1, <2>8, <4>1, SentFrame DEF PingLength
      <4>3. Ping(b)
        BY <2>4, <3>2, <4>1, <4>2 DEF PingLengthError, RcChannels, Unsupported,
              TypeRc, TypePing
      <4>4. Stored(b).destination = f[4] /\ Stored(b).origin = f[5]
        BY <2>5, <2>6, <4>1, <4>2
      <4> QED BY <4>1, <4>3, <4>4 DEF Ping
    <3>6. GoodInv'
      BY <3>3 DEF GoodInv
    <3> QED BY <3>3, <3>4, <3>5, <3>6
  <2> QED BY <1>1, <2>7, <2>8
<1> QED BY <1>1, <1>5, <1>6, <1>7

\* Only a frame's end or a length that is not accepted disturbs a ping that
\* waits.
LEMMA OwedByte ==
  ASSUME FramesRecognised, NEW b, NEW good, CrsfProcessByte(b, good), Owed,
         ~ForUs(crsf_ended')
  PROVE  crsf_owed' # NoOrigin =>
           device_ping_pending' /\ device_ping_origin' = crsf_owed'
<1>1. CASE Reset
  BY <1>1 DEF Owed
<1>2. CASE ~Reset
  <2>1. WaitAddress(b) \/ WaitLength(b) \/ ReadPayload(b)
    BY <1>2 DEF CrsfProcessByte, LengthError, CrcError, PingLengthError, Ping,
          RcChannels, Unsupported, Ends, ProtocolReset, ParserReset, Reset
  <2>2. UNCHANGED pingVars /\ crsf_owed' = crsf_owed
    BY <1>2, <2>1 DEF WaitAddress, WaitLength, ReadPayload, Owed
  <2> QED BY <2>2 DEF FramesRecognised, pingVars
<1> QED BY <1>1, <1>2

LEMMA RestOfFrame ==
  ASSUME NEW e \in Nat, NEW p \in Nat, p >= 2, e <= MaxFrameSize - 2
  PROVE  0 + (e + 2 - p) <= Horizon
BY Sizes

\* A parser that was just misled gives up before the horizon.
LEMMA AstrayDamage ==
  ASSUME ParserInv', crsf_clean' = 0
  PROVE  AstrayInv'
<1>1. Horizon' = Horizon
  BY DEF Horizon
<1>2. ASSUME crsf_state' = "READ_PAYLOAD"
      PROVE  crsf_clean' + (expected_length' + 2 - frame_pos') <= Horizon
  <2>1. /\ frame_pos' \in Nat /\ expected_length' \in Nat
        /\ frame_pos' >= 2 /\ expected_length' <= MaxFrameSize - 2
    BY <1>2 DEF ParserInv
  <2>2. 0 + (expected_length' + 2 - frame_pos') <= Horizon
    BY <2>1, RestOfFrame
  <2> QED BY <2>2
<1> QED BY <1>1, <1>2 DEF AstrayInv

LEMMA AstrayByte ==
  ASSUME ParserInv, SenderInv, GoodInv, AstrayInv, NEW f \in Sent, SendByte(f), ~InStep
  PROVE  ~crsf_good' /\ AstrayInv'
<1> DEFINE b == f[crsf_sent + 1]
<1>1. /\ Len(f) \in Nat /\ Len(f) >= 4 /\ crsf_sent \in 0..(Len(f) - 1)
      /\ f \in Sendable /\ b \in Nat
  BY SentFrame, SendingFrame, ByteTypes DEF SendByte
<1>2. CrsfProcessByte(b, InStep) /\ crsf_plain' = crsf_plain
  BY DEF SendByte
<1>3. ~crsf_good'
  BY DEF SendByte, Advance
<1>4. ~crsf_good
  BY DEF InStep, GoodInv, SenderInv
<1>5. ASSUME crsf_plain PROVE AstrayInv'
  <2>1. /\ crsf_clean \in Nat /\ Horizon \in Nat /\ MaxFrameSize \in Nat
        /\ Horizon = MaxFrameSize - 1 /\ MaxFrameSize >= 4
        /\ crsf_clean' = IF crsf_clean < Horizon THEN crsf_clean + 1 ELSE crsf_clean
    BY Sizes DEF SenderInv, SendByte
  <2>2. CASE WaitAddress(b)
    <3>1. crsf_sent # 0
      BY <2>2 DEF WaitAddress, InStep
    <3>2. crsf_sent + 1 \in 2..Len(f) /\ Plain(f)
      BY <1>1, <1>5, <3>1 DEF Sendable
    <3>3. b \notin Addresses
      BY <3>2 DEF Plain
    <3>4. crsf_state' = "WAIT_ADDRESS"
      BY <2>2, <3>3 DEF WaitAddress
    <3> QED BY <3>4 DEF AstrayInv
  <2> HIDE DEF b
  <2>3. CASE WaitLength(b)
    <3>1. crsf_clean = 0
      BY <1>4, <1>5, <2>3 DEF AstrayInv, WaitLength
    <3>2. /\ crsf_state' = "READ_PAYLOAD" /\ frame_pos' = 2 /\ expected_length' = b
          /\ b <= MaxFrameSize - 2
      BY <2>3 DEF WaitLength, LengthAccepted
    <3> QED BY <1>1, <2>1, <3>1, <3>2 DEF AstrayInv
  <2>4. CASE ReadPayload(b)
    <3>1. /\ frame_pos \in Nat /\ expected_length \in Nat
          /\ crsf_clean + (expected_length + 2 - frame_pos) <= Horizon
          /\ frame_pos + 1 < expected_length + 2
      BY <1>4, <1>5, <2>4 DEF AstrayInv, ParserInv, ReadPayload, Complete
    <3>2. /\ frame_pos' = frame_pos + 1 /\ expected_length' = expected_length
          /\ crsf_state' = "READ_PAYLOAD"
      BY <2>4 DEF ReadPayload
    <3> QED BY <2>1, <3>1, <3>2 DEF AstrayInv
  <2>5. CASE /\ ~WaitAddress(b) /\ ~WaitLength(b) /\ ~ReadPayload(b)
    <3>1. crsf_state' = "WAIT_ADDRESS"
      BY <1>2, <2>5 DEF CrsfProcessByte, LengthError, CrcError, PingLengthError,
            Ping, RcChannels, Unsupported, ProtocolReset, ParserReset
    <3> QED BY <3>1 DEF AstrayInv
  <2> QED BY <2>2, <2>3, <2>4, <2>5
<1>6. ASSUME ~crsf_plain PROVE AstrayInv'
  BY <1>2, <1>6 DEF AstrayInv
<1> QED BY <1>3, <1>5, <1>6


\* The initial parser waits.
LEMMA CrsfStart == CrsfInit => CrsfInv
<1> SUFFICES ASSUME CrsfInit PROVE CrsfInv
  OBVIOUS
<1> USE DEF CrsfInit
<1>1. ParserInv
  BY ByteTypes DEF ParserInv, Unread, NoOrigin
<1>2. SenderInv
  <2>1. /\ crsf_frame = NoFrame /\ crsf_sent = 0 /\ crsf_plain \in BOOLEAN
        /\ crsf_clean = Horizon /\ crsf_good \in BOOLEAN
    OBVIOUS
  <2>2. 0 \in 0..(MaxFrameSize - 1) /\ Horizon \in 0..Horizon
    BY Sizes
  <2> QED BY <2>1, <2>2 DEF SenderInv
<1>3. GoodInv /\ AstrayInv
  BY DEF GoodInv, AstrayInv
<1>4. FramesRecognised
  BY SentFrame DEF FramesRecognised, Sent
<1> QED BY <1>1, <1>2, <1>3, <1>4 DEF CrsfInv

\* A byte that the parser gets and the transmitter did not send as it is.
LEMMA DamagedByte ==
  ASSUME CrsfInv, NEW b \in Noise, CrsfProcessByte(b, FALSE), Owed, JustDamaged,
         ~crsf_good', crsf_ended' = NoFrame
  PROVE  ParserInv' /\ GoodInv' /\ AstrayInv' /\ FramesRecognised'
<1>1. ParserInv'
  BY Sizes, ParserByte DEF CrsfInv
<1>2. GoodInv' /\ AstrayInv'
  BY <1>1, AstrayDamage DEF GoodInv, JustDamaged
<1>3. NoFrame # RcFrame /\ ~ForUs(NoFrame)
  BY SentFrame DEF Sent, ForUs
<1>4. crsf_owed' # NoOrigin => device_ping_pending' /\ device_ping_origin' = crsf_owed'
  BY <1>3, OwedByte DEF CrsfInv
<1>5. FramesRecognised'
  BY <1>3, <1>4 DEF FramesRecognised, NoOrigin
<1> QED BY <1>1, <1>2, <1>5

\* Every step of the parser, the line and the telemetry service.
LEMMA CrsfKept ==
  ASSUME CrsfInv, [CrsfNext]_crsfVars
  PROVE  CrsfInv'
<1> USE DEF CrsfInv
<1>0. 0 \in 0..Horizon /\ FALSE \in BOOLEAN
  BY Sizes
<1>1. ASSUME NEW f \in Sent, SendByte(f), InStep
      PROVE  CrsfInv'
  <2>1. f[crsf_sent + 1] \in AnyByte
    BY <1>1, SendingFrame DEF SendByte
  <2>2. InStep \in BOOLEAN /\ crsf_clean' \in 0..Horizon /\ crsf_plain' = crsf_plain
    <3>1. crsf_good \in BOOLEAN /\ crsf_clean \in 0..Horizon
      BY DEF SenderInv
    <3>2. InStep \in BOOLEAN
      BY <3>1 DEF InStep
    <3> QED BY <1>1, <3>1, <3>2, Sizes DEF SendByte
  <2>3. ParserInv'
    BY <1>1, <2>1, <2>2, ParserByte DEF SendByte
  <2>4. SenderInv'
    BY <1>1, <2>2, SenderAdvance DEF SendByte
  <2>5. /\ GoodInv'
        /\ crsf_ended' = RcFrame => crsf_result' = "FRAME_READY"
        /\ ForUs(crsf_ended') => /\ device_ping_pending'
                                 /\ device_ping_origin' = crsf_ended'[5]
        /\ ~crsf_good' => crsf_state' = "WAIT_ADDRESS"
    BY <1>1, InStepByte
  <2>6. AstrayInv'
    BY <2>5 DEF AstrayInv
  <2>7. crsf_owed' # NoOrigin =>
          device_ping_pending' /\ device_ping_origin' = crsf_owed'
    <3>1. CASE ForUs(crsf_ended')
      BY <1>1, <2>5, <3>1 DEF SendByte, Owed
    <3>2. CASE ~ForUs(crsf_ended')
      BY <1>1, <3>2, OwedByte DEF SendByte
    <3> QED BY <3>1, <3>2
  <2>8. FramesRecognised'
    BY <2>5, <2>7 DEF FramesRecognised, NoOrigin
  <2> QED BY <2>3, <2>4, <2>5, <2>6, <2>8
<1>2. ASSUME NEW f \in Sent, SendByte(f), ~InStep
      PROVE  CrsfInv'
  <2>1. f[crsf_sent + 1] \in AnyByte
    BY <1>2, SendingFrame DEF SendByte
  <2>2. InStep \in BOOLEAN /\ crsf_clean' \in 0..Horizon /\ crsf_plain' = crsf_plain
    <3>1. crsf_good \in BOOLEAN /\ crsf_clean \in 0..Horizon
      BY DEF SenderInv
    <3>2. InStep \in BOOLEAN
      BY <3>1 DEF InStep
    <3> QED BY <1>2, <3>1, <3>2, Sizes DEF SendByte
  <2>3. ParserInv'
    BY <1>2, <2>1, <2>2, ParserByte DEF SendByte
  <2>4. SenderInv'
    BY <1>2, <2>2, SenderAdvance DEF SendByte
  <2>5. ~crsf_good' /\ AstrayInv'
    BY <1>2, AstrayByte
  <2>6. crsf_ended' = NoFrame
    BY <1>2 DEF SendByte, Advance
  <2>7. NoFrame # RcFrame /\ ~ForUs(NoFrame)
    BY SentFrame DEF Sent, ForUs
  <2>8. crsf_owed' # NoOrigin =>
          device_ping_pending' /\ device_ping_origin' = crsf_owed'
    BY <1>2, <2>6, <2>7, OwedByte DEF SendByte
  <2>9. GoodInv' /\ FramesRecognised'
    BY <2>5, <2>6, <2>7, <2>8 DEF GoodInv, FramesRecognised, NoOrigin
  <2> QED BY <2>3, <2>4, <2>5, <2>9
<1>3. ASSUME NEW f \in Sent, Sending(f), Advance(f, FALSE), JustDamaged,
             UNCHANGED crsf_plain
      PROVE  SenderInv' /\ ~crsf_good' /\ crsf_ended' = NoFrame
  <2>1. SenderInv'
    BY <1>0, <1>3, SenderAdvance DEF JustDamaged
  <2> QED BY <1>3, <2>1 DEF Advance
<1>4. ASSUME NEW f \in Sent, NEW v \in Noise, AlterByte(f, v)
      PROVE  CrsfInv'
  <2>1. SenderInv' /\ ~crsf_good' /\ crsf_ended' = NoFrame
    BY <1>3, <1>4 DEF AlterByte
  <2> QED BY <1>4, <2>1, DamagedByte DEF AlterByte
<1>5. ASSUME NEW f \in Sent, DropByte(f)
      PROVE  CrsfInv'
  <2>1. SenderInv' /\ ~crsf_good' /\ crsf_ended' = NoFrame
    BY <1>3, <1>5 DEF DropByte
  <2>2. ParserInv'
    BY <1>5 DEF DropByte, ParserInv, parserVars, pingVars
  <2>3. GoodInv' /\ AstrayInv'
    BY <1>5, <2>1, <2>2, AstrayDamage DEF GoodInv, DropByte, JustDamaged
  <2>4. NoFrame # RcFrame
    BY SentFrame DEF Sent
  <2>5. FramesRecognised'
    BY <1>5, <2>1, <2>4 DEF FramesRecognised, DropByte, pingVars, NoOrigin
  <2> QED BY <2>1, <2>2, <2>3, <2>5
<1>6. ASSUME NEW v \in Noise, ExtraByte(v)
      PROVE  CrsfInv'
  <2>1. SenderInv'
    BY <1>0, <1>6 DEF ExtraByte, SenderInv, JustDamaged, Sendable, Horizon
  <2> QED BY <1>6, <2>1, DamagedByte DEF ExtraByte
<1>7. ASSUME TakeDevicePing
      PROVE  CrsfInv'
  <2> USE <1>7 DEF TakeDevicePing, parserVars
  <2>1. ParserInv'
    BY ByteTypes DEF ParserInv, NoOrigin
  <2>2. SenderInv'
    BY DEF SenderInv, Sendable, Horizon
  <2>3. GoodInv'
    BY DEF GoodInv
  <2>4. AstrayInv' /\ FramesRecognised'
    BY DEF AstrayInv, FramesRecognised, Horizon
  <2> QED BY <2>1, <2>2, <2>3, <2>4
<1>8. ASSUME UNCHANGED crsfVars
      PROVE  CrsfInv'
  <2> USE <1>8 DEF crsfVars, parserVars, pingVars
  <2>1. ParserInv' /\ GoodInv'
    BY DEF ParserInv, GoodInv
  <2>2. SenderInv'
    BY DEF SenderInv, Sendable, Horizon
  <2>3. AstrayInv' /\ FramesRecognised'
    BY DEF AstrayInv, FramesRecognised, Horizon
  <2> QED BY <2>1, <2>2, <2>3
<1> QED BY <1>1, <1>2, <1>4, <1>5, <1>6, <1>7, <1>8 DEF CrsfNext

\* What the invariant says of the properties.
LEMMA CrsfShows == CrsfInv => CrsfTypeOK /\ FramesRecognised /\ BackInStep
<1> SUFFICES ASSUME CrsfInv PROVE CrsfTypeOK /\ BackInStep
  BY DEF CrsfInv
<1> USE DEF CrsfInv
<1>1. frame_pos \in 0..(MaxFrameSize - 1) /\ expected_length \in 0..(MaxFrameSize - 2)
      /\ (crsf_state = "READ_PAYLOAD") = (frame_pos >= 2)
  BY Sizes DEF ParserInv
<1>2. crsf_frame \in Sent \union {NoFrame}
  BY SendableSent DEF SenderInv
<1>3. CrsfTypeOK
  BY <1>1, <1>2 DEF CrsfTypeOK, ParserInv, SenderInv
<1>4. ASSUME crsf_plain, crsf_frame = NoFrame, crsf_clean = Horizon
      PROVE  crsf_state = "WAIT_ADDRESS"
  <2>1. ~crsf_good
    BY <1>4 DEF GoodInv
  <2>2. crsf_state # "WAIT_LENGTH"
    BY <1>4, <2>1, Sizes DEF AstrayInv
  <2>3. crsf_state # "READ_PAYLOAD"
    BY <1>4, <2>1, Sizes DEF AstrayInv, ParserInv
  <2> QED BY <2>2, <2>3 DEF ParserInv
<1> QED BY <1>3, <1>4 DEF BackInStep

-----------------------------------------------------------------------------
(* SBUS.                                                                   *)

\* The place of the i-th byte that waits in the frame the parser reads, or
\* would read if the first of them began it.
ReadSoFar == IF Reading THEN sbus_pos ELSE 0
Place(i) == ReadSoFar + i

Begun ==
  \/ Reading
  \/ sbus_waiting # <<>> /\ sbus_waiting[1].value = "header"

\* Reading, the parser had its last byte in the poll before the one to come.
Timely == Reading => sbus_age <= sbus_idle_poll + 1

\* How long ago the last byte on the line was: what waits came since the last
\* poll, and what was read came at most one poll before it was read.
SilenceInv ==
  /\ ~Starting => sbus_silence <= 1
  /\ sbus_waiting # <<>> =>
       sbus_silence <= sbus_idle_poll \/ sbus_noise <= sbus_idle_poll
  /\ Reading =>
       sbus_silence <= sbus_age + MaxPoll \/ sbus_noise <= sbus_age + MaxPoll

\* After a byte that nobody sent, every byte counts as disturbed until a frame
\* begins that no such byte precedes.
DisturbedInv ==
  /\ \A i, j \in 1..Len(sbus_waiting) :
       i <= j /\ sbus_waiting[j].tag # "disturbed" =>
         sbus_waiting[i].tag # "disturbed"
  /\ ~Starting /\ sbus_frame # "disturbed" =>
       \A i \in 1..Len(sbus_waiting) : sbus_waiting[i].tag # "disturbed"

\* The parser counts the bytes of a whole frame from its header on, and never
\* as many in a broken one.
FrameInv ==
  /\ ~Starting /\ sbus_frame = "whole" =>
       /\ Begun /\ Place(Len(sbus_waiting)) = sbus_next
       /\ Timely
       /\ Reading /\ sbus_waiting = <<>> => sbus_age <= sbus_silence
  /\ ~Starting /\ sbus_frame = "broken" =>
       \/ Place(Len(sbus_waiting)) < sbus_next
       \/ Place(Len(sbus_waiting)) = sbus_next /\ ~Begun

\* What each byte that waits will be to the parser.
WaitingByte(i) ==
  LET b == sbus_waiting[i] IN
  /\ b.tag # "disturbed" => Place(i) <= FrameSize
  /\ b.tag = "last" =>
       Place(i) = FrameSize /\ b.value = "footer" /\ Begun /\ Timely
  /\ b.tag = "inside" /\ Place(i) = FrameSize => ~Begun \/ b.value # "footer"

WaitingInv == \A i \in 1..Len(sbus_waiting) : WaitingByte(i)

SbusInv == /\ SbusTypeOK /\ SilenceInv /\ DisturbedInv
           /\ FrameInv /\ WaitingInv /\ FramesExact

LEMMA SbusSizes ==
  /\ FrameSize \in Nat /\ FrameSize >= 3 /\ Footer = FrameSize - 1
  /\ MaxPoll \in Nat /\ MaxPoll >= 1
  /\ Timeout \in Nat /\ Timeout > MaxPoll + 1
  /\ Gap \in Nat /\ Gap >= Timeout + MaxPoll
  /\ MaxWaiting \in Nat
BY SbusAssumption DEF Footer

LEMMA WaitingTypes ==
  ASSUME SbusTypeOK
  PROVE  /\ sbus_waiting \in Seq([value : Values, tag : Tags])
         /\ Len(sbus_waiting) \in Nat
         /\ \A i \in 1..Len(sbus_waiting) :
              /\ sbus_waiting[i] \in [value : Values, tag : Tags]
              /\ sbus_waiting[i].value \in Values /\ sbus_waiting[i].tag \in Tags
         /\ sbus_waiting = <<>> <=> Len(sbus_waiting) = 0
         /\ ReadSoFar \in Nat /\ ReadSoFar <= Footer
         /\ Reading => ReadSoFar = sbus_pos /\ ReadSoFar > 0
         /\ ~Reading => ReadSoFar = 0
<1>1. sbus_waiting \in Seq([value : Values, tag : Tags])
  BY DEF SbusTypeOK
<1>2. \A i \in 1..Len(sbus_waiting) :
        sbus_waiting[i] \in [value : Values, tag : Tags]
  <2> DEFINE S == [value : Values, tag : Tags]
  <2>1. sbus_waiting \in Seq(S)
    BY <1>1
  <2> HIDE DEF S
  <2>2. \A i \in 1..Len(sbus_waiting) : sbus_waiting[i] \in S
    BY <2>1
  <2> QED BY <2>2 DEF S
<1>3. /\ ReadSoFar \in Nat /\ ReadSoFar <= Footer
      /\ Reading => ReadSoFar = sbus_pos /\ ReadSoFar > 0
      /\ ~Reading => ReadSoFar = 0
  BY SbusSizes DEF SbusTypeOK, ReadSoFar, Reading
<1> QED BY <1>1, <1>2, <1>3

\* What a byte added to the queue changes.
LEMMA Queued ==
  ASSUME SbusTypeOK, NEW v \in Values, NEW t \in Tags, UNCHANGED sbusParser,
         sbus_waiting' = Append(sbus_waiting, [value |-> v, tag |-> t])
  PROVE  /\ sbus_waiting' # <<>> /\ Len(sbus_waiting') = Len(sbus_waiting) + 1
         /\ sbus_waiting' \in Seq([value : Values, tag : Tags])
         /\ \A i \in 1..Len(sbus_waiting) : sbus_waiting'[i] = sbus_waiting[i]
         /\ sbus_waiting'[Len(sbus_waiting) + 1].value = v
         /\ sbus_waiting'[Len(sbus_waiting) + 1].tag = t
         /\ Reading' <=> Reading
         /\ ReadSoFar' = ReadSoFar
         /\ sbus_waiting # <<>> => (Begun' <=> Begun)
         /\ sbus_waiting = <<>> => (Begun' <=> Reading \/ v = "header")
<1> DEFINE b == [value |-> v, tag |-> t]
<1>0. b \in [value : Values, tag : Tags] /\ b.value = v /\ b.tag = t
  OBVIOUS
<1> HIDE DEF b
<1>1. /\ sbus_waiting \in Seq([value : Values, tag : Tags])
      /\ Len(sbus_waiting) \in Nat
      /\ sbus_waiting = <<>> <=> Len(sbus_waiting) = 0
  BY WaitingTypes
<1>2. sbus_waiting' = Append(sbus_waiting, b)
  BY DEF b
<1>3. /\ sbus_waiting' # <<>> /\ Len(sbus_waiting') = Len(sbus_waiting) + 1
      /\ sbus_waiting' \in Seq([value : Values, tag : Tags])
      /\ \A i \in 1..Len(sbus_waiting) : sbus_waiting'[i] = sbus_waiting[i]
      /\ sbus_waiting'[Len(sbus_waiting) + 1] = b
  BY <1>0, <1>1, <1>2
<1>4. Reading' <=> Reading
  BY DEF Reading, TimedOut, sbusParser
<1>5. ReadSoFar' = ReadSoFar
  BY <1>4 DEF ReadSoFar, sbusParser
<1>6. ASSUME sbus_waiting # <<>> PROVE Begun' <=> Begun
  <2>1. sbus_waiting'[1] = sbus_waiting[1]
    BY <1>1, <1>3, <1>6
  <2> QED BY <1>3, <1>4, <1>6, <2>1 DEF Begun
<1>7. ASSUME sbus_waiting = <<>> PROVE Begun' <=> Reading \/ v = "header"
  <2>1. sbus_waiting'[1] = b
    BY <1>1, <1>3, <1>7
  <2> QED BY <1>0, <1>3, <1>4, <2>1 DEF Begun
<1> QED BY <1>0, <1>3, <1>4, <1>5, <1>6, <1>7

\* What a byte the parser takes from the queue changes there.
LEMMA Unqueued ==
  ASSUME SbusTypeOK, sbus_waiting # <<>>, sbus_waiting' = Tail(sbus_waiting)
  PROVE  /\ Len(sbus_waiting') = Len(sbus_waiting) - 1
         /\ sbus_waiting' \in Seq([value : Values, tag : Tags])
         /\ \A i \in 1..Len(sbus_waiting') : sbus_waiting'[i] = sbus_waiting[i + 1]
         /\ Head(sbus_waiting) = sbus_waiting[1]
BY WaitingTypes

-----------------------------------------------------------------------------

\* Before a frame that no disturbance precedes, everything was parsed, and the
\* parser waits for the header.
LEMMA Silent ==
  ASSUME SbusTypeOK, SilenceInv, Starting, Due, FrameBefore # "disturbed"
  PROVE  sbus_waiting = <<>> /\ ~Reading
<1>1. sbus_silence = Gap /\ sbus_noise >= Gap
  BY SbusSizes DEF Due, FrameBefore, SbusTypeOK
<1>2. sbus_idle_poll <= MaxPoll /\ sbus_idle_poll \in Nat /\ sbus_age \in Nat
      /\ sbus_noise \in Nat
  BY SbusSizes DEF SbusTypeOK
<1>3. sbus_waiting = <<>>
  BY <1>1, <1>2, SbusSizes DEF SilenceInv
<1>4. ~Reading
  <2> SUFFICES ASSUME Reading PROVE FALSE
    OBVIOUS
  <2>1. sbus_age < Timeout
    BY <1>2, SbusSizes DEF Reading, TimedOut
  <2> QED BY <1>1, <1>2, <2>1, SbusSizes DEF SilenceInv
<1> QED BY <1>3, <1>4

\* What the line says of the next byte, and what it keeps of the frame.
LEMMA NextIndex ==
  ASSUME SbusTypeOK, sbus_next' = (sbus_next + 1) % FrameSize
  PROVE  /\ sbus_next \in Nat /\ sbus_next <= Footer /\ sbus_next' \in 0..Footer
         /\ sbus_next = Footer => sbus_next' = 0
         /\ sbus_next # Footer => sbus_next' = sbus_next + 1 /\ ~Starting'
<1>1. sbus_next \in 0..(FrameSize - 1) /\ FrameSize \in Nat \ {0}
  BY SbusSizes DEF SbusTypeOK
<1>2. (sbus_next + 1) % FrameSize = IF sbus_next + 1 = FrameSize THEN 0 ELSE sbus_next + 1
  BY <1>1, WrapNext
<1> QED BY <1>1, <1>2, SbusSizes DEF Starting

\* The line's part of the types.
LEMMA SendsTypes ==
  ASSUME SbusTypeOK, NEW f \in FrameStates, Sends(f),
         sbus_waiting' \in Seq([value : Values, tag : Tags]),
         Len(sbus_waiting') <= MaxWaiting
  PROVE  SbusTypeOK'
<1>1. sbus_next' \in 0..Footer /\ Footer' = Footer
  BY NextIndex DEF Sends, Footer
<1>2. sbus_silence' \in 0..Gap
  BY SbusSizes DEF Sends
<1> QED BY <1>1, <1>2 DEF SbusTypeOK, Sends, sbusParser

\* A byte sent or lost restarts the silence.
LEMMA SendsSilence ==
  ASSUME SbusTypeOK, SilenceInv, NEW f, Sends(f)
  PROVE  SilenceInv'
<1>1. /\ sbus_silence' = 0 /\ sbus_noise' = sbus_noise /\ sbus_age' = sbus_age
      /\ sbus_idle_poll' = sbus_idle_poll
  BY DEF Sends, sbusParser
<1>2. sbus_idle_poll \in Nat /\ sbus_age \in Nat /\ MaxPoll \in Nat
  BY SbusSizes DEF SbusTypeOK
<1> QED BY <1>1, <1>2 DEF SilenceInv

\* A byte added to the queue leaves the others what they are to the parser.
LEMMA OldBytes ==
  ASSUME SbusTypeOK, WaitingInv, NEW v \in Values, NEW t \in Tags,
         UNCHANGED <<sbusParser, sbus_idle_poll>>,
         sbus_waiting' = Append(sbus_waiting, [value |-> v, tag |-> t]),
         NEW n, n = Len(sbus_waiting) + 1, WaitingByte(n)'
  PROVE  WaitingInv'
<1>1. /\ Len(sbus_waiting) \in Nat /\ Len(sbus_waiting') = n
      /\ ReadSoFar' = ReadSoFar /\ (Reading' <=> Reading)
      /\ \A i \in 1..Len(sbus_waiting) : sbus_waiting'[i] = sbus_waiting[i]
  BY Queued, WaitingTypes
<1>2. ASSUME NEW i \in 1..Len(sbus_waiting)
      PROVE  WaitingByte(i)'
  <2>1. WaitingByte(i) /\ sbus_waiting # <<>>
    BY WaitingTypes DEF WaitingInv
  <2>2. Begun' <=> Begun
    BY <2>1, Queued
  <2>3. Timely' <=> Timely
    BY <1>1 DEF Timely, sbusParser
  <2>4. Place(i)' = Place(i) /\ sbus_waiting'[i] = sbus_waiting[i]
    BY <1>1 DEF Place
  <2>5. /\ sbus_waiting'[i].tag = sbus_waiting[i].tag
        /\ sbus_waiting'[i].value = sbus_waiting[i].value
    BY <2>4
  <2> QED BY <2>1, <2>2, <2>3, <2>4, <2>5 DEF WaitingByte
<1>3. \A i \in 1..n : i \in 1..Len(sbus_waiting) \/ i = n
  BY <1>1
<1> QED BY <1>1, <1>2, <1>3 DEF WaitingInv

\* A byte in or before a disturbed frame is nothing to the parser.
LEMMA DisturbedByte ==
  ASSUME SbusTypeOK, DisturbedInv, WaitingInv, NEW v \in Values,
         UNCHANGED <<sbusParser, sbus_idle_poll>>,
         sbus_waiting' = Append(sbus_waiting, [value |-> v, tag |-> "disturbed"]),
         sbus_frame' = "disturbed"
  PROVE  DisturbedInv' /\ FrameInv' /\ WaitingInv'
<1> PICK n \in Nat : n = Len(sbus_waiting) + 1
  BY WaitingTypes
<1>0. "disturbed" \in Tags
  BY DEF Tags
<1>1. /\ Len(sbus_waiting) \in Nat /\ Len(sbus_waiting') = n
      /\ sbus_waiting'[n].tag = "disturbed"
      /\ \A i \in 1..Len(sbus_waiting) : sbus_waiting'[i] = sbus_waiting[i]
  BY <1>0, Queued, WaitingTypes
<1>2. FrameInv'
  BY DEF FrameInv
<1>3. DisturbedInv'
  <2>1. ASSUME NEW i \in 1..n, NEW j \in 1..n, i <= j,
               sbus_waiting'[j].tag # "disturbed"
        PROVE  sbus_waiting'[i].tag # "disturbed"
    <3>1. j \in 1..Len(sbus_waiting) /\ i \in 1..Len(sbus_waiting)
      BY <1>1, <2>1
    <3> QED BY <1>1, <2>1, <3>1 DEF DisturbedInv
  <2> QED BY <1>1, <2>1 DEF DisturbedInv
<1>4. WaitingByte(n)'
  BY <1>1 DEF WaitingByte
<1> QED BY <1>0, <1>2, <1>3, <1>4, OldBytes

\* A byte of a frame in which nothing was disturbed.
LEMMA OrderedByte ==
  ASSUME SbusTypeOK, WaitingInv, NEW v \in Values, NEW t \in Tags, t # "disturbed",
         UNCHANGED <<sbusParser, sbus_idle_poll>>,
         sbus_waiting' = Append(sbus_waiting, [value |-> v, tag |-> t]),
         \A i \in 1..Len(sbus_waiting) : sbus_waiting[i].tag # "disturbed"
  PROVE  DisturbedInv'
<1>1. /\ Len(sbus_waiting) \in Nat /\ Len(sbus_waiting') = Len(sbus_waiting) + 1
      /\ sbus_waiting'[Len(sbus_waiting) + 1].tag = t
      /\ \A i \in 1..Len(sbus_waiting) : sbus_waiting'[i] = sbus_waiting[i]
  BY Queued, WaitingTypes
<1>2. \A i \in 1..Len(sbus_waiting') : sbus_waiting'[i].tag # "disturbed"
  <2> TAKE i \in 1..Len(sbus_waiting')
  <2>1. i \in 1..Len(sbus_waiting) \/ i = Len(sbus_waiting) + 1
    BY <1>1
  <2> QED BY <1>1, <2>1
<1> QED BY <1>2 DEF DisturbedInv

LEMMA ArriveKept ==
  ASSUME SbusInv, NEW v \in Values, ByteArrives(v)
  PROVE  SbusInv'
<1> DEFINE f == IF Framed(v) THEN FrameBefore ELSE Broken(FrameBefore)
<1> USE DEF SbusInv
<1> PICK n \in Nat : n = Len(sbus_waiting) + 1
  BY WaitingTypes
<1>1. /\ FrameBefore \in FrameStates /\ f \in FrameStates /\ Tag(f) \in Tags
      /\ f = "disturbed" <=> FrameBefore = "disturbed"
      /\ f = "disturbed" <=> Tag(f) = "disturbed"
  <2>1. FrameBefore \in FrameStates
    BY DEF SbusTypeOK, FrameBefore, FrameStates
  <2>2. f \in FrameStates /\ (f = "disturbed" <=> FrameBefore = "disturbed")
    BY <2>1 DEF FrameStates, Broken
  <2> HIDE DEF f
  <2>3. Tag(f) \in Tags /\ (f = "disturbed" <=> Tag(f) = "disturbed")
    BY DEF Tag, Tags
  <2> QED BY <2>1, <2>2, <2>3
<1>2. /\ Due /\ Sends(f) /\ Len(sbus_waiting) < MaxWaiting
      /\ sbus_waiting' = Append(sbus_waiting, [value |-> v, tag |-> Tag(f)])
  BY DEF ByteArrives
<1>3. /\ UNCHANGED <<sbusParser, sbus_idle_poll, sbus_last>> /\ sbus_frame' = f
      /\ sbus_silence' = 0 /\ sbus_next' = (sbus_next + 1) % FrameSize
  BY <1>2 DEF Sends
<1>4. /\ sbus_next \in Nat /\ sbus_next <= Footer /\ sbus_next' \in 0..Footer
      /\ sbus_next = Footer => sbus_next' = 0
      /\ sbus_next # Footer => sbus_next' = sbus_next + 1 /\ ~Starting'
  BY <1>3, NextIndex
<1>f. /\ FrameBefore = "whole" /\ Framed(v) => f = "whole"
      /\ FrameBefore = "whole" /\ ~Framed(v) => f = "broken"
      /\ FrameBefore = "broken" => f = "broken"
  BY DEF Broken
<1> HIDE DEF f
<1>5. /\ Len(sbus_waiting) \in Nat /\ Len(sbus_waiting') = n
      /\ sbus_waiting' # <<>>
      /\ sbus_waiting' \in Seq([value : Values, tag : Tags])
      /\ sbus_waiting'[n].value = v /\ sbus_waiting'[n].tag = Tag(f)
      /\ (Reading' <=> Reading) /\ ReadSoFar' = ReadSoFar
      /\ sbus_waiting # <<>> => (Begun' <=> Begun)
      /\ sbus_waiting = <<>> => (Begun' <=> Reading \/ v = "header")
      /\ ReadSoFar \in Nat /\ (~Reading => ReadSoFar = 0)
      /\ (Timely' <=> Timely)
  <2>1. Reading' <=> Reading
    BY <1>1, <1>2, <1>3, Queued
  <2>2. Timely' <=> Timely
    BY <1>3, <2>1 DEF Timely, sbusParser
  <2> QED BY <1>1, <1>2, <1>3, <2>2, Queued, WaitingTypes
<1>6. SbusTypeOK'
  <2>1. Len(sbus_waiting') <= MaxWaiting
    BY <1>2, <1>5, SbusSizes
  <2> QED BY <1>1, <1>2, <1>5, <2>1, SendsTypes
<1>7. SilenceInv'
  BY <1>2, SendsSilence
<1>8. FramesExact'
  BY <1>3 DEF FramesExact
<1>9. CASE f = "disturbed"
  BY <1>1, <1>2, <1>3, <1>6, <1>7, <1>8, <1>9, DisturbedByte
<1>10. CASE f # "disturbed" /\ Starting
  <2>1. sbus_waiting = <<>> /\ ~Reading
    BY <1>1, <1>2, <1>10, Silent
  <2>2. Len(sbus_waiting) = 0 /\ n = 1 /\ sbus_next # Footer /\ sbus_next' = 1
    BY <1>4, <1>10, <2>1, SbusSizes DEF Starting
  <2>3. Tag(f) = "inside"
    BY <1>10, <2>2 DEF Tag
  <2>4. DisturbedInv'
    BY <1>2, <1>3, <1>1, <2>2, <2>3, OrderedByte
  <2>5. ReadSoFar' = 0 /\ ~Reading' /\ (Begun' <=> v = "header")
    BY <1>5, <2>1
  <2>6. WaitingByte(1)'
    BY <1>5, <2>2, <2>3, <2>5, SbusSizes DEF WaitingByte, Place
  <2>7. WaitingInv'
    BY <1>1, <1>2, <1>3, <2>2, <2>6, OldBytes
  <2>8. f = "whole" => v = "header"
    BY <1>1, <1>10, <1>f DEF Framed, Starting, FrameStates
  <2>9. f = "broken" => v # "header"
    <3>1. FrameBefore = "whole"
      BY <1>1, <1>10 DEF FrameBefore
    <3> QED BY <1>f, <1>10, <2>2, <3>1 DEF Framed, Starting
  <2>10. FrameInv'
    BY <1>3, <1>5, <2>2, <2>5, <2>8, <2>9 DEF FrameInv, Place, Timely
  <2> QED BY <1>6, <1>7, <1>8, <2>4, <2>7, <2>10
<1>11. CASE f # "disturbed" /\ ~Starting
  <2>1. FrameBefore = sbus_frame /\ sbus_frame \in {"whole", "broken"}
    BY <1>1, <1>11 DEF FrameBefore, FrameStates
  <2>2. DisturbedInv'
    BY <1>1, <1>2, <1>3, <1>11, <2>1, OrderedByte DEF DisturbedInv
  <2>3. CASE sbus_frame = "whole"
    <3>1. /\ Begun /\ ReadSoFar + Len(sbus_waiting) = sbus_next /\ Timely
          /\ Reading /\ sbus_waiting = <<>> => sbus_age <= sbus_silence
      BY <1>11, <2>3 DEF FrameInv, Place
    <3>2. Begun' /\ Timely'
      BY <1>5, <3>1 DEF Begun
    <3>3. ReadSoFar' + n = sbus_next + 1
      BY <1>4, <1>5, <3>1
    <3>4. CASE sbus_next # Footer
      <4>1. Tag(f) = "inside" /\ sbus_next + 1 < FrameSize
        BY <1>4, <1>11, <3>4, SbusSizes DEF Tag
      <4>2. WaitingByte(n)'
        BY <1>4, <1>5, <3>3, <4>1, SbusSizes DEF WaitingByte, Place
      <4>3. f = "whole"
        BY <1>f, <1>11, <2>1, <2>3, <3>4 DEF Framed, Starting
      <4>4. FrameInv'
        BY <1>3, <1>4, <1>5, <3>2, <3>3, <3>4, <4>3 DEF FrameInv, Place
      <4>5. WaitingInv'
        BY <1>1, <1>2, <1>3, <4>2, OldBytes
      <4> QED BY <1>6, <1>7, <1>8, <2>2, <4>4, <4>5
    <3>5. CASE sbus_next = Footer
      <4>1. ReadSoFar' + n = FrameSize
        BY <3>3, <3>5, SbusSizes
      <4>2. v = "footer" <=> f = "whole"
        BY <1>f, <1>11, <2>1, <2>3, <3>5 DEF Framed, Starting
      <4>3. Tag(f) = "last" => v = "footer"
        BY <4>2 DEF Tag
      <4>4. Tag(f) = "inside" => v # "footer"
        BY <3>5, <4>2 DEF Tag
      <4>5. Place(n)' = FrameSize
        BY <4>1 DEF Place
      <4>6. WaitingByte(n)'
        BY <1>5, <3>2, <4>3, <4>4, <4>5, SbusSizes DEF WaitingByte
      <4>7. FrameInv'
        BY <1>4, <3>5 DEF FrameInv, Starting
      <4>8. WaitingInv'
        BY <1>1, <1>2, <1>3, <4>6, OldBytes
      <4> QED BY <1>6, <1>7, <1>8, <2>2, <4>7, <4>8
    <3> QED BY <3>4, <3>5
  <2>4. CASE sbus_frame = "broken"
    <3>1. \/ ReadSoFar + Len(sbus_waiting) < sbus_next
          \/ ReadSoFar + Len(sbus_waiting) = sbus_next /\ ~Begun
      BY <1>11, <2>4 DEF FrameInv, Place
    <3>2. f = "broken" /\ Tag(f) = "inside"
      BY <1>f, <2>1, <2>4 DEF Tag
    <3>3. sbus_next > 0
      BY <1>4, <1>11 DEF Starting
    <3>4. \/ ReadSoFar' + n < sbus_next + 1
          \/ ReadSoFar' + n = sbus_next + 1 /\ ~Begun'
      <4>1. CASE ReadSoFar + Len(sbus_waiting) < sbus_next
        BY <1>4, <1>5, <4>1
      <4>2. CASE ReadSoFar + Len(sbus_waiting) = sbus_next /\ ~Begun
        <5>1. sbus_waiting # <<>>
          BY <1>5, <3>3, <4>2, WaitingTypes DEF Begun
        <5> QED BY <1>4, <1>5, <4>2, <5>1
      <4> QED BY <3>1, <4>1, <4>2
    <3>5. Place(n)' <= FrameSize /\ (Place(n)' = FrameSize => ~Begun')
      BY <1>4, <1>5, <3>4, SbusSizes DEF Place
    <3>6. WaitingByte(n)'
      BY <1>5, <3>2, <3>5 DEF WaitingByte
    <3>7. WaitingInv'
      BY <1>1, <1>2, <1>3, <3>6, OldBytes
    <3>8. FrameInv'
      BY <1>3, <1>4, <1>5, <3>2, <3>4 DEF FrameInv, Place, Starting
    <3> QED BY <1>6, <1>7, <1>8, <2>2, <3>7, <3>8
  <2> QED BY <2>1, <2>3, <2>4
<1> QED BY <1>9, <1>10, <1>11

\* While neither the parser nor the queue changes, what waits stays what it is
\* to the parser.
LEMMA Unmoved ==
  ASSUME UNCHANGED <<sbusParser, sbus_waiting>>
  PROVE  /\ ReadSoFar' = ReadSoFar /\ (Reading' <=> Reading) /\ (Begun' <=> Begun)
<1>1. Reading' <=> Reading
  BY DEF Reading, TimedOut, sbusParser
<1> QED BY <1>1 DEF ReadSoFar, Begun, sbusParser

LEMMA UnmovedBytes ==
  ASSUME WaitingInv, UNCHANGED <<sbusParser, sbus_waiting>>,
         sbus_idle_poll' = sbus_idle_poll
  PROVE  WaitingInv' /\ (Timely' <=> Timely)
<1>1. ReadSoFar' = ReadSoFar /\ (Reading' <=> Reading) /\ (Begun' <=> Begun)
  BY Unmoved
<1>2. Timely' <=> Timely
  BY <1>1 DEF Timely, sbusParser
<1>3. ASSUME NEW i \in 1..Len(sbus_waiting) PROVE WaitingByte(i)'
  <2>1. WaitingByte(i)
    BY DEF WaitingInv
  <2>2. Place(i)' = Place(i)
    BY <1>1 DEF Place
  <2> QED BY <1>1, <1>2, <2>1, <2>2 DEF WaitingByte
<1> QED BY <1>2, <1>3 DEF WaitingInv

LEMMA LostKept ==
  ASSUME SbusInv, Lost
  PROVE  SbusInv'
<1> DEFINE f == Broken(FrameBefore)
<1> USE DEF SbusInv
<1>1. /\ FrameBefore \in FrameStates /\ f \in FrameStates
      /\ f # "whole" /\ (f = "broken" => FrameBefore # "disturbed")
  BY DEF SbusTypeOK, FrameBefore, FrameStates, Broken
<1>2. Due /\ Sends(f) /\ sbus_waiting' = sbus_waiting
  BY DEF Lost
<1> HIDE DEF f
<1>3. /\ UNCHANGED <<sbusParser, sbus_idle_poll, sbus_last>> /\ sbus_frame' = f
      /\ sbus_next' = (sbus_next + 1) % FrameSize
  BY <1>2 DEF Sends
<1>4. /\ sbus_next \in Nat /\ sbus_next <= Footer
      /\ sbus_next = Footer => sbus_next' = 0
      /\ sbus_next # Footer => sbus_next' = sbus_next + 1
  BY <1>3, NextIndex
<1>5. SbusTypeOK' /\ SilenceInv'
  <2>1. SilenceInv'
    BY <1>2, SendsSilence
  <2>2. sbus_waiting' \in Seq([value : Values, tag : Tags])
        /\ Len(sbus_waiting') <= MaxWaiting
    BY <1>2 DEF SbusTypeOK
  <2> QED BY <1>1, <1>2, <2>1, <2>2, SendsTypes
<1>6. WaitingInv'
  BY <1>2, <1>3, UnmovedBytes
<1>7. FramesExact'
  BY <1>3 DEF FramesExact
<1>8. f = "broken" /\ Starting => sbus_waiting = <<>> /\ ~Reading
  BY <1>1, <1>2, Silent
<1>9. f = "broken" /\ ~Starting => sbus_frame \in {"whole", "broken"}
  BY <1>1 DEF FrameBefore, FrameStates
<1>10. DisturbedInv'
  <2>1. ASSUME f # "disturbed", NEW i \in 1..Len(sbus_waiting)
        PROVE  sbus_waiting[i].tag # "disturbed"
    <3>1. f = "broken"
      BY <1>1, <2>1 DEF FrameStates
    <3>2. ~Starting
      BY <1>8, <3>1
    <3> QED BY <1>9, <3>1, <3>2 DEF DisturbedInv
  <2> QED BY <1>2, <1>3, <2>1 DEF DisturbedInv
<1>11. FrameInv'
  <2>1. ASSUME f = "broken", ~Starting'
        PROVE  Place(Len(sbus_waiting))' < sbus_next'
    <3>0. /\ ReadSoFar' = ReadSoFar /\ ReadSoFar \in Nat /\ Len(sbus_waiting) \in Nat
          /\ (~Reading => ReadSoFar = 0) /\ sbus_next' = sbus_next + 1
      BY <1>2, <1>3, <1>4, <2>1, Unmoved, WaitingTypes DEF Starting
    <3>1. CASE Starting
      <4>1. ReadSoFar = 0 /\ Len(sbus_waiting) = 0
        BY <1>8, <2>1, <3>0, <3>1
      <4>2. ReadSoFar' + Len(sbus_waiting') < sbus_next'
        BY <1>2, <1>4, <3>0, <4>1
      <4> QED BY <1>2, <4>2 DEF Place
    <3>2. CASE ~Starting
      <4>1. ReadSoFar + Len(sbus_waiting) <= sbus_next
        BY <1>4, <1>9, <2>1, <3>0, <3>2 DEF FrameInv, Place
      <4>2. ReadSoFar' + Len(sbus_waiting') < sbus_next'
        BY <1>2, <1>4, <3>0, <4>1
      <4> QED BY <1>2, <4>2 DEF Place
    <3> QED BY <3>1, <3>2
  <2> QED BY <1>1, <1>2, <1>3, <2>1 DEF FrameInv
<1> QED BY <1>5, <1>6, <1>7, <1>10, <1>11

LEMMA SpuriousKept ==
  ASSUME SbusInv, NEW v \in Values, Spurious(v)
  PROVE  SbusInv'
<1> USE DEF SbusInv
<1>0. /\ "disturbed" \in Tags /\ "disturbed" \in FrameStates
  BY DEF Tags, FrameStates
<1>1. /\ UNCHANGED <<sbusParser, sbus_idle_poll, sbus_polling, sbus_next,
                     sbus_silence, sbus_last>>
      /\ sbus_waiting' = Append(sbus_waiting, [value |-> v, tag |-> "disturbed"])
      /\ sbus_frame' = "disturbed" /\ sbus_noise' = 0
      /\ Len(sbus_waiting) < MaxWaiting
  BY DEF Spurious
<1>2. /\ sbus_waiting' \in Seq([value : Values, tag : Tags])
      /\ Len(sbus_waiting') = Len(sbus_waiting) + 1 /\ (Reading' <=> Reading)
      /\ Len(sbus_waiting) \in Nat
  BY <1>0, <1>1, Queued, WaitingTypes
<1>3. DisturbedInv' /\ FrameInv' /\ WaitingInv'
  BY <1>1, DisturbedByte
<1>4. SbusTypeOK'
  <2>1. Len(sbus_waiting') <= MaxWaiting /\ 0 \in 0..Gap
    BY <1>1, <1>2, SbusSizes
  <2>2. Footer' = Footer
    BY DEF Footer
  <2> QED BY <1>0, <1>1, <1>2, <2>1, <2>2 DEF SbusTypeOK, sbusParser
<1>5. SilenceInv'
  <2>1. sbus_idle_poll \in Nat /\ sbus_age \in Nat /\ MaxPoll \in Nat
    BY SbusSizes DEF SbusTypeOK
  <2>2. ~Starting' => sbus_silence' <= 1
    BY <1>1 DEF SilenceInv, Starting
  <2> QED BY <1>1, <1>2, <2>1, <2>2 DEF SilenceInv, sbusParser
<1>6. FramesExact'
  BY <1>1 DEF FramesExact
<1> QED BY <1>3, <1>4, <1>5, <1>6

LEMMA BeginPollKept ==
  ASSUME SbusInv, BeginPoll
  PROVE  SbusInv'
<1> USE DEF SbusInv
<1>1. /\ UNCHANGED <<sbusParser, sbus_idle_poll, sbus_waiting, sbus_next,
                     sbus_silence, sbus_frame, sbus_noise, sbus_last>>
      /\ sbus_polling' \in BOOLEAN
  BY DEF BeginPoll, sbusLine
<1>2. ReadSoFar' = ReadSoFar /\ (Reading' <=> Reading) /\ (Begun' <=> Begun)
  BY <1>1, Unmoved
<1>3. WaitingInv' /\ (Timely' <=> Timely)
  BY <1>1, UnmovedBytes
<1>4. SbusTypeOK'
  BY <1>1 DEF SbusTypeOK, sbusParser, Footer
<1>5. SilenceInv' /\ DisturbedInv' /\ FramesExact'
  BY <1>1, <1>2 DEF SilenceInv, DisturbedInv, FramesExact, Starting, sbusParser
<1>6. FrameInv'
  <2>1. Place(Len(sbus_waiting))' = Place(Len(sbus_waiting))
    BY <1>1, <1>2 DEF Place
  <2> QED BY <1>1, <1>2, <1>3, <2>1 DEF FrameInv, Starting, sbusParser
<1> QED BY <1>3, <1>4, <1>5, <1>6

LEMMA EndPollKept ==
  ASSUME SbusInv, EndPoll
  PROVE  SbusInv'
<1> USE DEF SbusInv
<1>1. /\ UNCHANGED <<sbusParser, sbus_waiting, sbus_next, sbus_silence,
                     sbus_frame, sbus_noise, sbus_last>>
      /\ sbus_polling' = FALSE /\ sbus_idle_poll' = 0 /\ sbus_waiting = <<>>
  BY DEF EndPoll, sbusLine
<1>2. ReadSoFar' = ReadSoFar /\ (Reading' <=> Reading) /\ (Begun' <=> Begun)
  BY <1>1, Unmoved
<1>3. Len(sbus_waiting) = 0
  BY <1>1, WaitingTypes
<1>4. SbusTypeOK'
  <2>1. 0 \in 0..MaxPoll /\ Footer' = Footer
    BY SbusSizes DEF Footer
  <2> QED BY <1>1, <2>1 DEF SbusTypeOK, sbusParser
<1>5. SilenceInv' /\ DisturbedInv' /\ FramesExact'
  BY <1>1, <1>2 DEF SilenceInv, DisturbedInv, FramesExact, Starting, sbusParser
<1>6. WaitingInv'
  BY <1>1, <1>3 DEF WaitingInv
<1>7. FrameInv'
  <2>1. Place(Len(sbus_waiting))' = Place(Len(sbus_waiting))
    BY <1>1, <1>2 DEF Place
  <2>2. ASSUME ~Starting, sbus_frame = "whole" PROVE Timely'
    <3>1. Reading => sbus_age <= sbus_silence /\ sbus_silence <= 1
      BY <1>1, <2>2 DEF FrameInv, SilenceInv
    <3>2. sbus_age \in Nat /\ sbus_silence \in Nat
      BY SbusSizes DEF SbusTypeOK
    <3>3. Reading => sbus_age <= 0 + 1
      BY <3>1, <3>2
    <3> QED BY <1>1, <1>2, <3>3 DEF Timely, sbusParser
  <2>3. ASSUME ~Starting', sbus_frame' = "whole"
        PROVE  /\ Begun' /\ Place(Len(sbus_waiting))' = sbus_next'
               /\ Timely'
               /\ Reading' => sbus_age' <= sbus_silence'
    BY <1>1, <1>2, <2>1, <2>2, <2>3 DEF FrameInv, Starting, sbusParser
  <2>4. ASSUME ~Starting', sbus_frame' = "broken"
        PROVE  \/ Place(Len(sbus_waiting))' < sbus_next'
               \/ Place(Len(sbus_waiting))' = sbus_next' /\ ~Begun'
    BY <1>1, <1>2, <2>1, <2>4 DEF FrameInv, Starting
  <2> QED BY <2>3, <2>4 DEF FrameInv
<1> QED BY <1>4, <1>5, <1>6, <1>7

LEMMA Moved ==
  ASSUME NEW a \in Nat, NEW b \in Nat, NEW i \in Nat, b <= a
  PROVE  /\ a + i \in Nat /\ b + i \in Nat /\ b + i <= a + i
         /\ b < a => b + i < a + i
OBVIOUS

LEMMA SbusTickKept ==
  ASSUME SbusInv, SbusTick
  PROVE  SbusInv'
<1> USE DEF SbusInv
<1>1. /\ UNCHANGED <<sbus_state, sbus_pos, sbus_polling, sbus_waiting, sbus_next,
                     sbus_frame, sbus_last>>
      /\ sbus_idle_poll < MaxPoll /\ sbus_idle_poll' = sbus_idle_poll + 1
      /\ sbus_age' = IF sbus_state = "READ_FRAME" THEN Saturated(sbus_age, Timeout)
                     ELSE sbus_age
      /\ sbus_silence' = Saturated(sbus_silence, Gap)
      /\ sbus_noise' = Saturated(sbus_noise, Gap)
      /\ Starting \/ sbus_silence = 0
  BY DEF SbusTick
<1>2. /\ sbus_idle_poll \in Nat /\ sbus_age \in 0..Timeout
      /\ sbus_silence \in 0..Gap /\ sbus_noise \in 0..Gap
  BY SbusSizes DEF SbusTypeOK
<1>3. /\ Reading' => Reading /\ sbus_age' = sbus_age + 1
      /\ ~Reading => ~Reading'
      /\ Reading /\ sbus_age + 1 < Timeout => Reading'
  BY <1>1, <1>2, SbusSizes DEF Reading, TimedOut, Saturated
<1>4. /\ sbus_silence' \in 0..Gap /\ sbus_silence' <= sbus_silence + 1
      /\ sbus_silence = 0 => sbus_silence' = 1
      /\ sbus_noise' \in 0..Gap /\ sbus_noise' <= sbus_noise + 1
  BY <1>1, <1>2, SbusSizes DEF Saturated
<1>5. /\ ReadSoFar \in Nat /\ ReadSoFar' \in Nat /\ ReadSoFar' <= ReadSoFar
      /\ Reading' => ReadSoFar' = ReadSoFar
      /\ Reading /\ ~Reading' => ReadSoFar' < ReadSoFar
      /\ ~Reading => ReadSoFar' = ReadSoFar
  BY <1>1, <1>3, WaitingTypes DEF ReadSoFar
<1>6. Timely /\ Reading => Reading'
  <2> SUFFICES ASSUME Timely, Reading PROVE sbus_age + 1 < Timeout
    BY <1>3
  <2> QED BY <1>1, <1>2, SbusSizes DEF Timely
<1>7. Timely => Timely'
  <2> SUFFICES ASSUME Timely, Reading' PROVE sbus_age' <= sbus_idle_poll' + 1
    BY DEF Timely
  <2> QED BY <1>1, <1>2, <1>3 DEF Timely
<1>8. /\ Reading \/ ~Begun => (Begun' => Begun)
      /\ (Reading => Reading') => (Begun' <=> Begun)
  BY <1>1, <1>3 DEF Begun
<1>9. SbusTypeOK'
  <2>1. sbus_age' \in 0..Timeout /\ sbus_idle_poll' \in 0..MaxPoll
    BY <1>1, <1>2, SbusSizes DEF Saturated
  <2> QED BY <1>1, <1>4, <2>1 DEF SbusTypeOK, Footer
<1>10. SilenceInv'
  <2>1. ~Starting' => sbus_silence' <= 1
    BY <1>1, <1>4 DEF Starting
  <2>2. ASSUME sbus_waiting' # <<>>
        PROVE  sbus_silence' <= sbus_idle_poll' \/ sbus_noise' <= sbus_idle_poll'
    BY <1>1, <1>2, <1>4, <2>2 DEF SilenceInv
  <2>3. ASSUME Reading'
        PROVE  sbus_silence' <= sbus_age' + MaxPoll \/ sbus_noise' <= sbus_age' + MaxPoll
    BY <1>2, <1>3, <1>4, <2>3, SbusSizes DEF SilenceInv
  <2> QED BY <2>1, <2>2, <2>3 DEF SilenceInv
<1>11. DisturbedInv' /\ FramesExact'
  BY <1>1 DEF DisturbedInv, FramesExact, Starting
<1>12. ASSUME NEW i \in 1..Len(sbus_waiting) PROVE WaitingByte(i)'
  <2>0. i \in Nat
    BY WaitingTypes
  <2>1. WaitingByte(i)
    BY DEF WaitingInv
  <2>2. /\ Place(i) \in Nat /\ Place(i)' \in Nat /\ Place(i)' <= Place(i)
        /\ Reading /\ ~Reading' => Place(i)' < Place(i)
        /\ (Reading => Reading') => Place(i)' = Place(i)
    <3>1. Place(i) = ReadSoFar + i /\ Place(i)' = ReadSoFar' + i
      BY DEF Place
    <3>2. Place(i) \in Nat /\ Place(i)' \in Nat /\ Place(i)' <= Place(i)
      <4>1. ReadSoFar \in Nat /\ ReadSoFar' \in Nat /\ ReadSoFar' <= ReadSoFar
        BY <1>5
      <4>2. ReadSoFar + i \in Nat /\ ReadSoFar' + i \in Nat /\ ReadSoFar' + i <= ReadSoFar + i
        BY <2>0, <4>1, Moved
      <4> QED BY <3>1, <4>2
    <3>3. ASSUME Reading, ~Reading' PROVE Place(i)' < Place(i)
      <4>1. ReadSoFar \in Nat /\ ReadSoFar' \in Nat /\ ReadSoFar' <= ReadSoFar /\ ReadSoFar' < ReadSoFar
        BY <1>5, <3>3
      <4>2. ReadSoFar' + i < ReadSoFar + i
        BY <2>0, <4>1, Moved
      <4> QED BY <3>1, <4>2
    <3>4. ASSUME Reading => Reading' PROVE Place(i)' = Place(i)
      BY <1>5, <3>1, <3>4
    <3> QED BY <3>2, <3>3, <3>4
  <2>3. sbus_waiting' = sbus_waiting /\ FrameSize \in Nat
    BY <1>1, SbusSizes
  <2>4. sbus_waiting[i].tag # "disturbed" => Place(i)' <= FrameSize
    BY <2>1, <2>2, <2>3 DEF WaitingByte
  <2>5. ASSUME sbus_waiting[i].tag = "last"
        PROVE  /\ Place(i)' = FrameSize /\ sbus_waiting[i].value = "footer"
               /\ Begun' /\ Timely'
    <3>1. Place(i) = FrameSize /\ sbus_waiting[i].value = "footer" /\ Begun /\ Timely
      BY <2>1, <2>5 DEF WaitingByte
    <3> QED BY <1>6, <1>7, <1>8, <2>2, <3>1
  <2>6. ASSUME sbus_waiting[i].tag = "inside", Place(i)' = FrameSize
        PROVE  ~Begun' \/ sbus_waiting[i].value # "footer"
    <3>1. Place(i) <= FrameSize
      BY <2>1, <2>6 DEF WaitingByte
    <3>2. Reading => Reading'
      BY <2>2, <2>3, <2>6, <3>1
    <3>3. Place(i) = FrameSize /\ (Begun' <=> Begun)
      BY <1>8, <2>2, <2>6, <3>2
    <3> QED BY <2>1, <2>6, <3>3 DEF WaitingByte
  <2> QED BY <2>3, <2>4, <2>5, <2>6 DEF WaitingByte
<1>13. WaitingInv'
  BY <1>1, <1>12 DEF WaitingInv
<1>14. ASSUME ~Starting', sbus_frame' = "whole"
       PROVE  /\ Begun' /\ Place(Len(sbus_waiting))' = sbus_next'
              /\ Timely'
              /\ Reading' /\ sbus_waiting' = <<>> => sbus_age' <= sbus_silence'
  <2>1. /\ Begun /\ ReadSoFar + Len(sbus_waiting) = sbus_next /\ Timely
        /\ Reading /\ sbus_waiting = <<>> => sbus_age <= sbus_silence
        /\ sbus_silence = 0
    BY <1>1, <1>14 DEF FrameInv, Starting, Place
  <2>2. Reading' <=> Reading
    BY <1>3, <1>6, <2>1
  <2>3. ReadSoFar' = ReadSoFar /\ Begun' /\ Timely'
    BY <1>5, <1>7, <1>8, <2>1, <2>2
  <2>4. Reading' /\ sbus_waiting' = <<>> => sbus_age' <= sbus_silence'
    BY <1>1, <1>2, <1>3, <1>4, <2>1
  <2> QED BY <1>1, <2>1, <2>3, <2>4 DEF Place
<1>15. ASSUME ~Starting', sbus_frame' = "broken"
       PROVE  \/ Place(Len(sbus_waiting))' < sbus_next'
              \/ Place(Len(sbus_waiting))' = sbus_next' /\ ~Begun'
  <2>1. \/ ReadSoFar + Len(sbus_waiting) < sbus_next
        \/ ReadSoFar + Len(sbus_waiting) = sbus_next /\ ~Begun
    BY <1>1, <1>15 DEF FrameInv, Starting, Place
  <2>2. sbus_next \in Nat /\ Len(sbus_waiting) \in Nat
    BY WaitingTypes, SbusSizes DEF SbusTypeOK
  <2>3. \/ ReadSoFar' + Len(sbus_waiting) < sbus_next
        \/ ReadSoFar' + Len(sbus_waiting) = sbus_next /\ ~Begun'
    <3>1. CASE ReadSoFar + Len(sbus_waiting) < sbus_next
      BY <1>5, <2>2, <3>1
    <3>2. CASE ReadSoFar + Len(sbus_waiting) = sbus_next /\ ~Begun
      <4>1. ~Reading /\ ~Begun'
        BY <1>8, <3>2 DEF Begun
      <4> QED BY <1>5, <3>2, <4>1
    <3> QED BY <2>1, <3>1, <3>2
  <2> QED BY <1>1, <2>3 DEF Place
<1>16. FrameInv'
  BY <1>14, <1>15 DEF FrameInv
<1> QED BY <1>9, <1>10, <1>11, <1>13, <1>16

\* What a byte does to the parser, and what is returned for it.
LEMMA ParsedByte ==
  ASSUME SbusTypeOK, SbusProcessByte
  PROVE  /\ sbus_age' = 0 /\ sbus_last'.tag = sbus_waiting[1].tag
         /\ Timely' /\ SbusTypeOK'
         /\ Reading /\ ReadSoFar + 1 < FrameSize =>
              Reading' /\ ReadSoFar' = ReadSoFar + 1 /\ sbus_last'.result = "CONTINUE"
         /\ Reading /\ ReadSoFar + 1 = FrameSize =>
              (sbus_last'.result = "FRAME_READY" <=> sbus_waiting[1].value = "footer")
         /\ ~Reading => sbus_last'.result = "CONTINUE"
         /\ ~Reading /\ sbus_waiting[1].value = "header" => Reading' /\ ReadSoFar' = 1
         /\ ~Reading /\ sbus_waiting[1].value # "header" => ~Reading' /\ ReadSoFar' = 0
<1> DEFINE b == sbus_waiting[1]
<1>1. /\ sbus_waiting # <<>> /\ sbus_waiting' = Tail(sbus_waiting)
      /\ UNCHANGED <<sbus_polling, sbus_idle_poll, sbusLine>>
      /\ Head(sbus_waiting) = b
      /\ sbus_waiting' \in Seq([value : Values, tag : Tags])
      /\ Len(sbus_waiting') = Len(sbus_waiting) - 1
  BY Unqueued DEF SbusProcessByte
<1>2. \/ WaitHeader(b.value) /\ Returns(b, "CONTINUE")
      \/ ReadByte /\ Returns(b, "CONTINUE")
      \/ Malformed(b.value) /\ Returns(b, "ERROR")
      \/ FrameReady(b.value) /\ Returns(b, "FRAME_READY")
  BY <1>1 DEF SbusProcessByte
<1>3. /\ sbus_idle_poll \in Nat /\ Timeout > 0 /\ Timeout \in Nat /\ FrameSize \in Nat
      /\ Footer = FrameSize - 1 /\ Footer >= 1 /\ 0 \in 0..Timeout /\ 0 \in 0..Footer
      /\ 1 \in 0..Footer /\ Footer' = Footer
  BY SbusSizes DEF SbusTypeOK, Footer
<1>4. /\ ReadSoFar \in Nat /\ ReadSoFar <= Footer /\ (Reading => ReadSoFar = sbus_pos)
      /\ sbus_pos \in 0..Footer
  BY WaitingTypes DEF SbusTypeOK
<1> HIDE DEF b
<1>5. sbus_age' = 0 /\ sbus_last'.tag = b.tag
  BY <1>2 DEF WaitHeader, ReadByte, Malformed, FrameReady, StartFrame, SbusReset, Returns
<1>6. Reading' <=> sbus_state' = "READ_FRAME"
  BY <1>3, <1>5 DEF Reading, TimedOut
<1>7. ASSUME StartFrame PROVE Reading' /\ ReadSoFar' = 1 /\ sbus_pos' = 1
  BY <1>6, <1>7 DEF StartFrame, ReadSoFar
<1>8. ASSUME SbusReset PROVE ~Reading' /\ ReadSoFar' = 0 /\ sbus_pos' = 0
  BY <1>6, <1>8 DEF SbusReset, ReadSoFar
<1>9. ASSUME ReadByte
      PROVE  Reading' /\ ReadSoFar' = ReadSoFar + 1 /\ sbus_pos' = ReadSoFar + 1 /\ ReadSoFar + 1 < FrameSize
  BY <1>4, <1>6, <1>9 DEF ReadByte, ReadSoFar, Reading
<1>10. Timely'
  BY <1>1, <1>3, <1>5 DEF Timely
<1>11. SbusTypeOK'
  <2>1. StartFrame \/ SbusReset \/ ReadByte
    BY <1>2 DEF WaitHeader, Malformed, FrameReady
  <2>2. CASE StartFrame
    <3>1. sbus_state' = "READ_FRAME" /\ sbus_pos' = 1 /\ sbus_pos' \in 0..Footer
      BY <1>3, <2>2 DEF StartFrame
    <3>2. Len(sbus_waiting') <= MaxWaiting
      BY <1>1, WaitingTypes, SbusSizes DEF SbusTypeOK
    <3> QED BY <1>1, <1>3, <1>5, <3>1, <3>2 DEF SbusTypeOK, sbusLine
  <2>3. CASE SbusReset
    <3>1. sbus_state' = "WAIT_HEADER" /\ sbus_pos' = 0 /\ sbus_pos' \in 0..Footer
      BY <1>3, <2>3 DEF SbusReset
    <3>2. Len(sbus_waiting') <= MaxWaiting
      BY <1>1, WaitingTypes, SbusSizes DEF SbusTypeOK
    <3> QED BY <1>1, <1>3, <1>5, <3>1, <3>2 DEF SbusTypeOK, sbusLine
  <2>4. CASE ReadByte
    <3>1. sbus_state' = "READ_FRAME" /\ sbus_pos' > 0 /\ sbus_pos' \in 0..Footer
      BY <1>3, <1>4, <1>6, <1>9, <2>4
    <3>2. Len(sbus_waiting') <= MaxWaiting
      BY <1>1, WaitingTypes, SbusSizes DEF SbusTypeOK
    <3> QED BY <1>1, <1>3, <1>5, <3>1, <3>2 DEF SbusTypeOK, sbusLine
  <2> QED BY <2>1, <2>2, <2>3, <2>4
<1>12. ASSUME Reading, ReadSoFar + 1 < FrameSize
       PROVE  Reading' /\ ReadSoFar' = ReadSoFar + 1 /\ sbus_last'.result = "CONTINUE"
  <2>1. ~FrameEnds
    BY <1>3, <1>4, <1>12 DEF FrameEnds
  <2>2. ReadByte /\ Returns(b, "CONTINUE")
    BY <1>2, <1>12, <2>1 DEF WaitHeader, Malformed, FrameReady
  <2> QED BY <1>9, <2>2 DEF Returns
<1>13. ASSUME Reading, ReadSoFar + 1 = FrameSize
       PROVE  sbus_last'.result = "FRAME_READY" <=> b.value = "footer"
  <2>1. ~ReadByte
    BY <1>3, <1>4, <1>13 DEF ReadByte
  <2>2. \/ Malformed(b.value) /\ Returns(b, "ERROR")
        \/ FrameReady(b.value) /\ Returns(b, "FRAME_READY")
    BY <1>2, <1>13, <2>1 DEF WaitHeader
  <2> QED BY <2>2 DEF Malformed, FrameReady, Returns
<1>14. ASSUME ~Reading
       PROVE  /\ sbus_last'.result = "CONTINUE"
              /\ b.value = "header" => Reading' /\ ReadSoFar' = 1
              /\ b.value # "header" => ~Reading' /\ ReadSoFar' = 0
  <2>1. WaitHeader(b.value) /\ Returns(b, "CONTINUE")
    BY <1>2, <1>14 DEF ReadByte, Malformed, FrameReady, FrameEnds
  <2> QED BY <1>7, <1>8, <2>1 DEF WaitHeader, Returns
<1> QED BY <1>5, <1>10, <1>11, <1>12, <1>13, <1>14 DEF b

LEMMA ProcessKept ==
  ASSUME SbusInv, SbusProcessByte
  PROVE  SbusInv'
<1> USE DEF SbusInv
<1> DEFINE h == sbus_waiting[1].value = "header"
<1>1. /\ sbus_waiting # <<>> /\ sbus_waiting' = Tail(sbus_waiting)
      /\ UNCHANGED <<sbus_idle_poll, sbus_next, sbus_silence, sbus_frame, sbus_noise>>
  BY DEF SbusProcessByte, sbusLine
<1>2. /\ Len(sbus_waiting) \in Nat /\ Len(sbus_waiting) >= 1
      /\ Len(sbus_waiting') = Len(sbus_waiting) - 1
      /\ \A i \in 1..Len(sbus_waiting') : sbus_waiting'[i] = sbus_waiting[i + 1]
      /\ ReadSoFar \in Nat /\ (~Reading => ReadSoFar = 0)
      /\ sbus_waiting[1].tag \in Tags
  BY <1>1, Unqueued, WaitingTypes
<1>3. /\ sbus_age' = 0 /\ sbus_last'.tag = sbus_waiting[1].tag
      /\ Timely' /\ SbusTypeOK'
      /\ Reading /\ ReadSoFar + 1 < FrameSize =>
           Reading' /\ ReadSoFar' = ReadSoFar + 1 /\ sbus_last'.result = "CONTINUE"
      /\ Reading /\ ReadSoFar + 1 = FrameSize =>
           (sbus_last'.result = "FRAME_READY" <=> sbus_waiting[1].value = "footer")
      /\ ~Reading => sbus_last'.result = "CONTINUE"
      /\ ~Reading /\ h => Reading' /\ ReadSoFar' = 1
      /\ ~Reading /\ ~h => ~Reading' /\ ReadSoFar' = 0
  BY ParsedByte
<1>4. Begun <=> Reading \/ h
  BY <1>1 DEF Begun
<1>5. /\ FrameSize \in Nat /\ FrameSize >= 3 /\ MaxPoll \in Nat
      /\ sbus_idle_poll \in Nat /\ sbus_idle_poll <= MaxPoll
      /\ sbus_silence \in Nat /\ sbus_noise \in Nat
      /\ sbus_next \in Nat /\ sbus_next < FrameSize
  BY SbusSizes DEF SbusTypeOK
<1> HIDE DEF h
<1>6. SilenceInv'
  BY <1>1, <1>3, <1>5 DEF SilenceInv, Starting
<1>7. DisturbedInv'
  <2>1. \A i \in 1..Len(sbus_waiting') : i + 1 \in 1..Len(sbus_waiting)
    BY <1>2
  <2>2. ASSUME NEW i \in 1..Len(sbus_waiting'), NEW j \in 1..Len(sbus_waiting'),
               i <= j, sbus_waiting'[j].tag # "disturbed"
        PROVE  sbus_waiting'[i].tag # "disturbed"
    <3>1. i + 1 <= j + 1 /\ sbus_waiting[j + 1].tag # "disturbed"
      BY <1>2, <2>2
    <3>2. sbus_waiting[i + 1].tag # "disturbed"
      BY <2>1, <3>1 DEF DisturbedInv
    <3> QED BY <1>2, <3>2
  <2>3. ASSUME ~Starting', sbus_frame' # "disturbed", NEW i \in 1..Len(sbus_waiting')
        PROVE  sbus_waiting'[i].tag # "disturbed"
    <3>1. sbus_waiting[i + 1].tag # "disturbed"
      BY <1>1, <2>1, <2>3 DEF DisturbedInv, Starting
    <3> QED BY <1>2, <3>1
  <2> QED BY <2>2, <2>3 DEF DisturbedInv
\* The byte moves those after it one place on, if it counts.
<1>8. ASSUME Begun, ReadSoFar + 1 < FrameSize
      PROVE  Begun' /\ ReadSoFar' = ReadSoFar + 1
  BY <1>2, <1>3, <1>4, <1>8 DEF Begun
<1>9. ASSUME ~Begun PROVE ReadSoFar' = 0 /\ ~Reading' /\ ReadSoFar = 0
  BY <1>2, <1>3, <1>4, <1>9
<1>10. ASSUME NEW i \in 1..Len(sbus_waiting') PROVE WaitingByte(i)'
  <2>1. /\ i \in Nat /\ i >= 1 /\ i + 1 \in 1..Len(sbus_waiting)
        /\ sbus_waiting'[i] = sbus_waiting[i + 1]
        /\ sbus_waiting[i + 1].tag \in Tags
    BY <1>2, WaitingTypes
  <2>2. WaitingByte(i + 1)
    BY <2>1 DEF WaitingInv
  <2>3. CASE sbus_waiting[i + 1].tag = "disturbed"
    BY <2>1, <2>3 DEF WaitingByte
  <2>4. CASE sbus_waiting[i + 1].tag # "disturbed" /\ Begun
    <3>1. ReadSoFar + (i + 1) <= FrameSize
      BY <2>2, <2>4 DEF WaitingByte, Place
    <3>2. Begun' /\ ReadSoFar' = ReadSoFar + 1
      BY <1>2, <1>5, <1>8, <2>1, <2>4, <3>1
    <3>3. Place(i)' = Place(i + 1)
      BY <1>2, <2>1, <3>2 DEF Place
    <3> QED BY <1>3, <2>1, <2>2, <2>4, <3>2, <3>3 DEF WaitingByte
  <2>5. CASE sbus_waiting[i + 1].tag # "disturbed" /\ ~Begun
    <3>1. Place(i + 1) <= FrameSize /\ sbus_waiting[i + 1].tag # "last"
      BY <2>2, <2>5 DEF WaitingByte
    <3>2. ReadSoFar' + i < FrameSize /\ ReadSoFar' + i \in Nat
      BY <1>5, <1>9, <2>1, <2>5, <3>1 DEF Place
    <3>3. Place(i)' <= FrameSize /\ Place(i)' # FrameSize
      BY <1>5, <3>2 DEF Place
    <3> QED BY <2>1, <3>1, <3>3 DEF WaitingByte
  <2> QED BY <2>3, <2>4, <2>5
<1>11. WaitingInv'
  BY <1>10 DEF WaitingInv
<1>12. FrameInv'
  <2>1. ASSUME ~Starting', sbus_frame' = "whole"
        PROVE  /\ Begun' /\ Place(Len(sbus_waiting))' = sbus_next'
               /\ sbus_age' <= sbus_silence'
    <3>1. Begun /\ ReadSoFar + Len(sbus_waiting) = sbus_next
      BY <1>1, <2>1 DEF FrameInv, Starting, Place
    <3>2. Begun' /\ ReadSoFar' = ReadSoFar + 1
      BY <1>2, <1>5, <1>8, <3>1
    <3>3. ReadSoFar' + Len(sbus_waiting') = sbus_next'
      BY <1>1, <1>2, <3>1, <3>2
    <3> QED BY <1>1, <1>3, <1>5, <3>2, <3>3 DEF Place
  <2>2. ASSUME ~Starting', sbus_frame' = "broken"
        PROVE  Place(Len(sbus_waiting))' < sbus_next'
    <3>1. \/ ReadSoFar + Len(sbus_waiting) < sbus_next
          \/ ReadSoFar + Len(sbus_waiting) = sbus_next /\ ~Begun
      BY <1>1, <2>2 DEF FrameInv, Starting, Place
    <3>2. ReadSoFar' + Len(sbus_waiting') < sbus_next'
      <4>1. CASE Begun
        BY <1>1, <1>2, <1>5, <1>8, <3>1, <4>1
      <4>2. CASE ~Begun
        <5>1. ReadSoFar' = 0 /\ ReadSoFar = 0
          BY <1>9, <4>2
        <5>2. ReadSoFar + Len(sbus_waiting) <= sbus_next
          BY <1>2, <1>5, <3>1
        <5> QED BY <1>1, <1>2, <1>5, <5>1, <5>2
      <4> QED BY <4>1, <4>2
    <3> QED BY <3>2 DEF Place
  <2> QED BY <1>3, <2>1, <2>2 DEF FrameInv
<1>13. FramesExact'
  <2>1. WaitingByte(1)
    BY <1>2 DEF WaitingInv
  <2>2. sbus_waiting[1].tag = "last" => sbus_last'.result = "FRAME_READY"
    <3> SUFFICES ASSUME sbus_waiting[1].tag = "last"
                 PROVE  sbus_last'.result = "FRAME_READY"
      OBVIOUS
    <3>1. ReadSoFar + 1 = FrameSize /\ sbus_waiting[1].value = "footer"
      BY <2>1 DEF WaitingByte, Place
    <3>2. Reading
      BY <1>2, <1>5, <3>1
    <3> QED BY <1>3, <3>1, <3>2
  <2>3. sbus_waiting[1].tag = "inside" => sbus_last'.result # "FRAME_READY"
    <3> SUFFICES ASSUME sbus_waiting[1].tag = "inside"
                 PROVE  sbus_last'.result # "FRAME_READY"
      OBVIOUS
    <3>1. CASE ~Reading
      BY <1>3, <3>1
    <3>2. CASE Reading
      <4>1. ReadSoFar + 1 <= FrameSize
            /\ (ReadSoFar + 1 = FrameSize => sbus_waiting[1].value # "footer")
        BY <1>4, <2>1, <3>2 DEF WaitingByte, Place
      <4>2. CASE ReadSoFar + 1 = FrameSize
        BY <1>3, <3>2, <4>1, <4>2
      <4>3. CASE ReadSoFar + 1 < FrameSize
        BY <1>3, <3>2, <4>3
      <4> QED BY <1>2, <1>5, <4>1, <4>2, <4>3
    <3> QED BY <3>1, <3>2
  <2> QED BY <1>2, <1>3, <2>2, <2>3 DEF FramesExact, Tags
<1> QED BY <1>3, <1>6, <1>7, <1>11, <1>12, <1>13

LEMMA SbusStart == SbusInit => SbusInv
<1> SUFFICES ASSUME SbusInit PROVE SbusInv
  OBVIOUS
<1> USE DEF SbusInit
<1>1. sbus_waiting \in Seq([value : Values, tag : Tags]) /\ Len(sbus_waiting) = 0
  OBVIOUS
<1>2. SbusTypeOK
  <2>1. 0 \in 0..Footer /\ 0 \in 0..Timeout /\ 0 \in 0..MaxPoll /\ Gap \in 0..Gap
        /\ 0 <= MaxWaiting
    BY SbusSizes
  <2>2. "broken" \in FrameStates
    BY DEF FrameStates
  <2>3. (sbus_state = "READ_FRAME") = (sbus_pos > 0)
    OBVIOUS
  <2>4. Len(sbus_waiting) <= MaxWaiting
    BY <1>1, <2>1
  <2> QED BY <1>1, <2>1, <2>2, <2>3, <2>4 DEF SbusTypeOK
<1>3. SilenceInv /\ DisturbedInv /\ FrameInv
  BY DEF SilenceInv, DisturbedInv, FrameInv, Starting, Reading
<1>4. WaitingInv /\ FramesExact
  BY <1>1 DEF WaitingInv, FramesExact
<1> QED BY <1>2, <1>3, <1>4 DEF SbusInv

\* Every step of the line, the UART and the parser.
LEMMA SbusKept ==
  ASSUME SbusInv, [SbusNext]_sbusVars
  PROVE  SbusInv'
<1>1. CASE UNCHANGED sbusVars
  <2> USE <1>1 DEF sbusVars, sbusLine, SbusInv
  <2>1. UNCHANGED <<sbusParser, sbus_waiting>> /\ sbus_idle_poll' = sbus_idle_poll
    OBVIOUS
  <2>2. WaitingInv' /\ (Timely' <=> Timely)
    BY <2>1, UnmovedBytes
  <2>3. ReadSoFar' = ReadSoFar /\ (Reading' <=> Reading) /\ (Begun' <=> Begun)
    BY <2>1, Unmoved
  <2>4. SbusTypeOK'
    BY DEF SbusTypeOK, sbusParser, Footer
  <2>5. SilenceInv' /\ DisturbedInv' /\ FramesExact'
    BY <2>3 DEF SilenceInv, DisturbedInv, FramesExact, Starting, sbusParser
  <2>6. Place(Len(sbus_waiting))' = Place(Len(sbus_waiting))
    BY <2>1, <2>3 DEF Place
  <2>7. FrameInv'
    BY <2>2, <2>3, <2>6 DEF FrameInv, Starting, sbusParser
  <2> QED BY <2>2, <2>4, <2>5, <2>7
<1> QED BY <1>1, ArriveKept, SpuriousKept, LostKept, BeginPollKept, ProcessKept,
           EndPollKept, SbusTickKept DEF SbusNext

-----------------------------------------------------------------------------

\* From its first byte to its last the CRSF parser never overruns its buffer,
\* recognises every frame that finds it waiting, and is back in step within one
\* frame size of a damage: for every frame sent and every damage of the line.
THEOREM CrsfCorrect ==
  CrsfSpec => []CrsfTypeOK /\ []FramesRecognised /\ []BackInStep
BY CrsfStart, CrsfKept, CrsfShows, PTL DEF CrsfSpec

\* The SBUS parser hands over the frames that arrive whole and nothing else,
\* whatever the line loses, damages or adds and however the polls fall, as long
\* as two polls are less than the timeout apart, by more than the ms a byte may
\* take, and the pause between two frames outlasts the timeout and a poll.
THEOREM SbusCorrect ==
  SbusSpec => []SbusTypeOK /\ []FramesExact
<1>1. SbusInv => SbusTypeOK /\ FramesExact
  BY DEF SbusInv
<1> QED BY <1>1, SbusStart, SbusKept, PTL DEF SbusSpec

=============================================================================
