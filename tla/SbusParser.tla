----------------------------- MODULE SbusParser ------------------------------
(***************************************************************************)
(* The SBUS protocol of the STM32F407 receiver.  A frame has a header, a   *)
(* footer and no checksum, and a data byte may look like either: only the  *)
(* silence between two frames tells the parser where a frame begins.  The  *)
(* parser does not see that silence itself.  A byte waits in the UART      *)
(* until rc_receiver_service_process drains it, and the parser dates it    *)
(* with the time at which that poll began.                                 *)
(*                                                                         *)
(* Of a byte the model keeps what the parser looks at, of the buffer how   *)
(* much of it is filled: the footer is always the byte just written.  The  *)
(* service takes a decoded frame at once, so frame_ready is never seen     *)
(* set.  Times are ages in ms, kept up to the bound that matters; the code *)
(* subtracts uint32_t times, which is right while the last byte is less    *)
(* than 2^32 ms old.                                                       *)
(***************************************************************************)
EXTENDS Integers, Sequences

CONSTANTS
  FrameSize,   \* SBUS_FRAME_SIZE: 25
  Timeout,     \* SBUS_INTER_BYTE_TIMEOUT_MS: 5
  MaxPoll,     \* the main loop polls at least this often
  Gap,         \* the transmitter is silent this long between two frames
  MaxWaiting   \* bound: bytes in the UART buffer

\* With these the parser can tell a pause inside a frame from one between two.
ASSUME SbusAssumption ==
  /\ FrameSize \in Nat /\ FrameSize >= 3
  /\ MaxPoll \in Nat \ {0}
  /\ Timeout \in Nat /\ Timeout > MaxPoll + 1
  /\ Gap \in Nat /\ Gap >= Timeout + MaxPoll
  /\ MaxWaiting \in Nat /\ MaxWaiting >= FrameSize

Footer == FrameSize - 1   \* SBUS_FOOTER_INDEX

\* SBUS_HEADER_BYTE, SBUS_FOOTER_BYTE, any other value.
Values == {"header", "footer", "data"}

VARIABLES
  \* SbusProtocolContext; sbus_age is now_ms - last_byte_time_ms
  sbus_state, sbus_pos, sbus_age,
  \* the receiver service: whether it is draining, how long since it last did
  sbus_polling, sbus_idle_poll,
  \* bytes in the UART
  sbus_waiting,
  \* the transmitter: index of the next byte, ms since the last one
  sbus_next, sbus_silence,
  \* ghosts: what the line did to this frame so far, ms since the last byte
  \* that nobody sent, and the last byte parsed with what process_byte returned
  sbus_frame, sbus_noise, sbus_last

sbusParser == <<sbus_state, sbus_pos, sbus_age>>
sbusLine == <<sbus_next, sbus_silence, sbus_frame, sbus_noise>>
sbusVars == <<sbusParser, sbus_polling, sbus_idle_poll, sbus_waiting,
              sbusLine, sbus_last>>

Saturated(n, bound) == IF n < bound THEN n + 1 ELSE bound

\* What the line did to a frame.  whole: no byte of it is missing so far, the
\* header and the footer are intact.  disturbed: a byte nobody sent came within
\* the frame or less than Gap before it.
FrameStates == {"whole", "broken", "disturbed"}

\* What a byte is: the last one of a whole frame, one in or before a disturbed
\* frame, or any other.
Tags == {"last", "disturbed", "inside"}

-----------------------------------------------------------------------------
(* The line.  Nothing on it knows of the polls.                            *)

Starting == sbus_next = 0

\* The next byte is due: between two frames there is a pause, inside one at
\* most one ms passes.
Due == Starting => sbus_silence = Gap

FrameBefore ==
  IF ~Starting THEN sbus_frame
  ELSE IF sbus_noise < Gap THEN "disturbed" ELSE "whole"

Broken(f) == IF f = "whole" THEN "broken" ELSE f

\* The transmitter has sent the byte, of which f is then what is known.
Sends(f) ==
  /\ sbus_next' = (sbus_next + 1) % FrameSize
  /\ sbus_silence' = 0
  /\ sbus_frame' = f
  /\ UNCHANGED <<sbusParser, sbus_polling, sbus_idle_poll, sbus_noise,
                 sbus_last>>

\* Without a checksum a damaged data byte is as good as another value of it.
Framed(v) ==
  /\ sbus_next = 0 => v = "header"
  /\ sbus_next = Footer => v = "footer"

Tag(f) ==
  CASE f = "disturbed" -> "disturbed"
    [] f = "whole" /\ sbus_next = Footer -> "last"
    [] OTHER -> "inside"

ByteArrives(v) ==
  LET f == IF Framed(v) THEN FrameBefore ELSE Broken(FrameBefore) IN
  /\ Due
  /\ Len(sbus_waiting) < MaxWaiting
  /\ sbus_waiting' = Append(sbus_waiting, [value |-> v, tag |-> Tag(f)])
  /\ Sends(f)

Lost ==
  /\ Due
  /\ Sends(Broken(FrameBefore))
  /\ UNCHANGED sbus_waiting

\* A byte that nobody sent.
Spurious(v) ==
  /\ Len(sbus_waiting) < MaxWaiting
  /\ sbus_waiting' = Append(sbus_waiting, [value |-> v, tag |-> "disturbed"])
  /\ sbus_noise' = 0
  /\ sbus_frame' = "disturbed"
  /\ UNCHANGED <<sbusParser, sbus_polling, sbus_idle_poll, sbus_next,
                 sbus_silence, sbus_last>>

-----------------------------------------------------------------------------
(* sbus_protocol_process_byte.  A state the parser is in after the timeout *)
(* check is given by Reading.                                              *)

\* Mutant: the time of the last byte is not looked at.
TimedOut_Never == FALSE

TimedOut == sbus_state = "READ_FRAME" /\ sbus_age >= Timeout

Reading == sbus_state = "READ_FRAME" /\ ~TimedOut

SbusReset ==
  /\ sbus_state' = "WAIT_HEADER" /\ sbus_pos' = 0 /\ sbus_age' = 0

StartFrame ==
  /\ sbus_state' = "READ_FRAME" /\ sbus_pos' = 1 /\ sbus_age' = 0

\* The header, or a byte that is skipped.
WaitHeader(v) ==
  /\ ~Reading
  /\ IF v = "header" THEN StartFrame ELSE SbusReset

ReadByte ==
  /\ Reading /\ sbus_pos + 1 < FrameSize
  /\ sbus_pos' = sbus_pos + 1
  /\ sbus_age' = 0
  /\ UNCHANGED sbus_state

FrameEnds == Reading /\ sbus_pos + 1 >= FrameSize

\* A header in the place of the footer begins the next frame.
Malformed(v) ==
  /\ FrameEnds /\ v # "footer"
  /\ IF v = "header" THEN StartFrame ELSE SbusReset

FrameReady(v) ==
  /\ FrameEnds /\ v = "footer"
  /\ SbusReset

Returns(b, result) == sbus_last' = [tag |-> b.tag, result |-> result]

SbusProcessByte ==
  /\ sbus_polling /\ sbus_waiting # <<>>
  /\ LET b == Head(sbus_waiting) IN
       \/ WaitHeader(b.value) /\ Returns(b, "CONTINUE")
       \/ ReadByte /\ Returns(b, "CONTINUE")
       \/ Malformed(b.value) /\ Returns(b, "ERROR")
       \/ FrameReady(b.value) /\ Returns(b, "FRAME_READY")
  /\ sbus_waiting' = Tail(sbus_waiting)
  /\ UNCHANGED <<sbus_polling, sbus_idle_poll, sbusLine>>

\* rc_receiver_service_process reads the time once, then drains the UART.
BeginPoll ==
  /\ ~sbus_polling /\ sbus_waiting # <<>>
  /\ sbus_polling' = TRUE
  /\ UNCHANGED <<sbusParser, sbus_idle_poll, sbus_waiting, sbusLine, sbus_last>>

EndPoll ==
  /\ sbus_waiting = <<>>
  /\ sbus_polling \/ sbus_idle_poll > 0
  /\ sbus_polling' = FALSE
  /\ sbus_idle_poll' = 0
  /\ UNCHANGED <<sbusParser, sbus_waiting, sbusLine, sbus_last>>

SbusTick ==
  /\ ~sbus_polling /\ sbus_idle_poll < MaxPoll
  /\ Starting \/ sbus_silence = 0
  /\ sbus_age' = IF sbus_state = "READ_FRAME"
                   THEN Saturated(sbus_age, Timeout) ELSE sbus_age
  /\ sbus_idle_poll' = sbus_idle_poll + 1
  /\ sbus_silence' = Saturated(sbus_silence, Gap)
  /\ sbus_noise' = Saturated(sbus_noise, Gap)
  /\ UNCHANGED <<sbus_state, sbus_pos, sbus_polling, sbus_waiting, sbus_next,
                 sbus_frame, sbus_last>>

SbusInit ==
  /\ sbus_state = "WAIT_HEADER" /\ sbus_pos = 0 /\ sbus_age = 0
  /\ sbus_polling = FALSE /\ sbus_idle_poll = 0
  /\ sbus_waiting = <<>>
  /\ sbus_next = 0 /\ sbus_silence = Gap
  /\ sbus_frame = "broken"
  /\ sbus_noise = Gap
  /\ sbus_last = [tag |-> "inside", result |-> "CONTINUE"]

SbusNext ==
  \/ \E v \in Values : ByteArrives(v) \/ Spurious(v)
  \/ Lost
  \/ BeginPoll \/ SbusProcessByte \/ EndPoll
  \/ SbusTick

SbusSpec == SbusInit /\ [][SbusNext]_sbusVars

-----------------------------------------------------------------------------

\* Types; the buffer of a frame being read has room for the next byte, which
\* makes the code's own check of frame_pos redundant.
SbusTypeOK ==
  /\ sbus_state \in {"WAIT_HEADER", "READ_FRAME"}
  /\ sbus_pos \in 0..Footer
  /\ sbus_age \in 0..Timeout
  /\ sbus_polling \in BOOLEAN
  /\ sbus_idle_poll \in 0..MaxPoll
  /\ sbus_waiting \in Seq([value : Values, tag : Tags])
  /\ Len(sbus_waiting) <= MaxWaiting
  /\ sbus_next \in 0..Footer
  /\ sbus_silence \in 0..Gap
  /\ sbus_frame \in FrameStates
  /\ sbus_noise \in 0..Gap
  /\ (sbus_state = "READ_FRAME") = (sbus_pos > 0)

\* What the parser hands over is a frame of the transmitter and all of them:
\* after any loss or damage of earlier bytes, with data bytes that look like
\* headers and footers, and however the polls fall, FRAME_READY is returned
\* exactly for the last byte of a frame that arrived whole.  Only bytes that
\* nobody sent, in the frame or shortly before it, can make the parser take
\* other bytes for a frame.
FramesExact ==
  sbus_last.tag # "disturbed" =>
    (sbus_last.result = "FRAME_READY" <=> sbus_last.tag = "last")

=============================================================================
