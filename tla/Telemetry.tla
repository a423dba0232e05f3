----------------------------- MODULE Telemetry -----------------------------
(***************************************************************************)
(* Telemetry on the STM32F407: the scheduler that sends at most one frame  *)
(* per poll of the main loop (crsf_telemetry_service.c), the backend that  *)
(* copies the frame and hands it to the HAL (stm32f4_uart_tx_backend.c),   *)
(* and the interrupts of the UART, which it shares with the receiver.      *)
(*                                                                         *)
(* A frame is its kind.  The encoders cannot fail for the frames that are  *)
(* ever pending.  A period's test is a member of due: added by Tick at any *)
(* moment, removed when the code takes the time of a transmission.         *)
(***************************************************************************)
EXTENDS Naturals

CONSTANTS
  MaxRequests,  \* device pings and custom frames
  MaxErrors     \* UART receive errors

ASSUME BoundAssumption == MaxRequests \in Nat /\ MaxErrors \in Nat

Slots == {"battery", "heartbeat", "mode"}
Values == {"battery", "mode"}          \* sent once the application sets them
Urgent == {"device", "custom"}
Frames == Slots \union Urgent

\* The slot at each index of the round robin.
SlotAt == [i \in 0..2 |-> CASE i = 0 -> "battery"
                            [] i = 1 -> "heartbeat"
                            [] i = 2 -> "mode"]

VARIABLES
  \* CrsfTelemetryService
  pending,            \* the frames whose pending flag is set
  valid,              \* the values the application has set
  due,                \* the slots whose period has passed
  round_robin_index,
  \* CrsfProtocolContext
  device_ping_pending,
  \* the main loop
  pc, frame,          \* what it does next, and the frame it is about
  \* Stm32f4UartTxBackend
  busy, tx_buffer,
  \* the HAL
  sending,            \* gState is BUSY_TX
  wire,               \* whose bytes it has sent in this transmission: "own"
                      \* if of the frame it was started with, else "foreign"
  \* what the properties compare with
  started,            \* the frame this transmission was started with
  watched, overtaken, \* a slot, and how many others went first while it waits
  requests, errors    \* how much of the bounds is used up

service == <<pending, valid, due, round_robin_index, device_ping_pending>>
loop == <<pc, frame>>
hal == <<sending, wire, started>>
history == <<watched, overtaken>>
vars == <<service, loop, busy, tx_buffer, hal, history, requests, errors>>

-----------------------------------------------------------------------------
(* The application and the receiver, between two polls of the telemetry    *)

\* crsf_telemetry_service_set_battery, crsf_telemetry_service_set_flight_mode
SetValue(s) ==
  /\ pc = "poll"
  /\ valid' = valid \union {s}
  /\ pending' = pending \union {s}
  /\ UNCHANGED <<due, round_robin_index, device_ping_pending, loop, busy,
                 tx_buffer, hal, history, requests, errors>>

\* crsf_telemetry_service_queue_custom_broadcast
QueueCustom ==
  /\ pc = "poll" /\ requests < MaxRequests
  /\ requests' = requests + 1
  /\ pending' = pending \union {"custom"}
  /\ UNCHANGED <<valid, due, round_robin_index, device_ping_pending, loop,
                 busy, tx_buffer, hal, history, errors>>

\* The CRSF parser completes a ping addressed to this device.
ReceivePing ==
  /\ pc = "poll" /\ requests < MaxRequests
  /\ requests' = requests + 1
  /\ device_ping_pending' = TRUE
  /\ UNCHANGED <<pending, valid, due, round_robin_index, loop, busy,
                 tx_buffer, hal, history, errors>>

\* Any frame but a ping resets the parser, and with it the ping.
ForgetPing ==
  /\ pc = "poll" /\ device_ping_pending
  /\ device_ping_pending' = FALSE
  /\ UNCHANGED <<pending, valid, due, round_robin_index, loop, busy,
                 tx_buffer, hal, history, requests, errors>>

\* Nothing tests the period of a slot that is pending or has no value yet.
Tick(s) ==
  /\ s \notin due \union pending
  /\ s \in Values => s \in valid
  /\ due' = due \union {s}
  /\ UNCHANGED <<pending, valid, round_robin_index, device_ping_pending, loop,
                 busy, tx_buffer, hal, history, requests, errors>>

-----------------------------------------------------------------------------
(* crsf_telemetry_service_process                                          *)

\* How many slots after the round robin's index the first ready one is.
Distance(ready) ==
  CHOOSE k \in 0..2 :
    /\ SlotAt[(round_robin_index + k) % 3] \in ready
    /\ \A j \in 0..(k - 1) : SlotAt[(round_robin_index + j) % 3] \notin ready

\* mutant: the index stays at the slot that was found
Choose_Stays(ready) ==
  IF Urgent \intersect ready # {}
  THEN /\ frame' = IF "device" \in ready THEN "device" ELSE "custom"
       /\ UNCHANGED round_robin_index
  ELSE LET i == (round_robin_index + Distance(ready)) % 3
       IN  frame' = SlotAt[i] /\ round_robin_index' = i

\* mutant: answers and custom frames wait for the slots
Choose_SlotsFirst(ready) ==
  IF Slots \intersect ready = {}
  THEN /\ frame' = IF "device" \in ready THEN "device" ELSE "custom"
       /\ UNCHANGED round_robin_index
  ELSE LET i == (round_robin_index + Distance(ready)) % 3
       IN  frame' = SlotAt[i] /\ round_robin_index' = (i + 1) % 3

\* The device's answer goes first, a custom frame second, and the slots share
\* the rest in turns.  A turn is used up even if the transmission fails.
Choose(ready) ==
  IF Urgent \intersect ready # {}
  THEN /\ frame' = IF "device" \in ready THEN "device" ELSE "custom"
       /\ UNCHANGED round_robin_index
  ELSE LET i == (round_robin_index + Distance(ready)) % 3
       IN  frame' = SlotAt[i] /\ round_robin_index' = (i + 1) % 3

\* The service's process up to the start of a frame: what has become due is
\* pending from now on, also if the transmitter is busy.
ServiceProcess ==
  LET taken == device_ping_pending /\ "device" \notin pending
      ready == pending \union {s \in due : s \in Values => s \in valid}
                 \union {f \in {"device"} : taken}
  IN  /\ pc = "poll"
      /\ pending' = ready
      /\ device_ping_pending' = (device_ping_pending /\ ~taken)
      /\ IF busy \/ ready = {}
         THEN UNCHANGED <<round_robin_index, loop>>
         ELSE Choose(ready) /\ pc' = "write"
      /\ UNCHANGED <<valid, due, busy, tx_buffer, hal, history, requests,
                     errors>>

-----------------------------------------------------------------------------
(* stm32f4_uart_tx_try_write                                               *)

\* mutant: the backend does not become busy
TryWrite_NotBusy ==
  /\ pc = "write"
  /\ tx_buffer' = frame
  /\ pc' = "start"
  /\ UNCHANGED <<service, frame, busy, hal, history, requests, errors>>

\* The frame is copied.  busy is still clear: only this loop sets it.
TryWrite ==
  /\ pc = "write"
  /\ ~busy
  /\ tx_buffer' = frame
  /\ busy' = TRUE
  /\ pc' = "start"
  /\ UNCHANGED <<service, frame, hal, history, requests, errors>>

\* Does the watched slot go on waiting while another one is sent?
Overtake ==
  overtaken' = IF watched = frame \/ watched \notin pending THEN 0
               ELSE IF frame \in Slots /\ overtaken < 3 THEN overtaken + 1
               ELSE overtaken

\* HAL_UART_Transmit_IT accepts the frame, and the service takes the time.
\* busy may be clear again: a UART error has struck since the frame was copied.
HalStarts ==
  /\ pc = "start"
  /\ ~sending
  /\ sending' = TRUE
  /\ started' = frame
  /\ pending' = pending \ {frame}
  /\ due' = due \ {frame}
  /\ Overtake
  /\ pc' = "poll" /\ frame' = "none"
  /\ UNCHANGED <<valid, round_robin_index, device_ping_pending, busy,
                 tx_buffer, wire, watched, requests, errors>>

\* It is still sending, or an interrupt has cleared the length with busy (and
\* the call had not loaded it yet).  The frame stays pending.
HalRefuses ==
  /\ pc = "start"
  /\ sending \/ ~busy
  /\ busy' = FALSE
  /\ pc' = "poll" /\ frame' = "none"
  /\ UNCHANGED <<service, tx_buffer, hal, history, requests, errors>>

-----------------------------------------------------------------------------
(* The UART's interrupts                                                   *)

\* The HAL reads the next bytes from the backend's buffer.
SendBytes ==
  /\ sending
  /\ wire' = wire \union {IF tx_buffer = started THEN "own" ELSE "foreign"}
  /\ UNCHANGED <<service, loop, busy, tx_buffer, sending, started, history,
                 requests, errors>>

\* mutant: the callback does not free the backend
TxComplete_StaysBusy ==
  /\ sending /\ wire # {}
  /\ sending' = FALSE
  /\ wire' = {} /\ started' = "none"
  /\ UNCHANGED <<service, loop, busy, tx_buffer, history, requests, errors>>

\* stm32f4_uart_tx_backend_on_tx_complete, after the HAL became ready.  If an
\* error cleared busy before, there is nothing left to do.
TxComplete ==
  /\ sending /\ wire # {}
  /\ sending' = FALSE
  /\ wire' = {} /\ started' = "none"
  /\ busy' = FALSE
  /\ UNCHANGED <<service, loop, tx_buffer, history, requests, errors>>

\* stm32f4_uart_tx_backend_on_error: the HAL ends the reception, and goes on
\* sending.
UartError ==
  /\ errors < MaxErrors
  /\ errors' = errors + 1
  /\ busy' = FALSE
  /\ UNCHANGED <<service, loop, tx_buffer, hal, history, requests>>

-----------------------------------------------------------------------------
Init ==
  /\ pending = {"heartbeat"} /\ valid = {} /\ due = {}
  /\ round_robin_index = 0
  /\ device_ping_pending = FALSE
  /\ pc = "poll" /\ frame = "none"
  /\ busy = FALSE /\ tx_buffer = "none"
  /\ sending = FALSE /\ wire = {} /\ started = "none"
  /\ watched \in Slots /\ overtaken = 0
  /\ requests = 0 /\ errors = 0

MainLoop == ServiceProcess \/ TryWrite \/ HalStarts \/ HalRefuses

Next ==
  \/ \E s \in Values : SetValue(s)
  \/ QueueCustom \/ ReceivePing \/ ForgetPing
  \/ \E s \in Slots : Tick(s)
  \/ MainLoop
  \/ SendBytes \/ TxComplete \/ UartError

Spec == Init /\ [][Next]_vars

\* The main loop runs for ever and the UART sends what it was given; nothing is
\* assumed of the application, the receiver and time.
FairSpec ==
  Spec /\ WF_vars(MainLoop) /\ WF_vars(SendBytes) /\ WF_vars(TxComplete)

-----------------------------------------------------------------------------
(* Properties                                                              *)

\* Every variable has its type.
TypeOK ==
  /\ pending \in SUBSET Frames /\ valid \in SUBSET Values
  /\ due \in SUBSET Slots
  /\ round_robin_index \in 0..2
  /\ device_ping_pending \in BOOLEAN
  /\ pc \in {"poll", "write", "start"}
  /\ frame \in Frames \union {"none"} /\ tx_buffer \in Frames \union {"none"}
  /\ busy \in BOOLEAN /\ sending \in BOOLEAN
  /\ wire \in SUBSET {"own", "foreign"}
  /\ started \in Frames \union {"none"}
  /\ watched \in Slots /\ overtaken \in 0..3
  /\ requests \in 0..MaxRequests /\ errors \in 0..MaxErrors

\* A busy transmitter is one that will report its end, whatever errors and
\* refused starts came before: otherwise telemetry is silent for ever.
BusyEnds == busy /\ pc # "start" => sending

\* Until the first UART error no byte of another frame gets into the one on the
\* wire, although the backend's buffer is written while interrupts read it.
WholeUntilError == errors = 0 => "foreign" \notin wire

\* Until the first UART error a pending slot lets each other slot go first at
\* most once.
TurnsAreTaken == errors = 0 => overtaken <= 2

\* Until the first UART error what is pending is sent, if there are finitely many
\* pings and custom frames, however often the slots fall due and the application
\* sets its values.
PendingIsSent == \A f \in Frames : f \in pending ~> f \notin pending \/ errors > 0

\* Whatever is pending, a transmission begins, even when errors have left the
\* backend and the HAL out of step.
TransmissionGoesOn == pending # {} ~> sending

\* The backend "starts transmission of one complete frame"
\* (radio_tx_if.h:15), and is busy "while the backend still owns an active
\* transmission" (radio_tx_if.h:26): what is on the wire is the frame that was
\* started.
CompleteFrame == "foreign" \notin wire
=============================================================================
