---------------------------- MODULE Sx128xAdapter ----------------------------
(***************************************************************************)
(* The SX128x packet radio adapter, one SPI command at a time, with the    *)
(* part of the STM32F4 port that turns DIO1 edges into wake-ups.           *)
(*                                                                         *)
(* DuplexLink takes a call of the adapter as one step.  Here the chip and  *)
(* the DIO1 interrupt step in between any two commands of a call: an       *)
(* interrupt bit that is set while another is pending gives no new edge,   *)
(* a continuous receive goes on while the adapter reads the frame it       *)
(* announced, and every command may fail (BUSY timeout, SPI error), having *)
(* reached the chip or not.                                                *)
(*                                                                         *)
(* pc names the command under way; "service" means the adapter has         *)
(* returned.  The service above is duplex_link_service_process: it takes   *)
(* all events before it calls anything else, an initiator receives with a  *)
(* timeout and a responder continuously.  A frame is only whether it has   *)
(* the configured length and a correct checksum.                           *)
(***************************************************************************)
EXTENDS Integers, Sequences

CONSTANT CountModulus   \* the DIO1 counts are uint32_t: 2^32 in the firmware

ASSUME CountAssumption == CountModulus \in Nat \ {0, 1}

EventCapacity == 4      \* SX128X_PACKET_RADIO_EVENT_CAPACITY

VARIABLES
  role,                 \* DuplexLinkConfig.role, decides the receive mode
  \* Sx128xPacketRadio
  state, events, rx_frame_available, rx_frame,
  \* locals of the call under way
  pc, irq_status, captured,
  \* Stm32f4Sx128xPort
  dio1_produced_count, dio1_consumed_count,
  \* the chip, and the EXTI line DIO1 is wired to
  chip_mode, chip_irq, chip_packet, exti_pending

adapterVars == <<state, events, rx_frame_available, rx_frame>>
callVars == <<pc, irq_status, captured>>
portVars == <<dio1_produced_count, dio1_consumed_count>>
chipVars == <<chip_mode, chip_irq, chip_packet, exti_pending>>
vars == <<role, adapterVars, callVars, portVars, chipVars>>

Interrupts == {"TX_DONE", "RX_DONE", "CRC_ERROR", "RX_TX_TIMEOUT"}
Packets == {"good", "bad_crc", "wrong_length"}
Waiting == {"TX", "RX"}

-----------------------------------------------------------------------------
(* Helpers of the adapter.                                                 *)

\* Mutant: a frame stays on offer when the radio fails.
EnterError_KeepsFrame ==
  /\ state' = "ERROR"
  /\ UNCHANGED rx_frame_available
  /\ events' = IF Len(events) < EventCapacity
                 THEN Append(events, "DEVICE_ERROR") ELSE <<"DEVICE_ERROR">>

EnterError ==
  /\ state' = "ERROR"
  /\ rx_frame_available' = FALSE
  /\ events' = IF Len(events) < EventCapacity
                 THEN Append(events, "DEVICE_ERROR") ELSE <<"DEVICE_ERROR">>

\* push_event, its result ignored: a full queue drops the event.
EndOperation(event) ==
  /\ state' = "IDLE"
  /\ events' = IF Len(events) < EventCapacity THEN Append(events, event) ELSE events

\* The call goes on with the next command, or returns.
GoTo(command) == pc' = command
At(command) == pc = command

\* A command fails: its effect on the chip, if it has one, happens or not.
CommandFails(command) ==
  /\ At(command)
  /\ GoTo("service")
  /\ EnterError
  /\ UNCHANGED <<role, rx_frame, irq_status, captured, portVars>>

-----------------------------------------------------------------------------
(* process: GetIrqStatus, ClearIrqStatus, then one branch.                 *)

\* process is called; without a DIO1 event it returns at once.
TakeDio1Event ==
  /\ At("service") /\ events = <<>> /\ state # "ERROR"
  /\ dio1_produced_count # dio1_consumed_count
  /\ dio1_consumed_count' = dio1_produced_count
  /\ GoTo("get_irq_status")
  /\ UNCHANGED <<role, adapterVars, irq_status, captured,
                 dio1_produced_count, chipVars>>

GetIrqStatus ==
  \/ /\ At("get_irq_status")
     /\ irq_status' = chip_irq
     /\ GoTo(IF chip_irq = {} THEN "service" ELSE "clear_irq_status")
     /\ UNCHANGED <<role, adapterVars, captured, portVars, chipVars>>
  \/ /\ CommandFails("get_irq_status")
     /\ UNCHANGED chipVars

\* DIO1 falls only when no interrupt is left.
Clear(bits) ==
  /\ chip_irq' = chip_irq \ bits
  /\ UNCHANGED <<chip_mode, chip_packet, exti_pending>>

ClearIrqStatus ==
  \/ /\ At("clear_irq_status")
     /\ Clear(irq_status)
     /\ GoTo("branch")
     /\ UNCHANGED <<role, adapterVars, irq_status, captured, portVars>>
  \/ /\ CommandFails("clear_irq_status")
     /\ Clear(irq_status) \/ UNCHANGED chipVars

\* The first of the four bits that is set decides.
Cause == IF "CRC_ERROR" \in irq_status THEN "CRC_ERROR"
         ELSE IF "RX_TX_TIMEOUT" \in irq_status THEN "RX_TX_TIMEOUT"
         ELSE IF "RX_DONE" \in irq_status THEN "RX_DONE"
         ELSE "TX_DONE"

Expected == state = (IF Cause = "TX_DONE" THEN "TX" ELSE "RX")

UnexpectedIrq ==
  /\ At("branch") /\ ~Expected
  /\ EnterError
  /\ GoTo("service")
  /\ UNCHANGED <<role, rx_frame, irq_status, captured, portVars, chipVars>>

CrcError ==
  /\ At("branch") /\ Expected /\ Cause = "CRC_ERROR"
  /\ EndOperation("CRC_ERROR")
  /\ rx_frame_available' = FALSE
  /\ GoTo("service")
  /\ UNCHANGED <<role, rx_frame, irq_status, captured, portVars, chipVars>>

RxTimeout ==
  /\ At("branch") /\ Expected /\ Cause = "RX_TX_TIMEOUT"
  /\ EndOperation("RX_TIMEOUT")
  /\ GoTo("service")
  /\ UNCHANGED <<role, rx_frame_available, rx_frame, irq_status, captured,
                 portVars, chipVars>>

TxDone ==
  /\ At("branch") /\ Expected /\ Cause = "TX_DONE"
  /\ EndOperation("TX_DONE")
  /\ GoTo("service")
  /\ UNCHANGED <<role, rx_frame_available, rx_frame, irq_status, captured,
                 portVars, chipVars>>

RxDone ==
  /\ At("branch") /\ Expected /\ Cause = "RX_DONE"
  /\ GoTo("get_rx_buffer_status")
  /\ UNCHANGED <<role, adapterVars, irq_status, captured, portVars, chipVars>>

-----------------------------------------------------------------------------
(* capture_rx_frame: three commands; a chip in continuous receive may      *)
(* overwrite the frame in between.                                         *)

GetRxBufferStatus ==
  \/ /\ At("get_rx_buffer_status") /\ chip_packet # "wrong_length"
     /\ captured' = chip_packet
     /\ GoTo("read_buffer")
     /\ UNCHANGED <<role, adapterVars, irq_status, portVars, chipVars>>
  \/ /\ At("get_rx_buffer_status") /\ chip_packet = "wrong_length"
     /\ EnterError
     /\ GoTo("service")
     /\ UNCHANGED <<role, rx_frame, irq_status, captured, portVars, chipVars>>
  \/ /\ CommandFails("get_rx_buffer_status")
     /\ UNCHANGED chipVars

ReadBuffer ==
  \/ /\ At("read_buffer")
     /\ captured' \in {captured, chip_packet}
     /\ GoTo("get_packet_status")
     /\ UNCHANGED <<role, adapterVars, irq_status, portVars, chipVars>>
  \/ /\ CommandFails("read_buffer")
     /\ UNCHANGED chipVars

GetPacketStatus ==
  \/ /\ At("get_packet_status")
     /\ rx_frame' = captured
     /\ rx_frame_available' = TRUE
     /\ EndOperation("RX_DONE")
     /\ GoTo("service")
     /\ UNCHANGED <<role, irq_status, captured, portVars, chipVars>>
  \/ /\ CommandFails("get_packet_status")
     /\ UNCHANGED chipVars

-----------------------------------------------------------------------------
(* try_start_tx: clear all interrupts, write the buffer, set TX.           *)

StartTx ==
  /\ At("service") /\ events = <<>> /\ state = "IDLE"
  /\ GoTo("tx_clear_irq_status")
  /\ UNCHANGED <<role, adapterVars, irq_status, captured, portVars, chipVars>>

\* Mutant: a start leaves the interrupts as the last operation left them.
ClearAll_Skipped(command, next) ==
  /\ At(command)
  /\ GoTo(next)
  /\ UNCHANGED <<role, adapterVars, irq_status, captured, portVars, chipVars>>

\* The first command of a start, and the last of recover.
ClearAll(command, next) ==
  \/ /\ At(command)
     /\ Clear(Interrupts)
     /\ GoTo(next)
     /\ UNCHANGED <<role, adapterVars, irq_status, captured, portVars>>
  \/ /\ CommandFails(command)
     /\ Clear(Interrupts) \/ UNCHANGED chipVars

TxClearIrqStatus == ClearAll("tx_clear_irq_status", "write_buffer")

WriteBuffer ==
  \/ /\ At("write_buffer")
     /\ GoTo("set_tx")
     /\ UNCHANGED <<role, adapterVars, irq_status, captured, portVars, chipVars>>
  \/ /\ CommandFails("write_buffer")
     /\ UNCHANGED chipVars

SetMode(mode) ==
  /\ chip_mode' = mode
  /\ UNCHANGED <<chip_irq, chip_packet, exti_pending>>

\* Mutant: the interrupts are cleared (again) once the operation runs.
SetOperation_ThenClear(command, mode, waiting) ==
  \/ /\ At(command)
     /\ SetMode(mode)
     /\ state' = waiting
     /\ GoTo("late_clear")
     /\ UNCHANGED <<role, events, rx_frame_available, rx_frame,
                    irq_status, captured, portVars>>
  \/ /\ At("late_clear")
     /\ Clear(Interrupts)
     /\ GoTo("service")
     /\ UNCHANGED <<role, adapterVars, irq_status, captured, portVars>>

\* The last command of a start: the adapter waits for the chip.
SetOperation(command, mode, waiting) ==
  \/ /\ At(command)
     /\ SetMode(mode)
     /\ state' = waiting
     /\ GoTo("service")
     /\ UNCHANGED <<role, events, rx_frame_available, rx_frame,
                    irq_status, captured, portVars>>
  \/ /\ CommandFails(command)
     /\ SetMode(mode) \/ UNCHANGED chipVars

SetTx == SetOperation("set_tx", "tx", "TX")

-----------------------------------------------------------------------------
(* try_start_rx: clear all interrupts, set RX with a time or for ever.     *)

StartRx ==
  /\ At("service") /\ events = <<>> /\ state = "IDLE" /\ ~rx_frame_available
  /\ GoTo("rx_clear_irq_status")
  /\ UNCHANGED <<role, adapterVars, irq_status, captured, portVars, chipVars>>

RxClearIrqStatus == ClearAll("rx_clear_irq_status", "set_rx")

\* Mutant: an initiator, too, receives without end.
RxMode_Continuous == "rx_continuous"

\* timeout_ms is 0 for a responder: SX128X_PACKET_RADIO_CONTINUOUS_RX_COUNT.
RxMode == IF role = "initiator" THEN "rx" ELSE "rx_continuous"

SetRx == SetOperation("set_rx", RxMode, "RX")

-----------------------------------------------------------------------------
(* recover: drop what is queued, standby, clear all interrupts.            *)

\* Mutant: the events of before the recovery are kept.
Recover_KeepsEvents ==
  /\ At("service")
  /\ UNCHANGED events
  /\ rx_frame_available' = FALSE
  /\ GoTo("set_standby")
  /\ UNCHANGED <<role, state, rx_frame, irq_status, captured, portVars, chipVars>>

Recover ==
  /\ At("service")
  /\ events' = <<>>
  /\ rx_frame_available' = FALSE
  /\ GoTo("set_standby")
  /\ UNCHANGED <<role, state, rx_frame, irq_status, captured, portVars, chipVars>>

SetStandby ==
  \/ /\ At("set_standby")
     /\ SetMode("standby")
     /\ GoTo("recover_clear_irq_status")
     /\ UNCHANGED <<role, adapterVars, irq_status, captured, portVars>>
  \/ /\ CommandFails("set_standby")
     /\ SetMode("standby") \/ UNCHANGED chipVars

RecoverClearIrqStatus ==
  \/ /\ At("recover_clear_irq_status")
     /\ Clear(Interrupts)
     /\ state' = "IDLE"
     /\ GoTo("service")
     /\ UNCHANGED <<role, events, rx_frame_available, rx_frame,
                    irq_status, captured, portVars>>
  \/ /\ CommandFails("recover_clear_irq_status")
     /\ Clear(Interrupts) \/ UNCHANGED chipVars

-----------------------------------------------------------------------------
(* The service takes events and reads frames between its other calls.      *)

TakeEvent ==
  /\ At("service") /\ events # <<>>
  /\ events' = Tail(events)
  /\ UNCHANGED <<role, state, rx_frame_available, rx_frame, callVars,
                 portVars, chipVars>>

ReadRxFrame ==
  /\ At("service") /\ rx_frame_available
  /\ rx_frame_available' = FALSE
  /\ UNCHANGED <<role, state, events, rx_frame, callVars, portVars, chipVars>>

-----------------------------------------------------------------------------
(* The chip, and the interrupt of DIO1.                                    *)

\* DIO1 is high while an interrupt is pending; the EXTI line latches only
\* its rising edge.
Raise(bits) ==
  /\ chip_irq' = chip_irq \union bits
  /\ exti_pending' = (exti_pending \/ chip_irq = {})
  /\ UNCHANGED <<role, adapterVars, callVars, portVars>>

ChipTxDone ==
  /\ chip_mode = "tx"
  /\ chip_mode' = "standby"
  /\ Raise({"TX_DONE"})
  /\ UNCHANGED chip_packet

\* The chip's own timers: every transmission has one, a timed receive has one.
ChipTimeout ==
  /\ chip_mode \in {"tx", "rx"}
  /\ chip_mode' = "standby"
  /\ Raise({"RX_TX_TIMEOUT"})
  /\ UNCHANGED chip_packet

\* A frame ends a timed receive, a continuous one goes on.
ChipReceives(packet) ==
  /\ chip_mode \in {"rx", "rx_continuous"}
  /\ chip_mode' = IF chip_mode = "rx" THEN "standby" ELSE chip_mode
  /\ chip_packet' = packet
  /\ Raise({"RX_DONE"} \union (IF packet = "bad_crc" THEN {"CRC_ERROR"} ELSE {}))

\* The environment assumption behind a 32-bit count of edges: never a whole
\* cycle of them between two looks at it.
NoFullCycle == (dio1_produced_count + 1) % CountModulus # dio1_consumed_count

\* on_dio1_irq.
Dio1Irq ==
  /\ exti_pending /\ NoFullCycle
  /\ exti_pending' = FALSE
  /\ dio1_produced_count' = (dio1_produced_count + 1) % CountModulus
  /\ UNCHANGED <<role, adapterVars, callVars, dio1_consumed_count,
                 chip_mode, chip_irq, chip_packet>>

-----------------------------------------------------------------------------
Init ==
  /\ role \in {"initiator", "responder"}
  /\ state = "IDLE" /\ events = <<>>
  /\ rx_frame_available = FALSE /\ rx_frame = "good"
  /\ pc = "service" /\ irq_status = {} /\ captured = "good"
  /\ dio1_produced_count = 0 /\ dio1_consumed_count = 0
  /\ chip_mode = "standby" /\ chip_irq = {} /\ chip_packet = "good"
  /\ exti_pending = FALSE

Process ==
  \/ TakeDio1Event \/ GetIrqStatus \/ ClearIrqStatus
  \/ UnexpectedIrq \/ CrcError \/ RxTimeout \/ TxDone \/ RxDone
  \/ GetRxBufferStatus \/ ReadBuffer \/ GetPacketStatus

FinishStart ==
  \/ TxClearIrqStatus \/ WriteBuffer \/ SetTx
  \/ RxClearIrqStatus \/ SetRx

FinishRecover == SetStandby \/ RecoverClearIrqStatus

Chip ==
  \/ ChipTxDone \/ ChipTimeout
  \/ \E packet \in Packets : ChipReceives(packet)

Next ==
  \/ Process \/ FinishStart \/ FinishRecover
  \/ StartTx \/ StartRx \/ Recover
  \/ TakeEvent \/ ReadRxFrame
  \/ Chip \/ Dio1Irq

Spec == Init /\ [][Next]_vars

\* The main loop keeps calling process, a call returns, the
\* interrupt is served, and the chip's timers run.  Nobody has to start or
\* recover anything, and a continuous receive may hear nothing.
FairSpec ==
  /\ Spec
  /\ WF_vars(Process) /\ WF_vars(FinishStart) /\ WF_vars(FinishRecover)
  /\ WF_vars(Dio1Irq)
  /\ WF_vars(ChipTxDone \/ ChipTimeout)

-----------------------------------------------------------------------------
Commands ==
  {"get_irq_status", "clear_irq_status", "branch", "get_rx_buffer_status",
   "read_buffer", "get_packet_status", "tx_clear_irq_status", "write_buffer",
   "set_tx", "rx_clear_irq_status", "set_rx", "set_standby",
   "recover_clear_irq_status"}

TypeOK ==
  /\ role \in {"initiator", "responder"}
  /\ state \in {"IDLE", "TX", "RX", "ERROR"}
  /\ events \in Seq({"TX_DONE", "RX_DONE", "CRC_ERROR", "RX_TIMEOUT", "DEVICE_ERROR"})
  /\ Len(events) <= 1
  /\ rx_frame_available \in BOOLEAN
  /\ rx_frame \in Packets
  /\ pc \in Commands \union {"service"}
  /\ irq_status \in SUBSET Interrupts
  /\ captured \in Packets
  /\ dio1_produced_count \in 0..(CountModulus - 1)
  /\ dio1_consumed_count \in 0..(CountModulus - 1)
  /\ chip_mode \in {"standby", "tx", "rx", "rx_continuous"}
  /\ chip_irq \in SUBSET Interrupts
  /\ chip_packet \in Packets
  /\ exti_pending \in BOOLEAN

\* No lost wake-up: while the adapter waits for the chip and is not being
\* called, a pending interrupt has a DIO1 event that process will take, or an
\* edge whose interrupt handler is still to run, although bits set while DIO1
\* was already high gave no edge of their own.
PendingInterruptWakes ==
  (state \in Waiting /\ At("service") /\ chip_irq # {}) =>
    \/ exti_pending
    \/ dio1_produced_count # dio1_consumed_count

\* A frame an initiator is offered passed the chip's checksum: nothing can
\* overwrite it between the interrupt and the copy.  (A responder's can be
\* overwritten; there the CRC-16 of the link packet has to catch it.)
InitiatorFrameIsSound ==
  (role = "initiator" /\ rx_frame_available) => rx_frame = "good"

\* An initiator meets UNEXPECTED_IRQ only when its transmission times out:
\* no interrupt of an operation is ever taken for the next one's.
UnexpectedOnlyAfterTxTimeout ==
  [][UnexpectedIrq /\ role = "initiator" =>
       state = "TX" /\ irq_status = {"RX_TX_TIMEOUT"}]_vars

\* The adapter implements the interface the link service is written against.
Interface == INSTANCE PacketRadio WITH
  frame <- rx_frame_available,
  recovering <- pc \in {"set_standby", "recover_clear_irq_status"}
ImplementsPacketRadio == Interface!Spec

\* A transmission and a timed receive end, and so does a continuous receive
\* whose chip has raised an interrupt.
OperationEnds ==
  (/\ state \in Waiting
   /\ state = "TX" \/ role = "initiator" \/ chip_irq # {})
  ~> state \notin Waiting
=============================================================================
