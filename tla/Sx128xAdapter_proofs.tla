------------------------- MODULE Sx128xAdapter_proofs -------------------------
(***************************************************************************)
(* Proofs about the radio adapter: its types, that no pending interrupt is *)
(* left behind, what an initiator may rely on, and that the adapter        *)
(* implements the interface of the service.                                *)
(***************************************************************************)
EXTENDS Sx128xAdapter, Modular, TLAPS

Processing ==
  {"get_irq_status", "clear_irq_status", "branch", "get_rx_buffer_status",
   "read_buffer", "get_packet_status"}
Capturing == {"get_rx_buffer_status", "read_buffer", "get_packet_status"}
Starting ==
  {"tx_clear_irq_status", "write_buffer", "set_tx",
   "rx_clear_irq_status", "set_rx"}

\* What a call under way may rely on: no event is queued, an operation is
\* started from IDLE, a frame is copied in RX, and there is something to clear.
CallInv ==
  /\ pc # "service" => events = <<>>
  /\ pc \in Processing => state # "ERROR"
  /\ pc \in Capturing => state = "RX"
  /\ pc \in Starting => state = "IDLE"
  /\ pc \in {"clear_irq_status", "branch"} => irq_status # {}

\* A receive runs only while no frame is on offer.
OfferInv ==
  (pc \in {"rx_clear_irq_status", "set_rx"} \/ state = "RX")
    => ~rx_frame_available

Woken == exti_pending \/ dio1_produced_count # dio1_consumed_count

\* From the clearing of the interrupts on, and until process is called, a
\* pending interrupt has a wake-up.
WakeInv ==
  /\ \/ At("service") /\ state \in Waiting
     \/ pc \in {"write_buffer", "set_tx", "set_rx"}
  /\ chip_irq # {}
  => Woken

\* What the chip of an initiator can have raised in an operation.
TxCauses == {{}, {"TX_DONE"}, {"RX_TX_TIMEOUT"}}
RxCauses == {{}, {"RX_DONE"}, {"RX_DONE", "CRC_ERROR"}, {"RX_TX_TIMEOUT"}}

\* An initiator's chip works only for the operation the adapter waits for, and
\* has stopped once it has raised an interrupt.
ChipInv ==
  role = "initiator" =>
    /\ chip_mode # "rx_continuous"
    /\ chip_irq # {} => chip_mode = "standby"
    /\ state = "IDLE" => chip_mode = "standby" /\ chip_irq = {}
    /\ state = "TX" => chip_mode \in {"tx", "standby"} /\ chip_irq \in TxCauses
    /\ state = "RX" => chip_mode \in {"rx", "standby"} /\ chip_irq \in RxCauses
    /\ pc = "clear_irq_status" => irq_status = chip_irq
    /\ pc \in Capturing \union {"branch"} =>
         chip_mode = "standby" /\ chip_irq = {}
    /\ pc = "recover_clear_irq_status" => chip_mode = "standby"
    /\ pc = "branch" =>
         \/ state = "TX" /\ irq_status \in TxCauses
         \/ state = "RX" /\ irq_status \in RxCauses

\* The frame announced to an initiator is the one in its chip's buffer, with
\* the checksum the interrupt spoke of.
FrameInv ==
  role = "initiator" =>
    /\ "RX_DONE" \in chip_irq /\ "CRC_ERROR" \notin chip_irq
         => chip_packet # "bad_crc"
    /\ (pc = "branch" /\ "RX_DONE" \in irq_status
          /\ "CRC_ERROR" \notin irq_status)
         => chip_packet # "bad_crc"
    /\ pc = "get_rx_buffer_status" => chip_packet # "bad_crc"
    /\ pc = "read_buffer" => chip_packet = "good" /\ captured = "good"
    /\ pc = "get_packet_status" => captured = "good"
    /\ rx_frame_available => rx_frame = "good"

IInv == TypeOK /\ CallInv /\ OfferInv /\ WakeInv /\ ChipInv /\ FrameInv

-----------------------------------------------------------------------------
(* Helpers, for a call under way: nothing is queued then.                  *)

\* A failure leaves one event and no frame.
LEMMA ErrorAlone ==
  ASSUME events = <<>>, EnterError
  PROVE  /\ state' = "ERROR"
         /\ rx_frame_available' = FALSE
         /\ events' = <<"DEVICE_ERROR">>
BY DEF EnterError, EventCapacity

\* An operation ends with one event.
LEMMA EventAlone ==
  ASSUME events = <<>>, NEW event, EndOperation(event)
  PROVE  state' = "IDLE" /\ events' = <<event>>
BY DEF EndOperation, EventCapacity

\* The types without the queue of events and the counts.
PartTypes ==
  /\ role \in {"initiator", "responder"}
  /\ state \in {"IDLE", "TX", "RX", "ERROR"}
  /\ rx_frame_available \in BOOLEAN
  /\ rx_frame \in Packets
  /\ irq_status \in SUBSET Interrupts
  /\ captured \in Packets
  /\ chip_mode \in {"standby", "tx", "rx", "rx_continuous"}
  /\ chip_irq \in SUBSET Interrupts
  /\ chip_packet \in Packets
  /\ exti_pending \in BOOLEAN

CommandType == pc \in Commands \union {"service"}

CountTypes ==
  /\ dio1_produced_count \in 0..(CountModulus - 1)
  /\ dio1_consumed_count \in 0..(CountModulus - 1)

EventTypes == {"TX_DONE", "RX_DONE", "CRC_ERROR", "RX_TIMEOUT", "DEVICE_ERROR"}

\* What a step does to the queue of events.
QueueMoves ==
  \/ events' = events
  \/ events' = <<>>
  \/ events # <<>> /\ events' = Tail(events)
  \/ \E event \in EventTypes : events' = <<event>>

\* on_dio1_irq counts within the width.
LEMMA CountInRange ==
  TypeOK => (dio1_produced_count + 1) % CountModulus \in 0..(CountModulus - 1)
<1> HAVE TypeOK
<1>1. dio1_produced_count + 1 \in Nat /\ CountModulus \in Nat \ {0}
  BY CountAssumption DEF TypeOK
<1> QED BY <1>1, ModRange

\* A chip that raises an interrupt leaves a wake-up, or had one before.
LEMMA RaiseWakes ==
  ASSUME NEW bits, Raise(bits)
  PROVE  /\ chip_irq = {} => exti_pending'
         /\ exti_pending => exti_pending'
BY DEF Raise

-----------------------------------------------------------------------------
\* A call under way finds the queue empty, so no step makes it longer than one.
LEMMA QueueStep == CallInv /\ [Next]_vars => QueueMoves
<1> SUFFICES ASSUME CallInv, [Next]_vars
             PROVE  QueueMoves
  OBVIOUS
<1> USE DEF QueueMoves, EventTypes, CallInv, Processing, Capturing, Starting
<1>1. CASE TakeDio1Event
  BY <1>1 DEF TakeDio1Event, At, GoTo, adapterVars, chipVars
<1>2. CASE GetIrqStatus
  BY <1>2, ErrorAlone
     DEF GetIrqStatus, CommandFails, At, GoTo, adapterVars, portVars, chipVars
<1>3. CASE ClearIrqStatus
  BY <1>3, ErrorAlone
     DEF ClearIrqStatus, CommandFails, At, GoTo, Clear, adapterVars, portVars,
         chipVars
<1>4. CASE UnexpectedIrq
  BY <1>4, ErrorAlone
     DEF UnexpectedIrq, At, GoTo, Expected, Cause, portVars, chipVars
<1>5. CASE CrcError
  BY <1>5, EventAlone
     DEF CrcError, At, GoTo, Expected, Cause, portVars, chipVars
<1>6. CASE RxTimeout
  BY <1>6, EventAlone
     DEF RxTimeout, At, GoTo, Expected, Cause, portVars, chipVars
<1>7. CASE TxDone
  BY <1>7, EventAlone
     DEF TxDone, At, GoTo, Expected, Cause, portVars, chipVars
<1>8. CASE RxDone
  BY <1>8
     DEF RxDone, At, GoTo, Expected, Cause, adapterVars, portVars, chipVars
<1>9. CASE GetRxBufferStatus
  BY <1>9, ErrorAlone
     DEF GetRxBufferStatus, CommandFails, At, GoTo, adapterVars, portVars,
         chipVars
<1>10. CASE ReadBuffer
  BY <1>10, ErrorAlone
     DEF ReadBuffer, CommandFails, At, GoTo, adapterVars, portVars, chipVars
<1>11. CASE GetPacketStatus
  BY <1>11, ErrorAlone, EventAlone
     DEF GetPacketStatus, CommandFails, At, GoTo, adapterVars, portVars,
         chipVars
<1>12. CASE TxClearIrqStatus
  BY <1>12, ErrorAlone
     DEF TxClearIrqStatus, ClearAll, CommandFails, At, GoTo, Clear,
         adapterVars, portVars, chipVars
<1>13. CASE WriteBuffer
  BY <1>13, ErrorAlone
     DEF WriteBuffer, CommandFails, At, GoTo, adapterVars, portVars, chipVars
<1>14. CASE SetTx
  BY <1>14, ErrorAlone
     DEF SetTx, SetOperation, CommandFails, At, GoTo, SetMode, adapterVars,
         portVars, chipVars
<1>15. CASE RxClearIrqStatus
  BY <1>15, ErrorAlone
     DEF RxClearIrqStatus, ClearAll, CommandFails, At, GoTo, Clear,
         adapterVars, portVars, chipVars
<1>16. CASE SetRx
  BY <1>16, ErrorAlone
     DEF SetRx, SetOperation, RxMode, CommandFails, At, GoTo, SetMode,
         adapterVars, portVars, chipVars
<1>17. CASE SetStandby
  BY <1>17, ErrorAlone
     DEF SetStandby, CommandFails, At, GoTo, SetMode, adapterVars, portVars,
         chipVars
<1>18. CASE RecoverClearIrqStatus
  BY <1>18, ErrorAlone
     DEF RecoverClearIrqStatus, CommandFails, At, GoTo, Clear, adapterVars,
         portVars, chipVars
<1>19. CASE StartTx
  BY <1>19 DEF StartTx, At, GoTo, adapterVars, portVars, chipVars
<1>20. CASE StartRx
  BY <1>20 DEF StartRx, At, GoTo, adapterVars, portVars, chipVars
<1>21. CASE Recover
  BY <1>21 DEF Recover, At, GoTo, portVars, chipVars
<1>22. CASE TakeEvent
  BY <1>22 DEF TakeEvent, At, callVars, portVars, chipVars
<1>23. CASE ReadRxFrame
  BY <1>23 DEF ReadRxFrame, At, callVars, portVars, chipVars
<1>24. CASE ChipTxDone
  BY <1>24 DEF ChipTxDone, Raise, adapterVars, callVars, portVars
<1>25. CASE ChipTimeout
  BY <1>25 DEF ChipTimeout, Raise, adapterVars, callVars, portVars
<1>26. ASSUME NEW packet \in Packets, ChipReceives(packet)
      PROVE  QueueMoves
  BY <1>26 DEF ChipReceives, Raise, adapterVars, callVars, portVars
<1>27. CASE Dio1Irq
  BY <1>27 DEF Dio1Irq, NoFullCycle, adapterVars, callVars
<1>28. CASE UNCHANGED vars
  BY <1>28 DEF vars, adapterVars, callVars, portVars, chipVars, At
<1> QED
  BY <1>1, <1>2, <1>3, <1>4, <1>5, <1>6, <1>7, <1>8, <1>9, <1>10, <1>11,
     <1>12, <1>13, <1>14, <1>15, <1>16, <1>17, <1>18, <1>19, <1>20, <1>21,
     <1>22, <1>23, <1>24, <1>25, <1>26, <1>27, <1>28
     DEF Next, Process, FinishStart, FinishRecover, Chip

\* The queue never holds more than one event.
LEMMA QueueKept ==
  ASSUME TypeOK, CallInv, [Next]_vars
  PROVE  events' \in Seq(EventTypes) /\ Len(events') <= 1
<1>1. QueueMoves
  BY QueueStep
<1>2. events \in Seq(EventTypes) /\ Len(events) <= 1
  BY DEF TypeOK, EventTypes
<1> HIDE DEF EventTypes
<1>3. CASE events' = events
  BY <1>2, <1>3
<1>4. CASE events' = <<>>
  BY <1>4
<1>5. CASE events # <<>> /\ events' = Tail(events)
  BY <1>2, <1>5
<1>6. ASSUME NEW event \in EventTypes, events' = <<event>>
      PROVE  events' \in Seq(EventTypes) /\ Len(events') <= 1
  BY <1>6
<1> QED
  BY <1>1, <1>3, <1>4, <1>5, <1>6 DEF QueueMoves

\* A call goes from command to command.
LEMMA CommandKept ==
  CallInv /\ CommandType /\ [Next]_vars => CommandType'
<1> SUFFICES ASSUME CallInv /\ CommandType, [Next]_vars
             PROVE  CommandType'
  OBVIOUS
<1> USE DEF CommandType, Commands, CallInv, Processing, Starting
<1>1. CASE TakeDio1Event
  BY <1>1 DEF TakeDio1Event, At, GoTo, adapterVars, chipVars
<1>2. CASE GetIrqStatus
  BY <1>2, ErrorAlone
     DEF GetIrqStatus, CommandFails, At, GoTo, adapterVars, portVars, chipVars
<1>3. CASE ClearIrqStatus
  BY <1>3, ErrorAlone
     DEF ClearIrqStatus, CommandFails, At, GoTo, Clear, adapterVars, portVars,
         chipVars
<1>4. CASE UnexpectedIrq
  BY <1>4, ErrorAlone
     DEF UnexpectedIrq, At, GoTo, Expected, Cause, portVars, chipVars
<1>5. CASE CrcError
  BY <1>5, EventAlone
     DEF CrcError, At, GoTo, Expected, Cause, portVars, chipVars
<1>6. CASE RxTimeout
  BY <1>6, EventAlone
     DEF RxTimeout, At, GoTo, Expected, Cause, portVars, chipVars
<1>7. CASE TxDone
  BY <1>7, EventAlone
     DEF TxDone, At, GoTo, Expected, Cause, portVars, chipVars
<1>8. CASE RxDone
  BY <1>8
     DEF RxDone, At, GoTo, Expected, Cause, adapterVars, portVars, chipVars
<1>9. CASE GetRxBufferStatus
  BY <1>9, ErrorAlone
     DEF GetRxBufferStatus, CommandFails, At, GoTo, adapterVars, portVars,
         chipVars
<1>10. CASE ReadBuffer
  BY <1>10, ErrorAlone
     DEF ReadBuffer, CommandFails, At, GoTo, adapterVars, portVars, chipVars
<1>11. CASE GetPacketStatus
  BY <1>11, ErrorAlone, EventAlone
     DEF GetPacketStatus, CommandFails, At, GoTo, adapterVars, portVars,
         chipVars
<1>12. CASE TxClearIrqStatus
  BY <1>12, ErrorAlone
     DEF TxClearIrqStatus, ClearAll, CommandFails, At, GoTo, Clear,
         adapterVars, portVars, chipVars
<1>13. CASE WriteBuffer
  BY <1>13, ErrorAlone
     DEF WriteBuffer, CommandFails, At, GoTo, adapterVars, portVars, chipVars
<1>14. CASE SetTx
  BY <1>14, ErrorAlone
     DEF SetTx, SetOperation, CommandFails, At, GoTo, SetMode, adapterVars,
         portVars, chipVars
<1>15. CASE RxClearIrqStatus
  BY <1>15, ErrorAlone
     DEF RxClearIrqStatus, ClearAll, CommandFails, At, GoTo, Clear,
         adapterVars, portVars, chipVars
<1>16. CASE SetRx
  BY <1>16, ErrorAlone
     DEF SetRx, SetOperation, RxMode, CommandFails, At, GoTo, SetMode,
         adapterVars, portVars, chipVars
<1>17. CASE SetStandby
  BY <1>17, ErrorAlone
     DEF SetStandby, CommandFails, At, GoTo, SetMode, adapterVars, portVars,
         chipVars
<1>18. CASE RecoverClearIrqStatus
  BY <1>18, ErrorAlone
     DEF RecoverClearIrqStatus, CommandFails, At, GoTo, Clear, adapterVars,
         portVars, chipVars
<1>19. CASE StartTx
  BY <1>19 DEF StartTx, At, GoTo, adapterVars, portVars, chipVars
<1>20. CASE StartRx
  BY <1>20 DEF StartRx, At, GoTo, adapterVars, portVars, chipVars
<1>21. CASE Recover
  BY <1>21 DEF Recover, At, GoTo, portVars, chipVars
<1>22. CASE TakeEvent
  BY <1>22 DEF TakeEvent, At, callVars, portVars, chipVars
<1>23. CASE ReadRxFrame
  BY <1>23 DEF ReadRxFrame, At, callVars, portVars, chipVars
<1>24. CASE ChipTxDone
  BY <1>24 DEF ChipTxDone, Raise, adapterVars, callVars, portVars
<1>25. CASE ChipTimeout
  BY <1>25 DEF ChipTimeout, Raise, adapterVars, callVars, portVars
<1>26. ASSUME NEW packet \in Packets, ChipReceives(packet)
      PROVE  CommandType'
  BY <1>26 DEF ChipReceives, Raise, adapterVars, callVars, portVars
<1>27. CASE Dio1Irq
  BY <1>27 DEF Dio1Irq, NoFullCycle, adapterVars, callVars
<1>28. CASE UNCHANGED vars
  BY <1>28 DEF vars, adapterVars, callVars, portVars, chipVars, At
<1> QED
  BY <1>1, <1>2, <1>3, <1>4, <1>5, <1>6, <1>7, <1>8, <1>9, <1>10, <1>11,
     <1>12, <1>13, <1>14, <1>15, <1>16, <1>17, <1>18, <1>19, <1>20, <1>21,
     <1>22, <1>23, <1>24, <1>25, <1>26, <1>27, <1>28
     DEF Next, Process, FinishStart, FinishRecover, Chip

\* The counts stay within their width.
LEMMA CountsKept ==
  TypeOK /\ CallInv /\ CountTypes /\ [Next]_vars => CountTypes'
<1> SUFFICES ASSUME TypeOK /\ CallInv /\ CountTypes, [Next]_vars
             PROVE  CountTypes'
  OBVIOUS
<1> USE DEF CountTypes, CallInv, Processing, Starting
<1>1. CASE TakeDio1Event
  BY <1>1 DEF TakeDio1Event, At, GoTo, adapterVars, chipVars
<1>2. CASE GetIrqStatus
  BY <1>2, ErrorAlone
     DEF GetIrqStatus, CommandFails, At, GoTo, adapterVars, portVars, chipVars
<1>3. CASE ClearIrqStatus
  BY <1>3, ErrorAlone
     DEF ClearIrqStatus, CommandFails, At, GoTo, Clear, adapterVars, portVars,
         chipVars
<1>4. CASE UnexpectedIrq
  BY <1>4, ErrorAlone
     DEF UnexpectedIrq, At, GoTo, Expected, Cause, portVars, chipVars
<1>5. CASE CrcError
  BY <1>5, EventAlone
     DEF CrcError, At, GoTo, Expected, Cause, portVars, chipVars
<1>6. CASE RxTimeout
  BY <1>6, EventAlone
     DEF RxTimeout, At, GoTo, Expected, Cause, portVars, chipVars
<1>7. CASE TxDone
  BY <1>7, EventAlone
     DEF TxDone, At, GoTo, Expected, Cause, portVars, chipVars
<1>8. CASE RxDone
  BY <1>8
     DEF RxDone, At, GoTo, Expected, Cause, adapterVars, portVars, chipVars
<1>9. CASE GetRxBufferStatus
  BY <1>9, ErrorAlone
     DEF GetRxBufferStatus, CommandFails, At, GoTo, adapterVars, portVars,
         chipVars
<1>10. CASE ReadBuffer
  BY <1>10, ErrorAlone
     DEF ReadBuffer, CommandFails, At, GoTo, adapterVars, portVars, chipVars
<1>11. CASE GetPacketStatus
  BY <1>11, ErrorAlone, EventAlone
     DEF GetPacketStatus, CommandFails, At, GoTo, adapterVars, portVars,
         chipVars
<1>12. CASE TxClearIrqStatus
  BY <1>12, ErrorAlone
     DEF TxClearIrqStatus, ClearAll, CommandFails, At, GoTo, Clear,
         adapterVars, portVars, chipVars
<1>13. CASE WriteBuffer
  BY <1>13, ErrorAlone
     DEF WriteBuffer, CommandFails, At, GoTo, adapterVars, portVars, chipVars
<1>14. CASE SetTx
  BY <1>14, ErrorAlone
     DEF SetTx, SetOperation, CommandFails, At, GoTo, SetMode, adapterVars,
         portVars, chipVars
<1>15. CASE RxClearIrqStatus
  BY <1>15, ErrorAlone
     DEF RxClearIrqStatus, ClearAll, CommandFails, At, GoTo, Clear,
         adapterVars, portVars, chipVars
<1>16. CASE SetRx
  BY <1>16, ErrorAlone
     DEF SetRx, SetOperation, RxMode, CommandFails, At, GoTo, SetMode,
         adapterVars, portVars, chipVars
<1>17. CASE SetStandby
  BY <1>17, ErrorAlone
     DEF SetStandby, CommandFails, At, GoTo, SetMode, adapterVars, portVars,
         chipVars
<1>18. CASE RecoverClearIrqStatus
  BY <1>18, ErrorAlone
     DEF RecoverClearIrqStatus, CommandFails, At, GoTo, Clear, adapterVars,
         portVars, chipVars
<1>19. CASE StartTx
  BY <1>19 DEF StartTx, At, GoTo, adapterVars, portVars, chipVars
<1>20. CASE StartRx
  BY <1>20 DEF StartRx, At, GoTo, adapterVars, portVars, chipVars
<1>21. CASE Recover
  BY <1>21 DEF Recover, At, GoTo, portVars, chipVars
<1>22. CASE TakeEvent
  BY <1>22 DEF TakeEvent, At, callVars, portVars, chipVars
<1>23. CASE ReadRxFrame
  BY <1>23 DEF ReadRxFrame, At, callVars, portVars, chipVars
<1>24. CASE ChipTxDone
  BY <1>24 DEF ChipTxDone, Raise, adapterVars, callVars, portVars
<1>25. CASE ChipTimeout
  BY <1>25 DEF ChipTimeout, Raise, adapterVars, callVars, portVars
<1>26. ASSUME NEW packet \in Packets, ChipReceives(packet)
      PROVE  CountTypes'
  BY <1>26 DEF ChipReceives, Raise, adapterVars, callVars, portVars
<1>27. CASE Dio1Irq
  BY <1>27, CountInRange DEF Dio1Irq, NoFullCycle, adapterVars, callVars
<1>28. CASE UNCHANGED vars
  BY <1>28 DEF vars, adapterVars, callVars, portVars, chipVars, At
<1> QED
  BY <1>1, <1>2, <1>3, <1>4, <1>5, <1>6, <1>7, <1>8, <1>9, <1>10, <1>11,
     <1>12, <1>13, <1>14, <1>15, <1>16, <1>17, <1>18, <1>19, <1>20, <1>21,
     <1>22, <1>23, <1>24, <1>25, <1>26, <1>27, <1>28
     DEF Next, Process, FinishStart, FinishRecover, Chip

\* The other types, which only the chip and the two ends of a call change.
LEMMA PartsKept ==
  CallInv /\ PartTypes /\ [Next]_vars => PartTypes'
<1> SUFFICES ASSUME CallInv /\ PartTypes, [Next]_vars
             PROVE  PartTypes'
  OBVIOUS
<1> USE DEF PartTypes, CallInv, Processing, Starting
<1>1. CASE TakeDio1Event
  BY <1>1 DEF TakeDio1Event, At, GoTo, adapterVars, chipVars
<1>2. CASE GetIrqStatus
  BY <1>2, ErrorAlone
     DEF GetIrqStatus, CommandFails, At, GoTo, adapterVars, portVars, chipVars
<1>3. CASE ClearIrqStatus
  BY <1>3, ErrorAlone
     DEF ClearIrqStatus, CommandFails, At, GoTo, Clear, adapterVars, portVars,
         chipVars
<1>4. CASE UnexpectedIrq
  BY <1>4, ErrorAlone
     DEF UnexpectedIrq, At, GoTo, Expected, Cause, portVars, chipVars
<1>5. CASE CrcError
  BY <1>5, EventAlone
     DEF CrcError, At, GoTo, Expected, Cause, portVars, chipVars
<1>6. CASE RxTimeout
  BY <1>6, EventAlone
     DEF RxTimeout, At, GoTo, Expected, Cause, portVars, chipVars
<1>7. CASE TxDone
  BY <1>7, EventAlone
     DEF TxDone, At, GoTo, Expected, Cause, portVars, chipVars
<1>8. CASE RxDone
  BY <1>8
     DEF RxDone, At, GoTo, Expected, Cause, adapterVars, portVars, chipVars
<1>9. CASE GetRxBufferStatus
  BY <1>9, ErrorAlone
     DEF GetRxBufferStatus, CommandFails, At, GoTo, adapterVars, portVars,
         chipVars
<1>10. CASE ReadBuffer
  BY <1>10, ErrorAlone
     DEF ReadBuffer, CommandFails, At, GoTo, adapterVars, portVars, chipVars
<1>11. CASE GetPacketStatus
  BY <1>11, ErrorAlone, EventAlone
     DEF GetPacketStatus, CommandFails, At, GoTo, adapterVars, portVars,
         chipVars
<1>12. CASE TxClearIrqStatus
  BY <1>12, ErrorAlone
     DEF TxClearIrqStatus, ClearAll, CommandFails, At, GoTo, Clear,
         adapterVars, portVars, chipVars
<1>13. CASE WriteBuffer
  BY <1>13, ErrorAlone
     DEF WriteBuffer, CommandFails, At, GoTo, adapterVars, portVars, chipVars
<1>14. CASE SetTx
  BY <1>14, ErrorAlone
     DEF SetTx, SetOperation, CommandFails, At, GoTo, SetMode, adapterVars,
         portVars, chipVars
<1>15. CASE RxClearIrqStatus
  BY <1>15, ErrorAlone
     DEF RxClearIrqStatus, ClearAll, CommandFails, At, GoTo, Clear,
         adapterVars, portVars, chipVars
<1>16. CASE SetRx
  BY <1>16, ErrorAlone
     DEF SetRx, SetOperation, RxMode, CommandFails, At, GoTo, SetMode,
         adapterVars, portVars, chipVars
<1>17. CASE SetStandby
  BY <1>17, ErrorAlone
     DEF SetStandby, CommandFails, At, GoTo, SetMode, adapterVars, portVars,
         chipVars
<1>18. CASE RecoverClearIrqStatus
  BY <1>18, ErrorAlone
     DEF RecoverClearIrqStatus, CommandFails, At, GoTo, Clear, adapterVars,
         portVars, chipVars
<1>19. CASE StartTx
  BY <1>19 DEF StartTx, At, GoTo, adapterVars, portVars, chipVars
<1>20. CASE StartRx
  BY <1>20 DEF StartRx, At, GoTo, adapterVars, portVars, chipVars
<1>21. CASE Recover
  BY <1>21 DEF Recover, At, GoTo, portVars, chipVars
<1>22. CASE TakeEvent
  BY <1>22 DEF TakeEvent, At, callVars, portVars, chipVars
<1>23. CASE ReadRxFrame
  BY <1>23 DEF ReadRxFrame, At, callVars, portVars, chipVars
<1>24. CASE ChipTxDone
  BY <1>24 DEF ChipTxDone, Raise, adapterVars, callVars, portVars, Interrupts
<1>25. CASE ChipTimeout
  BY <1>25 DEF ChipTimeout, Raise, adapterVars, callVars, portVars, Interrupts
<1>26. ASSUME NEW packet \in Packets, ChipReceives(packet)
      PROVE  PartTypes'
  BY <1>26
     DEF ChipReceives, Raise, adapterVars, callVars, portVars, Interrupts
<1>27. CASE Dio1Irq
  BY <1>27 DEF Dio1Irq, NoFullCycle, adapterVars, callVars
<1>28. CASE UNCHANGED vars
  BY <1>28 DEF vars, adapterVars, callVars, portVars, chipVars, At
<1> QED
  BY <1>1, <1>2, <1>3, <1>4, <1>5, <1>6, <1>7, <1>8, <1>9, <1>10, <1>11,
     <1>12, <1>13, <1>14, <1>15, <1>16, <1>17, <1>18, <1>19, <1>20, <1>21,
     <1>22, <1>23, <1>24, <1>25, <1>26, <1>27, <1>28
     DEF Next, Process, FinishStart, FinishRecover, Chip

\* Types.
LEMMA TypesKept ==
  TypeOK /\ CallInv /\ [Next]_vars => TypeOK'
<1> SUFFICES ASSUME TypeOK /\ CallInv, [Next]_vars
             PROVE  TypeOK'
  OBVIOUS
<1>1. PartTypes /\ CommandType /\ CountTypes
  BY DEF TypeOK, PartTypes, CommandType, CountTypes
<1>2. PartTypes' /\ CommandType' /\ CountTypes'
  BY <1>1, PartsKept, CommandKept, CountsKept
<1>3. events' \in Seq(EventTypes) /\ Len(events') <= 1
  BY QueueKept
<1> QED
  BY <1>2, <1>3 DEF TypeOK, PartTypes, CommandType, CountTypes, EventTypes

\* A call under way keeps what it was started with.
LEMMA CallKept ==
  TypeOK /\ CallInv /\ [Next]_vars => CallInv'
<1> SUFFICES ASSUME TypeOK /\ CallInv, [Next]_vars
             PROVE  CallInv'
  OBVIOUS
<1> USE DEF TypeOK, CallInv, Processing, Capturing, Starting, Packets,
            Interrupts, Commands
<1>1. CASE TakeDio1Event
  BY <1>1 DEF TakeDio1Event, At, GoTo, adapterVars, chipVars
<1>2. CASE GetIrqStatus
  BY <1>2, ErrorAlone
     DEF GetIrqStatus, CommandFails, At, GoTo, adapterVars, portVars, chipVars
<1>3. CASE ClearIrqStatus
  BY <1>3, ErrorAlone
     DEF ClearIrqStatus, CommandFails, At, GoTo, Clear, adapterVars, portVars,
         chipVars
<1>4. CASE UnexpectedIrq
  BY <1>4, ErrorAlone
     DEF UnexpectedIrq, At, GoTo, Expected, Cause, portVars, chipVars
<1>5. CASE CrcError
  BY <1>5, EventAlone
     DEF CrcError, At, GoTo, Expected, Cause, portVars, chipVars
<1>6. CASE RxTimeout
  BY <1>6, EventAlone
     DEF RxTimeout, At, GoTo, Expected, Cause, portVars, chipVars
<1>7. CASE TxDone
  BY <1>7, EventAlone
     DEF TxDone, At, GoTo, Expected, Cause, portVars, chipVars
<1>8. CASE RxDone
  BY <1>8
     DEF RxDone, At, GoTo, Expected, Cause, adapterVars, portVars, chipVars
<1>9. CASE GetRxBufferStatus
  BY <1>9, ErrorAlone
     DEF GetRxBufferStatus, CommandFails, At, GoTo, adapterVars, portVars,
         chipVars
<1>10. CASE ReadBuffer
  BY <1>10, ErrorAlone
     DEF ReadBuffer, CommandFails, At, GoTo, adapterVars, portVars, chipVars
<1>11. CASE GetPacketStatus
  BY <1>11, ErrorAlone, EventAlone
     DEF GetPacketStatus, CommandFails, At, GoTo, adapterVars, portVars,
         chipVars
<1>12. CASE TxClearIrqStatus
  BY <1>12, ErrorAlone
     DEF TxClearIrqStatus, ClearAll, CommandFails, At, GoTo, Clear,
         adapterVars, portVars, chipVars
<1>13. CASE WriteBuffer
  BY <1>13, ErrorAlone
     DEF WriteBuffer, CommandFails, At, GoTo, adapterVars, portVars, chipVars
<1>14. CASE SetTx
  BY <1>14, ErrorAlone
     DEF SetTx, SetOperation, CommandFails, At, GoTo, SetMode, adapterVars,
         portVars, chipVars
<1>15. CASE RxClearIrqStatus
  BY <1>15, ErrorAlone
     DEF RxClearIrqStatus, ClearAll, CommandFails, At, GoTo, Clear,
         adapterVars, portVars, chipVars
<1>16. CASE SetRx
  BY <1>16, ErrorAlone
     DEF SetRx, SetOperation, RxMode, CommandFails, At, GoTo, SetMode,
         adapterVars, portVars, chipVars
<1>17. CASE SetStandby
  BY <1>17, ErrorAlone
     DEF SetStandby, CommandFails, At, GoTo, SetMode, adapterVars, portVars,
         chipVars
<1>18. CASE RecoverClearIrqStatus
  BY <1>18, ErrorAlone
     DEF RecoverClearIrqStatus, CommandFails, At, GoTo, Clear, adapterVars,
         portVars, chipVars
<1>19. CASE StartTx
  BY <1>19 DEF StartTx, At, GoTo, adapterVars, portVars, chipVars
<1>20. CASE StartRx
  BY <1>20 DEF StartRx, At, GoTo, adapterVars, portVars, chipVars
<1>21. CASE Recover
  BY <1>21 DEF Recover, At, GoTo, portVars, chipVars
<1>22. CASE TakeEvent
  BY <1>22 DEF TakeEvent, At, callVars, portVars, chipVars
<1>23. CASE ReadRxFrame
  BY <1>23 DEF ReadRxFrame, At, callVars, portVars, chipVars
<1>24. CASE ChipTxDone
  BY <1>24 DEF ChipTxDone, Raise, adapterVars, callVars, portVars
<1>25. CASE ChipTimeout
  BY <1>25 DEF ChipTimeout, Raise, adapterVars, callVars, portVars
<1>26. ASSUME NEW packet \in Packets, ChipReceives(packet)
      PROVE  CallInv'
  BY <1>26 DEF ChipReceives, Raise, adapterVars, callVars, portVars
<1>27. CASE Dio1Irq
  BY <1>27 DEF Dio1Irq, NoFullCycle, adapterVars, callVars
<1>28. CASE UNCHANGED vars
  BY <1>28 DEF vars, adapterVars, callVars, portVars, chipVars, At
<1> QED
  BY <1>1, <1>2, <1>3, <1>4, <1>5, <1>6, <1>7, <1>8, <1>9, <1>10, <1>11,
     <1>12, <1>13, <1>14, <1>15, <1>16, <1>17, <1>18, <1>19, <1>20, <1>21,
     <1>22, <1>23, <1>24, <1>25, <1>26, <1>27, <1>28
     DEF Next, Process, FinishStart, FinishRecover, Chip

\* A receive starts without a frame on offer, and only its end offers one.
LEMMA OfferKept ==
  CallInv /\ OfferInv /\ [Next]_vars => OfferInv'
<1> SUFFICES ASSUME CallInv /\ OfferInv, [Next]_vars
             PROVE  OfferInv'
  OBVIOUS
<1> USE DEF CallInv, OfferInv, Processing, Capturing, Starting
<1>1. CASE TakeDio1Event
  BY <1>1 DEF TakeDio1Event, At, GoTo, adapterVars, chipVars
<1>2. CASE GetIrqStatus
  BY <1>2, ErrorAlone
     DEF GetIrqStatus, CommandFails, At, GoTo, adapterVars, portVars, chipVars
<1>3. CASE ClearIrqStatus
  BY <1>3, ErrorAlone
     DEF ClearIrqStatus, CommandFails, At, GoTo, Clear, adapterVars, portVars,
         chipVars
<1>4. CASE UnexpectedIrq
  BY <1>4, ErrorAlone
     DEF UnexpectedIrq, At, GoTo, Expected, Cause, portVars, chipVars
<1>5. CASE CrcError
  BY <1>5, EventAlone
     DEF CrcError, At, GoTo, Expected, Cause, portVars, chipVars
<1>6. CASE RxTimeout
  BY <1>6, EventAlone
     DEF RxTimeout, At, GoTo, Expected, Cause, portVars, chipVars
<1>7. CASE TxDone
  BY <1>7, EventAlone
     DEF TxDone, At, GoTo, Expected, Cause, portVars, chipVars
<1>8. CASE RxDone
  BY <1>8
     DEF RxDone, At, GoTo, Expected, Cause, adapterVars, portVars, chipVars
<1>9. CASE GetRxBufferStatus
  BY <1>9, ErrorAlone
     DEF GetRxBufferStatus, CommandFails, At, GoTo, adapterVars, portVars,
         chipVars
<1>10. CASE ReadBuffer
  BY <1>10, ErrorAlone
     DEF ReadBuffer, CommandFails, At, GoTo, adapterVars, portVars, chipVars
<1>11. CASE GetPacketStatus
  BY <1>11, ErrorAlone, EventAlone
     DEF GetPacketStatus, CommandFails, At, GoTo, adapterVars, portVars,
         chipVars
<1>12. CASE TxClearIrqStatus
  BY <1>12, ErrorAlone
     DEF TxClearIrqStatus, ClearAll, CommandFails, At, GoTo, Clear,
         adapterVars, portVars, chipVars
<1>13. CASE WriteBuffer
  BY <1>13, ErrorAlone
     DEF WriteBuffer, CommandFails, At, GoTo, adapterVars, portVars, chipVars
<1>14. CASE SetTx
  BY <1>14, ErrorAlone
     DEF SetTx, SetOperation, CommandFails, At, GoTo, SetMode, adapterVars,
         portVars, chipVars
<1>15. CASE RxClearIrqStatus
  BY <1>15, ErrorAlone
     DEF RxClearIrqStatus, ClearAll, CommandFails, At, GoTo, Clear,
         adapterVars, portVars, chipVars
<1>16. CASE SetRx
  BY <1>16, ErrorAlone
     DEF SetRx, SetOperation, RxMode, CommandFails, At, GoTo, SetMode,
         adapterVars, portVars, chipVars
<1>17. CASE SetStandby
  BY <1>17, ErrorAlone
     DEF SetStandby, CommandFails, At, GoTo, SetMode, adapterVars, portVars,
         chipVars
<1>18. CASE RecoverClearIrqStatus
  BY <1>18, ErrorAlone
     DEF RecoverClearIrqStatus, CommandFails, At, GoTo, Clear, adapterVars,
         portVars, chipVars
<1>19. CASE StartTx
  BY <1>19 DEF StartTx, At, GoTo, adapterVars, portVars, chipVars
<1>20. CASE StartRx
  BY <1>20 DEF StartRx, At, GoTo, adapterVars, portVars, chipVars
<1>21. CASE Recover
  BY <1>21 DEF Recover, At, GoTo, portVars, chipVars
<1>22. CASE TakeEvent
  BY <1>22 DEF TakeEvent, At, callVars, portVars, chipVars
<1>23. CASE ReadRxFrame
  BY <1>23 DEF ReadRxFrame, At, callVars, portVars, chipVars
<1>24. CASE ChipTxDone
  BY <1>24 DEF ChipTxDone, Raise, adapterVars, callVars, portVars
<1>25. CASE ChipTimeout
  BY <1>25 DEF ChipTimeout, Raise, adapterVars, callVars, portVars
<1>26. ASSUME NEW packet \in Packets, ChipReceives(packet)
      PROVE  OfferInv'
  BY <1>26 DEF ChipReceives, Raise, adapterVars, callVars, portVars
<1>27. CASE Dio1Irq
  BY <1>27 DEF Dio1Irq, NoFullCycle, adapterVars, callVars
<1>28. CASE UNCHANGED vars
  BY <1>28 DEF vars, adapterVars, callVars, portVars, chipVars, At
<1> QED
  BY <1>1, <1>2, <1>3, <1>4, <1>5, <1>6, <1>7, <1>8, <1>9, <1>10, <1>11,
     <1>12, <1>13, <1>14, <1>15, <1>16, <1>17, <1>18, <1>19, <1>20, <1>21,
     <1>22, <1>23, <1>24, <1>25, <1>26, <1>27, <1>28
     DEF Next, Process, FinishStart, FinishRecover, Chip

\* Whoever raises the first interrupt raises the edge, too.
LEMMA WakeKept ==
  TypeOK /\ CallInv /\ WakeInv /\ [Next]_vars => WakeInv'
<1> SUFFICES ASSUME TypeOK /\ CallInv /\ WakeInv, [Next]_vars
             PROVE  WakeInv'
  OBVIOUS
<1> USE DEF TypeOK, CallInv, WakeInv, Interrupts, Woken, Processing,
            Capturing, Starting, Waiting, At
<1>1. CASE TakeDio1Event
  BY <1>1 DEF TakeDio1Event, At, GoTo, adapterVars, chipVars
<1>2. CASE GetIrqStatus
  BY <1>2, ErrorAlone
     DEF GetIrqStatus, CommandFails, At, GoTo, adapterVars, portVars, chipVars
<1>3. CASE ClearIrqStatus
  BY <1>3, ErrorAlone
     DEF ClearIrqStatus, CommandFails, At, GoTo, Clear, adapterVars, portVars,
         chipVars
<1>4. CASE UnexpectedIrq
  BY <1>4, ErrorAlone
     DEF UnexpectedIrq, At, GoTo, Expected, Cause, portVars, chipVars
<1>5. CASE CrcError
  BY <1>5, EventAlone
     DEF CrcError, At, GoTo, Expected, Cause, portVars, chipVars
<1>6. CASE RxTimeout
  BY <1>6, EventAlone
     DEF RxTimeout, At, GoTo, Expected, Cause, portVars, chipVars
<1>7. CASE TxDone
  BY <1>7, EventAlone
     DEF TxDone, At, GoTo, Expected, Cause, portVars, chipVars
<1>8. CASE RxDone
  BY <1>8
     DEF RxDone, At, GoTo, Expected, Cause, adapterVars, portVars, chipVars
<1>9. CASE GetRxBufferStatus
  BY <1>9, ErrorAlone
     DEF GetRxBufferStatus, CommandFails, At, GoTo, adapterVars, portVars,
         chipVars
<1>10. CASE ReadBuffer
  BY <1>10, ErrorAlone
     DEF ReadBuffer, CommandFails, At, GoTo, adapterVars, portVars, chipVars
<1>11. CASE GetPacketStatus
  BY <1>11, ErrorAlone, EventAlone
     DEF GetPacketStatus, CommandFails, At, GoTo, adapterVars, portVars,
         chipVars
<1>12. CASE TxClearIrqStatus
  BY <1>12, ErrorAlone
     DEF TxClearIrqStatus, ClearAll, CommandFails, At, GoTo, Clear,
         adapterVars, portVars, chipVars
<1>13. CASE WriteBuffer
  BY <1>13, ErrorAlone
     DEF WriteBuffer, CommandFails, At, GoTo, adapterVars, portVars, chipVars
<1>14. CASE SetTx
  BY <1>14, ErrorAlone
     DEF SetTx, SetOperation, CommandFails, At, GoTo, SetMode, adapterVars,
         portVars, chipVars
<1>15. CASE RxClearIrqStatus
  BY <1>15, ErrorAlone
     DEF RxClearIrqStatus, ClearAll, CommandFails, At, GoTo, Clear,
         adapterVars, portVars, chipVars
<1>16. CASE SetRx
  BY <1>16, ErrorAlone
     DEF SetRx, SetOperation, RxMode, CommandFails, At, GoTo, SetMode,
         adapterVars, portVars, chipVars
<1>17. CASE SetStandby
  BY <1>17, ErrorAlone
     DEF SetStandby, CommandFails, At, GoTo, SetMode, adapterVars, portVars,
         chipVars
<1>18. CASE RecoverClearIrqStatus
  BY <1>18, ErrorAlone
     DEF RecoverClearIrqStatus, CommandFails, At, GoTo, Clear, adapterVars,
         portVars, chipVars
<1>19. CASE StartTx
  BY <1>19 DEF StartTx, At, GoTo, adapterVars, portVars, chipVars
<1>20. CASE StartRx
  BY <1>20 DEF StartRx, At, GoTo, adapterVars, portVars, chipVars
<1>21. CASE Recover
  BY <1>21 DEF Recover, At, GoTo, portVars, chipVars
<1>22. CASE TakeEvent
  BY <1>22 DEF TakeEvent, At, callVars, portVars, chipVars
<1>23. CASE ReadRxFrame
  BY <1>23 DEF ReadRxFrame, At, callVars, portVars, chipVars
<1>24. CASE ChipTxDone
  <2>1. chip_irq = {} => exti_pending'
    BY <1>24, RaiseWakes DEF ChipTxDone
  <2>2. exti_pending => exti_pending'
    BY <1>24, RaiseWakes DEF ChipTxDone
  <2>3. UNCHANGED <<pc, state, dio1_produced_count, dio1_consumed_count>>
    BY <1>24 DEF ChipTxDone, Raise, adapterVars, callVars, portVars
  <2> QED BY <2>1, <2>2, <2>3
<1>25. CASE ChipTimeout
  <2>1. chip_irq = {} => exti_pending'
    BY <1>25, RaiseWakes DEF ChipTimeout
  <2>2. exti_pending => exti_pending'
    BY <1>25, RaiseWakes DEF ChipTimeout
  <2>3. UNCHANGED <<pc, state, dio1_produced_count, dio1_consumed_count>>
    BY <1>25 DEF ChipTimeout, Raise, adapterVars, callVars, portVars
  <2> QED BY <2>1, <2>2, <2>3
<1>26. ASSUME NEW packet \in Packets, ChipReceives(packet)
      PROVE  WakeInv'
  <2>1. chip_irq = {} => exti_pending'
    BY <1>26, RaiseWakes DEF ChipReceives
  <2>2. exti_pending => exti_pending'
    BY <1>26, RaiseWakes DEF ChipReceives
  <2>3. UNCHANGED <<pc, state, dio1_produced_count, dio1_consumed_count>>
    BY <1>26 DEF ChipReceives, Raise, adapterVars, callVars, portVars
  <2> QED BY <2>1, <2>2, <2>3
<1>27. CASE Dio1Irq
  BY <1>27 DEF Dio1Irq, NoFullCycle, adapterVars, callVars
<1>28. CASE UNCHANGED vars
  BY <1>28 DEF vars, adapterVars, callVars, portVars, chipVars, At
<1> QED
  BY <1>1, <1>2, <1>3, <1>4, <1>5, <1>6, <1>7, <1>8, <1>9, <1>10, <1>11,
     <1>12, <1>13, <1>14, <1>15, <1>16, <1>17, <1>18, <1>19, <1>20, <1>21,
     <1>22, <1>23, <1>24, <1>25, <1>26, <1>27, <1>28
     DEF Next, Process, FinishStart, FinishRecover, Chip

\* The chip of an initiator stops with its first interrupt.
LEMMA ChipKept ==
  TypeOK /\ CallInv /\ ChipInv /\ [Next]_vars => ChipInv'
<1> SUFFICES ASSUME TypeOK /\ CallInv /\ ChipInv, [Next]_vars
             PROVE  ChipInv'
  OBVIOUS
<1> USE DEF TypeOK, CallInv, ChipInv, TxCauses, RxCauses, Processing,
            Capturing, Starting, Interrupts, Packets, Commands
<1>1. CASE TakeDio1Event
  BY <1>1 DEF TakeDio1Event, At, GoTo, adapterVars, chipVars
<1>2. CASE GetIrqStatus
  BY <1>2, ErrorAlone
     DEF GetIrqStatus, CommandFails, At, GoTo, adapterVars, portVars, chipVars
<1>3. CASE ClearIrqStatus
  BY <1>3, ErrorAlone
     DEF ClearIrqStatus, CommandFails, At, GoTo, Clear, adapterVars, portVars,
         chipVars
<1>4. CASE UnexpectedIrq
  BY <1>4, ErrorAlone
     DEF UnexpectedIrq, At, GoTo, Expected, Cause, portVars, chipVars
<1>5. CASE CrcError
  BY <1>5, EventAlone
     DEF CrcError, At, GoTo, Expected, Cause, portVars, chipVars
<1>6. CASE RxTimeout
  BY <1>6, EventAlone
     DEF RxTimeout, At, GoTo, Expected, Cause, portVars, chipVars
<1>7. CASE TxDone
  BY <1>7, EventAlone
     DEF TxDone, At, GoTo, Expected, Cause, portVars, chipVars
<1>8. CASE RxDone
  BY <1>8
     DEF RxDone, At, GoTo, Expected, Cause, adapterVars, portVars, chipVars
<1>9. CASE GetRxBufferStatus
  BY <1>9, ErrorAlone
     DEF GetRxBufferStatus, CommandFails, At, GoTo, adapterVars, portVars,
         chipVars
<1>10. CASE ReadBuffer
  BY <1>10, ErrorAlone
     DEF ReadBuffer, CommandFails, At, GoTo, adapterVars, portVars, chipVars
<1>11. CASE GetPacketStatus
  BY <1>11, ErrorAlone, EventAlone
     DEF GetPacketStatus, CommandFails, At, GoTo, adapterVars, portVars,
         chipVars
<1>12. CASE TxClearIrqStatus
  BY <1>12, ErrorAlone
     DEF TxClearIrqStatus, ClearAll, CommandFails, At, GoTo, Clear,
         adapterVars, portVars, chipVars
<1>13. CASE WriteBuffer
  BY <1>13, ErrorAlone
     DEF WriteBuffer, CommandFails, At, GoTo, adapterVars, portVars, chipVars
<1>14. CASE SetTx
  BY <1>14, ErrorAlone
     DEF SetTx, SetOperation, CommandFails, At, GoTo, SetMode, adapterVars,
         portVars, chipVars
<1>15. CASE RxClearIrqStatus
  BY <1>15, ErrorAlone
     DEF RxClearIrqStatus, ClearAll, CommandFails, At, GoTo, Clear,
         adapterVars, portVars, chipVars
<1>16. CASE SetRx
  BY <1>16, ErrorAlone
     DEF SetRx, SetOperation, RxMode, CommandFails, At, GoTo, SetMode,
         adapterVars, portVars, chipVars
<1>17. CASE SetStandby
  BY <1>17, ErrorAlone
     DEF SetStandby, CommandFails, At, GoTo, SetMode, adapterVars, portVars,
         chipVars
<1>18. CASE RecoverClearIrqStatus
  BY <1>18, ErrorAlone
     DEF RecoverClearIrqStatus, CommandFails, At, GoTo, Clear, adapterVars,
         portVars, chipVars
<1>19. CASE StartTx
  BY <1>19 DEF StartTx, At, GoTo, adapterVars, portVars, chipVars
<1>20. CASE StartRx
  BY <1>20 DEF StartRx, At, GoTo, adapterVars, portVars, chipVars
<1>21. CASE Recover
  BY <1>21 DEF Recover, At, GoTo, portVars, chipVars
<1>22. CASE TakeEvent
  BY <1>22 DEF TakeEvent, At, callVars, portVars, chipVars
<1>23. CASE ReadRxFrame
  BY <1>23 DEF ReadRxFrame, At, callVars, portVars, chipVars
<1>24. CASE ChipTxDone
  BY <1>24 DEF ChipTxDone, Raise, adapterVars, callVars, portVars
<1>25. CASE ChipTimeout
  BY <1>25 DEF ChipTimeout, Raise, adapterVars, callVars, portVars
<1>26. ASSUME NEW packet \in Packets, ChipReceives(packet)
      PROVE  ChipInv'
  BY <1>26 DEF ChipReceives, Raise, adapterVars, callVars, portVars
<1>27. CASE Dio1Irq
  BY <1>27 DEF Dio1Irq, NoFullCycle, adapterVars, callVars
<1>28. CASE UNCHANGED vars
  BY <1>28 DEF vars, adapterVars, callVars, portVars, chipVars, At
<1> QED
  BY <1>1, <1>2, <1>3, <1>4, <1>5, <1>6, <1>7, <1>8, <1>9, <1>10, <1>11,
     <1>12, <1>13, <1>14, <1>15, <1>16, <1>17, <1>18, <1>19, <1>20, <1>21,
     <1>22, <1>23, <1>24, <1>25, <1>26, <1>27, <1>28
     DEF Next, Process, FinishStart, FinishRecover, Chip

\* The buffer of a stopped chip keeps the frame that was announced.
LEMMA FrameKept ==
  TypeOK /\ CallInv /\ ChipInv /\ FrameInv /\ [Next]_vars => FrameInv'
<1> SUFFICES ASSUME TypeOK /\ CallInv /\ ChipInv /\ FrameInv, [Next]_vars
             PROVE  FrameInv'
  OBVIOUS
<1> USE DEF TypeOK, CallInv, ChipInv, FrameInv, TxCauses, RxCauses,
            Processing, Capturing, Starting, Interrupts, Packets, Commands
<1>1. CASE TakeDio1Event
  BY <1>1 DEF TakeDio1Event, At, GoTo, adapterVars, chipVars
<1>2. CASE GetIrqStatus
  BY <1>2, ErrorAlone
     DEF GetIrqStatus, CommandFails, At, GoTo, adapterVars, portVars, chipVars
<1>3. CASE ClearIrqStatus
  BY <1>3, ErrorAlone
     DEF ClearIrqStatus, CommandFails, At, GoTo, Clear, adapterVars, portVars,
         chipVars
<1>4. CASE UnexpectedIrq
  BY <1>4, ErrorAlone
     DEF UnexpectedIrq, At, GoTo, Expected, Cause, portVars, chipVars
<1>5. CASE CrcError
  BY <1>5, EventAlone
     DEF CrcError, At, GoTo, Expected, Cause, portVars, chipVars
<1>6. CASE RxTimeout
  BY <1>6, EventAlone
     DEF RxTimeout, At, GoTo, Expected, Cause, portVars, chipVars
<1>7. CASE TxDone
  BY <1>7, EventAlone
     DEF TxDone, At, GoTo, Expected, Cause, portVars, chipVars
<1>8. CASE RxDone
  BY <1>8
     DEF RxDone, At, GoTo, Expected, Cause, adapterVars, portVars, chipVars
<1>9. CASE GetRxBufferStatus
  BY <1>9, ErrorAlone
     DEF GetRxBufferStatus, CommandFails, At, GoTo, adapterVars, portVars,
         chipVars
<1>10. CASE ReadBuffer
  BY <1>10, ErrorAlone
     DEF ReadBuffer, CommandFails, At, GoTo, adapterVars, portVars, chipVars
<1>11. CASE GetPacketStatus
  BY <1>11, ErrorAlone, EventAlone
     DEF GetPacketStatus, CommandFails, At, GoTo, adapterVars, portVars,
         chipVars
<1>12. CASE TxClearIrqStatus
  BY <1>12, ErrorAlone
     DEF TxClearIrqStatus, ClearAll, CommandFails, At, GoTo, Clear,
         adapterVars, portVars, chipVars
<1>13. CASE WriteBuffer
  BY <1>13, ErrorAlone
     DEF WriteBuffer, CommandFails, At, GoTo, adapterVars, portVars, chipVars
<1>14. CASE SetTx
  BY <1>14, ErrorAlone
     DEF SetTx, SetOperation, CommandFails, At, GoTo, SetMode, adapterVars,
         portVars, chipVars
<1>15. CASE RxClearIrqStatus
  BY <1>15, ErrorAlone
     DEF RxClearIrqStatus, ClearAll, CommandFails, At, GoTo, Clear,
         adapterVars, portVars, chipVars
<1>16. CASE SetRx
  BY <1>16, ErrorAlone
     DEF SetRx, SetOperation, RxMode, CommandFails, At, GoTo, SetMode,
         adapterVars, portVars, chipVars
<1>17. CASE SetStandby
  BY <1>17, ErrorAlone
     DEF SetStandby, CommandFails, At, GoTo, SetMode, adapterVars, portVars,
         chipVars
<1>18. CASE RecoverClearIrqStatus
  BY <1>18, ErrorAlone
     DEF RecoverClearIrqStatus, CommandFails, At, GoTo, Clear, adapterVars,
         portVars, chipVars
<1>19. CASE StartTx
  BY <1>19 DEF StartTx, At, GoTo, adapterVars, portVars, chipVars
<1>20. CASE StartRx
  BY <1>20 DEF StartRx, At, GoTo, adapterVars, portVars, chipVars
<1>21. CASE Recover
  BY <1>21 DEF Recover, At, GoTo, portVars, chipVars
<1>22. CASE TakeEvent
  BY <1>22 DEF TakeEvent, At, callVars, portVars, chipVars
<1>23. CASE ReadRxFrame
  BY <1>23 DEF ReadRxFrame, At, callVars, portVars, chipVars
<1>24. CASE ChipTxDone
  BY <1>24 DEF ChipTxDone, Raise, adapterVars, callVars, portVars
<1>25. CASE ChipTimeout
  BY <1>25 DEF ChipTimeout, Raise, adapterVars, callVars, portVars
<1>26. ASSUME NEW packet \in Packets, ChipReceives(packet)
      PROVE  FrameInv'
  BY <1>26 DEF ChipReceives, Raise, adapterVars, callVars, portVars
<1>27. CASE Dio1Irq
  BY <1>27 DEF Dio1Irq, NoFullCycle, adapterVars, callVars
<1>28. CASE UNCHANGED vars
  BY <1>28 DEF vars, adapterVars, callVars, portVars, chipVars, At
<1> QED
  BY <1>1, <1>2, <1>3, <1>4, <1>5, <1>6, <1>7, <1>8, <1>9, <1>10, <1>11,
     <1>12, <1>13, <1>14, <1>15, <1>16, <1>17, <1>18, <1>19, <1>20, <1>21,
     <1>22, <1>23, <1>24, <1>25, <1>26, <1>27, <1>28
     DEF Next, Process, FinishStart, FinishRecover, Chip

-----------------------------------------------------------------------------
(* The invariant, and what follows from it.                                *)

\* Nothing is queued, offered or raised at the start.
LEMMA InitOK == Init => IInv
<1> SUFFICES ASSUME Init PROVE IInv
  OBVIOUS
<1>1. TypeOK
  <2>1. 0 \in 0..(CountModulus - 1)
    BY CountAssumption
  <2>2. events \in Seq(EventTypes) /\ Len(events) <= 1
    BY DEF Init
  <2> QED BY <2>1, <2>2 DEF Init, TypeOK, EventTypes, Interrupts, Packets
<1>2. CallInv /\ OfferInv /\ WakeInv
  BY DEF Init, CallInv, OfferInv, WakeInv, Waiting, At,
         Processing, Capturing, Starting
<1>3. ChipInv /\ FrameInv
  BY DEF Init, ChipInv, FrameInv, Capturing
<1> QED BY <1>1, <1>2, <1>3 DEF IInv

\* Every step keeps every part.
LEMMA Inductive == IInv /\ [Next]_vars => IInv'
BY TypesKept, CallKept, OfferKept, WakeKept, ChipKept, FrameKept DEF IInv

\* The invariant holds in every behaviour, whatever fails.
THEOREM Invariant == Spec => []IInv
<1>1. Init => IInv
  BY InitOK
<1>2. IInv /\ [Next]_vars => IInv'
  BY Inductive
<1> QED BY <1>1, <1>2, PTL DEF Spec

\* Every variable keeps its type; in particular at most one event is queued.
THEOREM TypeCorrect == Spec => []TypeOK
<1>1. IInv => TypeOK
  BY DEF IInv
<1> QED BY <1>1, Invariant, PTL

\* No interrupt is left behind: whatever the chip raises between two commands,
\* a waiting adapter will be called for it.
THEOREM NoInterruptLeftBehind == Spec => []PendingInterruptWakes
<1>1. IInv => PendingInterruptWakes
  BY DEF IInv, WakeInv, Woken, PendingInterruptWakes
<1> QED BY <1>1, Invariant, PTL

\* Every frame an initiator is offered passed the chip's checksum.
THEOREM InitiatorFrames == Spec => []InitiatorFrameIsSound
<1>1. IInv => InitiatorFrameIsSound
  BY DEF IInv, FrameInv, InitiatorFrameIsSound
<1> QED BY <1>1, Invariant, PTL

\* An initiator meets an unexpected interrupt only when its transmission
\* timed out.
THEOREM UnexpectedIsTxTimeout == Spec => UnexpectedOnlyAfterTxTimeout
<1>1. ASSUME IInv, UnexpectedIrq, role = "initiator"
      PROVE  state = "TX" /\ irq_status = {"RX_TX_TIMEOUT"}
  <2>1. pc = "branch" /\ ~Expected
    BY <1>1 DEF UnexpectedIrq, At
  <2>2. irq_status # {}
    BY <1>1, <2>1 DEF IInv, CallInv
  <2>3. \/ state = "TX" /\ irq_status \in TxCauses
        \/ state = "RX" /\ irq_status \in RxCauses
    BY <1>1, <2>1 DEF IInv, ChipInv
  <2>4. CASE state = "RX" /\ irq_status \in RxCauses
    BY <2>1, <2>2, <2>4 DEF Expected, Cause, RxCauses
  <2>5. CASE state = "TX" /\ irq_status \in TxCauses
    BY <2>1, <2>2, <2>5 DEF Expected, Cause, TxCauses
  <2> QED BY <2>3, <2>4, <2>5
<1>2. IInv /\ [Next]_vars =>
        [UnexpectedIrq /\ role = "initiator" =>
           state = "TX" /\ irq_status = {"RX_TX_TIMEOUT"}]_vars
  BY <1>1
<1> QED BY <1>2, Invariant, PTL DEF Spec, UnexpectedOnlyAfterTxTimeout

-----------------------------------------------------------------------------
(* The refinement: a command that changes nothing the service sees stutters *)

Recovering == {"set_standby", "recover_clear_irq_status"}

\* A failing command is the interface's Fail.
LEMMA FailMaps ==
  ASSUME events = <<>>, EnterError, pc' = "service",
         state = "ERROR" => pc \in Recovering
  PROVE  Interface!Next
<1>1. Interface!Fail
  BY ErrorAlone DEF Interface!Fail, Recovering
<1> QED BY <1>1 DEF Interface!Next

\* No start and no process finds the radio failed; recover may.
LEMMA CommandFailMaps ==
  ASSUME NEW command \in Processing \union Starting \union Recovering,
         CallInv, CommandFails(command)
  PROVE  Interface!Next
<1>1. events = <<>> /\ pc' = "service" /\ EnterError
  BY DEF CallInv, CommandFails, At, GoTo, Processing, Starting, Recovering
<1>2. state = "ERROR" => pc \in Recovering
  BY DEF CallInv, CommandFails, At, Processing, Starting
<1> QED BY <1>1, <1>2, FailMaps

\* Every step of the adapter is a step of the interface, or stutters.
LEMMA StepMaps ==
  CallInv /\ OfferInv /\ [Next]_vars => [Interface!Next]_(Interface!vars)
<1> SUFFICES ASSUME CallInv, OfferInv, [Next]_vars
             PROVE  Interface!Next \/ UNCHANGED Interface!vars
  OBVIOUS
<1> USE DEF CallInv, OfferInv, At, GoTo, Processing, Capturing, Starting,
            Recovering, Interface!vars
<1>1. CASE TakeDio1Event
  BY <1>1 DEF TakeDio1Event, adapterVars
<1>2. CASE GetIrqStatus
  <2>1. CASE CommandFails("get_irq_status")
    BY <2>1, CommandFailMaps
  <2>2. CASE ~CommandFails("get_irq_status")
    BY <1>2, <2>2 DEF GetIrqStatus, adapterVars
  <2> QED BY <2>1, <2>2
<1>3. CASE ClearIrqStatus
  <2>1. CASE CommandFails("clear_irq_status")
    BY <2>1, CommandFailMaps
  <2>2. CASE ~CommandFails("clear_irq_status")
    BY <1>3, <2>2 DEF ClearIrqStatus, adapterVars
  <2> QED BY <2>1, <2>2
<1>4. CASE UnexpectedIrq
  BY <1>4, FailMaps DEF UnexpectedIrq
<1>5. CASE CrcError
  <2>1. Interface!End("RX", "CRC_ERROR", FALSE)
    BY <1>5, EventAlone DEF CrcError, Expected, Interface!End
  <2> QED BY <2>1 DEF Interface!Next
<1>6. CASE RxTimeout
  <2>1. Interface!End("RX", "RX_TIMEOUT", FALSE)
    BY <1>6, EventAlone DEF RxTimeout, Expected, Interface!End
  <2> QED BY <2>1 DEF Interface!Next
<1>7. CASE TxDone
  <2>1. Interface!End("TX", "TX_DONE", rx_frame_available)
    BY <1>7, EventAlone DEF TxDone, Expected, Interface!End
  <2> QED BY <2>1 DEF Interface!Next
<1>8. CASE RxDone
  BY <1>8 DEF RxDone, adapterVars
<1>9. CASE GetRxBufferStatus
  <2>1. CASE CommandFails("get_rx_buffer_status")
    BY <2>1, CommandFailMaps
  <2>2. CASE chip_packet = "wrong_length"
              /\ ~CommandFails("get_rx_buffer_status")
    BY <1>9, <2>2, FailMaps DEF GetRxBufferStatus
  <2>3. CASE chip_packet # "wrong_length"
              /\ ~CommandFails("get_rx_buffer_status")
    BY <1>9, <2>3 DEF GetRxBufferStatus, adapterVars
  <2> QED BY <2>1, <2>2, <2>3
<1>10. CASE ReadBuffer
  <2>1. CASE CommandFails("read_buffer")
    BY <2>1, CommandFailMaps
  <2>2. CASE ~CommandFails("read_buffer")
    BY <1>10, <2>2 DEF ReadBuffer, adapterVars
  <2> QED BY <2>1, <2>2
<1>11. CASE GetPacketStatus
  <2>1. CASE CommandFails("get_packet_status")
    BY <2>1, CommandFailMaps
  <2>2. CASE ~CommandFails("get_packet_status")
    <3>1. Interface!End("RX", "RX_DONE", TRUE)
      BY <1>11, <2>2, EventAlone
         DEF GetPacketStatus, adapterVars, Interface!End
    <3> QED BY <3>1 DEF Interface!Next
  <2> QED BY <2>1, <2>2
<1>12. CASE TxClearIrqStatus
  <2>1. CASE CommandFails("tx_clear_irq_status")
    BY <2>1, CommandFailMaps
  <2>2. CASE ~CommandFails("tx_clear_irq_status")
    BY <1>12, <2>2 DEF TxClearIrqStatus, ClearAll, adapterVars
  <2> QED BY <2>1, <2>2
<1>13. CASE WriteBuffer
  <2>1. CASE CommandFails("write_buffer")
    BY <2>1, CommandFailMaps
  <2>2. CASE ~CommandFails("write_buffer")
    BY <1>13, <2>2 DEF WriteBuffer, adapterVars
  <2> QED BY <2>1, <2>2
<1>14. CASE SetTx
  <2>1. CASE CommandFails("set_tx")
    BY <2>1, CommandFailMaps
  <2>2. CASE ~CommandFails("set_tx")
    <3>1. Interface!Start("TX")
      BY <1>14, <2>2 DEF SetTx, SetOperation, adapterVars, Interface!Start
    <3> QED BY <3>1 DEF Interface!Next
  <2> QED BY <2>1, <2>2
<1>15. CASE RxClearIrqStatus
  <2>1. CASE CommandFails("rx_clear_irq_status")
    BY <2>1, CommandFailMaps
  <2>2. CASE ~CommandFails("rx_clear_irq_status")
    BY <1>15, <2>2 DEF RxClearIrqStatus, ClearAll, adapterVars
  <2> QED BY <2>1, <2>2
<1>16. CASE SetRx
  <2>1. CASE CommandFails("set_rx")
    BY <2>1, CommandFailMaps
  <2>2. CASE ~CommandFails("set_rx")
    <3>1. Interface!Start("RX")
      BY <1>16, <2>2 DEF SetRx, SetOperation, adapterVars, Interface!Start
    <3> QED BY <3>1 DEF Interface!Next
  <2> QED BY <2>1, <2>2
<1>17. CASE SetStandby
  <2>1. CASE CommandFails("set_standby")
    BY <2>1, CommandFailMaps
  <2>2. CASE ~CommandFails("set_standby")
    BY <1>17, <2>2 DEF SetStandby, adapterVars
  <2> QED BY <2>1, <2>2
<1>18. CASE RecoverClearIrqStatus
  <2>1. CASE CommandFails("recover_clear_irq_status")
    BY <2>1, CommandFailMaps
  <2>2. CASE ~CommandFails("recover_clear_irq_status")
    <3>1. Interface!EndRecovery
      BY <1>18, <2>2
         DEF RecoverClearIrqStatus, adapterVars, Interface!EndRecovery
    <3> QED BY <3>1 DEF Interface!Next
  <2> QED BY <2>1, <2>2
<1>19. CASE StartTx
  BY <1>19 DEF StartTx, adapterVars
<1>20. CASE StartRx
  BY <1>20 DEF StartRx, adapterVars
<1>21. CASE Recover
  <2>1. Interface!BeginRecovery
    BY <1>21 DEF Recover, Interface!BeginRecovery
  <2> QED BY <2>1 DEF Interface!Next
<1>22. CASE TakeEvent
  <2>1. Interface!Take
    BY <1>22 DEF TakeEvent, callVars, Interface!Take
  <2> QED BY <2>1 DEF Interface!Next
<1>23. CASE ReadRxFrame
  <2>1. Interface!Read
    BY <1>23 DEF ReadRxFrame, callVars, Interface!Read
  <2> QED BY <2>1 DEF Interface!Next
<1>24. CASE ChipTxDone
  BY <1>24 DEF ChipTxDone, Raise, adapterVars, callVars
<1>25. CASE ChipTimeout
  BY <1>25 DEF ChipTimeout, Raise, adapterVars, callVars
<1>26. ASSUME NEW packet \in Packets, ChipReceives(packet)
      PROVE  UNCHANGED Interface!vars
  BY <1>26 DEF ChipReceives, Raise, adapterVars, callVars
<1>27. CASE Dio1Irq
  BY <1>27 DEF Dio1Irq, adapterVars, callVars
<1>28. CASE UNCHANGED vars
  BY <1>28 DEF vars, adapterVars, callVars
<1> QED
  BY <1>1, <1>2, <1>3, <1>4, <1>5, <1>6, <1>7, <1>8, <1>9, <1>10, <1>11,
     <1>12, <1>13, <1>14, <1>15, <1>16, <1>17, <1>18, <1>19, <1>20, <1>21,
     <1>22, <1>23, <1>24, <1>25, <1>26, <1>27, <1>28
     DEF Next, Process, FinishStart, FinishRecover, Chip

\* The adapter, its interrupts and its commands one by one, implements the
\* interface the link service is written against.
THEOREM AdapterImplementsPacketRadio == Spec => ImplementsPacketRadio
<1>1. Init => Interface!Init
  BY DEF Init, Interface!Init
<1>2. IInv /\ [Next]_vars => [Interface!Next]_(Interface!vars)
  BY StepMaps DEF IInv
<1> QED BY <1>1, <1>2, Invariant, PTL
        DEF Spec, ImplementsPacketRadio, Interface!Spec
=============================================================================
