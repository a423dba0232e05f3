---------------------------- MODULE UartReceive ----------------------------
(***************************************************************************)
(* Reception of the receiver's bytes on the STM32F407: the circular DMA    *)
(* and its interrupts, the backend that turns DMA positions into a         *)
(* producer count (stm32f4_uart_dma_backend.c), the transport that reads   *)
(* behind that count (stm32_uart_dma_transport.c), and the main loop that  *)
(* recovers from UART errors and drains the transport                      *)
(* (radio_composition.c, rc_receiver_service.c).                           *)
(*                                                                         *)
(* The main loop runs with interrupts enabled: an interrupt handler is one *)
(* step, may run between any two steps of the main loop, and is never      *)
(* postponed by it.  The two vectors share one priority and do not nest;   *)
(* the DMA stream's goes first when both are pending.                      *)
(*                                                                         *)
(* The main loop itself is slow: the application writes its log lines with *)
(* a blocking HAL_UART_Transmit, about a dozen of them once a second in    *)
(* app_report_status and several while it is initialised.  So any number   *)
(* of bytes may arrive between two of its steps.  Bytes are numbered as    *)
(* they arrive, so that the buffer tells which byte it holds.              *)
(***************************************************************************)
EXTENDS Naturals

CONSTANTS
  BufferSize,    \* receiver_dma_buffer_size
  CountModulus,  \* 2^32: the producer and consumer counts wrap
  ErrorWindows,  \* where else a UART error may strike: "init", "restart"
  MaxBytes,      \* bytes the line brings
  MaxErrors      \* UART errors

ASSUME BufferAssumption ==
  BufferSize \in Nat /\ BufferSize > 2 /\ BufferSize % 2 = 0
ASSUME CountAssumption ==
  /\ CountModulus \in Nat
  /\ CountModulus % BufferSize = 0 /\ CountModulus > BufferSize
ASSUME WindowAssumption == ErrorWindows \subseteq {"init", "restart"}
ASSUME BoundAssumption == MaxBytes \in Nat /\ MaxErrors \in Nat

VARIABLES
  \* the line and the hardware
  line,        \* bytes the line has brought
  active,      \* a byte has arrived since the line was last idle
  receiving,   \* the HAL reception and its DMA run
  position,    \* where the DMA writes next
  buffer,      \* the number of the byte at each index, 0 before the first
  half, full, idle,  \* pending interrupts
  errors,      \* UART errors so far
  \* the backend
  started, recovery_requested, last_dma_position, produced_count,
  \* the transport
  consumed_count,
  overflowed,  \* stats.overflow_events is not 0
  \* the main loop
  pc,          \* what it does next
  initialized, \* s_initialized: callbacks reach the backend
  \* what the properties compare with
  read,        \* the byte last handed to the protocol
  epoch,       \* the reception that runs: the byte and the count before it, or
               \* before the lap of the buffer in which it was first heard
  written,     \* bytes the DMA wrote since then
  heard,       \* an event of it has been counted
  lapped       \* the DMA has overwritten a byte not yet read, and the reader has
               \* not caught up since

hardware == <<line, active, receiving, position, buffer, half, full, idle, errors>>
history == <<epoch, written, heard, lapped>>
backend == <<started, recovery_requested, last_dma_position, produced_count>>
reader == <<consumed_count, overflowed, read>>
vars == <<hardware, history, backend, reader, pc, initialized>>

Indices == 0..(BufferSize - 1)
Counts == 0..(CountModulus - 1)
Plus(a, b) == (a + b) % CountModulus
Minus(a, b) == (a + CountModulus - b) % CountModulus

-----------------------------------------------------------------------------
(* The backend's callbacks                                                 *)

\* mutant: a second event at a position counts a whole lap
Delta_Lap(from, to) == IF to > from THEN to - from ELSE (BufferSize - from) + to

\* How far the DMA got between two positions it reported.
Delta(from, to) == IF to >= from THEN to - from ELSE (BufferSize - from) + to

\* stm32f4_uart_dma_backend_on_rx_event, for positions 1..BufferSize: a full
\* buffer is position 0, and a second event at a position adds nothing.
OnRxEvent(reported) ==
  LET current == reported % BufferSize
  IN  IF initialized /\ started
      THEN /\ produced_count' =
                Plus(produced_count, Delta(last_dma_position, current))
           /\ last_dma_position' = current
           /\ UNCHANGED <<started, recovery_requested>>
      ELSE UNCHANGED backend

\* What the properties remember of an event: whether it has counted.
Hear(reported) ==
  /\ heard' = (heard \/ (initialized /\ started
                          /\ reported % BufferSize # last_dma_position))
  /\ UNCHANGED <<epoch, written, lapped>>

\* stm32f4_uart_dma_backend_on_error
OnError ==
  IF initialized
  THEN /\ recovery_requested' = TRUE
       /\ started' = FALSE
       /\ UNCHANGED <<last_dma_position, produced_count>>
  ELSE UNCHANGED backend

-----------------------------------------------------------------------------
(* The line, the DMA and the HAL's interrupt handlers                      *)

\* At most one byte arrives while a DMA interrupt is pending.
Served ==
  /\ half => position = BufferSize \div 2
  /\ full => position = 0

\* The last byte read of this reception, or the last one before it.
LastByte == IF read > epoch.byte THEN read ELSE epoch.byte

\* What the properties remember of a byte written.  No event tells how often the
\* DMA went round before the first one that counts: with each lap until then the
\* reception begins anew.
Remember ==
  /\ IF ~heard /\ position = 0
     THEN /\ epoch' = [byte |-> line, count |-> produced_count]
          /\ written' = 1
          /\ UNCHANGED lapped
     ELSE /\ written' = written + 1
          /\ lapped' = (lapped \/ buffer[position] > LastByte)
          /\ UNCHANGED epoch
  /\ UNCHANGED heard

ByteArrives ==
  LET next == (position + 1) % BufferSize
  IN  /\ line < MaxBytes
      /\ receiving => Served
      /\ line' = line + 1
      /\ IF receiving
         THEN /\ buffer' = [buffer EXCEPT ![position] = line + 1]
              /\ position' = next
              /\ half' = (half \/ next = BufferSize \div 2)
              /\ full' = (full \/ next = 0)
              /\ active' = TRUE
              /\ Remember
         ELSE UNCHANGED <<buffer, position, half, full, active, history>>
      /\ UNCHANGED <<receiving, idle, errors>>
      /\ UNCHANGED <<backend, reader, pc, initialized>>

LineGoesIdle ==
  /\ active
  /\ active' = FALSE
  /\ idle' = TRUE
  /\ UNCHANGED <<line, receiving, position, buffer, half, full, errors>>
  /\ UNCHANGED <<history, backend, reader, pc, initialized>>

HalfIrq ==
  /\ half
  /\ half' = FALSE
  /\ OnRxEvent(BufferSize \div 2)
  /\ Hear(BufferSize \div 2)
  /\ UNCHANGED <<line, active, receiving, position, buffer, full, idle, errors>>
  /\ UNCHANGED <<reader, pc, initialized>>

FullIrq ==
  /\ full
  /\ full' = FALSE
  /\ OnRxEvent(BufferSize)
  /\ Hear(BufferSize)
  /\ UNCHANGED <<line, active, receiving, position, buffer, half, idle, errors>>
  /\ UNCHANGED <<reader, pc, initialized>>

\* The HAL reports the position the DMA has when it looks, and the whole
\* buffer for position 0.  The one byte that may arrive while the handler is
\* entered can leave a DMA interrupt pending behind it.
IdleIrq ==
  /\ idle
  /\ Served
  /\ idle' = FALSE
  /\ OnRxEvent(IF position = 0 THEN BufferSize ELSE position)
  /\ Hear(IF position = 0 THEN BufferSize ELSE position)
  /\ UNCHANGED <<line, active, receiving, position, buffer, half, full, errors>>
  /\ UNCHANGED <<reader, pc, initialized>>

\* In which of the windows the main loop is, if any.
Window ==
  CASE ~initialized -> {"init"}
    [] pc \in {"set_started", "clear_request"} -> {"restart"}
    [] OTHER -> {}

\* Any receive error in DMA mode ends the HAL's reception and calls back.
UartError ==
  /\ receiving
  /\ errors < MaxErrors
  /\ Window \subseteq ErrorWindows
  /\ errors' = errors + 1
  /\ receiving' = FALSE
  /\ half' = FALSE /\ full' = FALSE /\ idle' = FALSE /\ active' = FALSE
  /\ OnError
  /\ UNCHANGED <<line, position, buffer>>
  /\ UNCHANGED <<history, reader, pc, initialized>>

-----------------------------------------------------------------------------
(* The main loop                                                           *)

\* HAL_UARTEx_ReceiveToIdle_DMA: the DMA starts at the buffer's first index.
HalStart ==
  /\ receiving' = TRUE
  /\ position' = 0
  /\ half' = FALSE /\ full' = FALSE /\ idle' = FALSE /\ active' = FALSE
  /\ epoch' = [byte |-> line, count |-> produced_count]
  /\ written' = 0 /\ heard' = FALSE /\ lapped' = FALSE
  /\ UNCHANGED <<line, buffer, errors>>

Goto(l) == pc' = l /\ UNCHANGED initialized

\* stm32f4_uart_dma_backend_start
BackendStart ==
  /\ pc = "init"
  /\ last_dma_position' = 0
  /\ recovery_requested' = FALSE
  /\ HalStart
  /\ Goto("init_check")
  /\ UNCHANGED <<started, produced_count, reader>>

\* begin_receive returns; without a reception the composition is not
\* initialised and the application does not run.
InitCheck ==
  /\ pc = "init_check"
  /\ started' = receiving
  /\ Goto(IF receiving THEN "init_rest" ELSE "off")
  /\ UNCHANGED <<hardware, history, recovery_requested, last_dma_position,
                 produced_count, reader>>

\* The transport and the rest of the composition are initialised, while the
\* application still refuses the callbacks.
InitRest ==
  /\ pc = "init_rest"
  /\ consumed_count' = produced_count
  /\ overflowed' = FALSE
  /\ Goto("init_app")
  /\ UNCHANGED <<hardware, history, backend, read>>

\* The application has written its log lines, and from here on the callbacks
\* reach the backend.
InitApp ==
  /\ pc = "init_app"
  /\ initialized' = TRUE
  /\ pc' = "poll"
  /\ UNCHANGED <<hardware, history, backend, reader>>

\* stm32f4_uart_dma_backend_process up to the restart; the reception that is
\* stopped here has already ended.
Poll ==
  /\ pc = "poll"
  /\ IF recovery_requested
     THEN /\ receiving' = FALSE
          /\ half' = FALSE /\ full' = FALSE /\ idle' = FALSE
          /\ active' = FALSE
          /\ started' = FALSE
          /\ last_dma_position' = 0
          /\ Goto("restart")
     ELSE /\ Goto("sync")
          /\ UNCHANGED <<receiving, half, full, idle, active>>
          /\ UNCHANGED <<started, last_dma_position>>
  /\ UNCHANGED <<line, position, buffer, errors, history>>
  /\ UNCHANGED <<recovery_requested, produced_count, reader>>

Restart ==
  /\ pc = "restart"
  /\ HalStart
  /\ Goto("check")
  /\ UNCHANGED <<backend, reader>>

\* mutant: the request is cleared although the restart has failed
Check_RequestCleared ==
  /\ pc = "check"
  /\ IF receiving
     THEN Goto("set_started") /\ UNCHANGED started
     ELSE Goto("sync") /\ started' = FALSE
  /\ recovery_requested' = FALSE
  /\ UNCHANGED <<hardware, history, last_dma_position, produced_count,
                 reader>>

\* The HAL reports a reception that an error has ended meanwhile: the request
\* stays for the next poll.
Check ==
  /\ pc = "check"
  /\ IF receiving
     THEN Goto("set_started") /\ UNCHANGED started
     ELSE Goto("sync") /\ started' = FALSE
  /\ UNCHANGED <<hardware, history, recovery_requested, last_dma_position,
                 produced_count, reader>>

SetStarted ==
  /\ pc = "set_started"
  /\ started' = TRUE
  /\ Goto("clear_request")
  /\ UNCHANGED <<hardware, history, recovery_requested, last_dma_position,
                 produced_count, reader>>

ClearRequest ==
  /\ pc = "clear_request"
  /\ recovery_requested' = FALSE
  /\ Goto("reset")
  /\ UNCHANGED <<hardware, history, started, last_dma_position, produced_count,
                 reader>>

\* mutant: the transport goes on behind the count of the reception that failed
Reset_CountKept ==
  /\ pc = "reset"
  /\ overflowed' = FALSE
  /\ Goto("sync")
  /\ UNCHANGED <<hardware, history, backend, consumed_count, read>>

\* stm32_uart_dma_transport_reset; the protocol's reset is left out.
Reset ==
  /\ pc = "reset"
  /\ consumed_count' = produced_count
  /\ overflowed' = FALSE
  /\ Goto("sync")
  /\ UNCHANGED <<hardware, history, backend, read>>

\* mutant: the last unread byte waits for the next
Sync_OneKept ==
  LET unread == Minus(produced_count, consumed_count)
  IN  /\ pc = "sync"
      /\ IF unread > BufferSize
         THEN /\ consumed_count' = Minus(produced_count, BufferSize)
              /\ overflowed' = TRUE
         ELSE UNCHANGED <<consumed_count, overflowed>>
      /\ Goto(IF unread <= 1 THEN "poll" ELSE "take")
      /\ UNCHANGED <<hardware, history, backend, read>>

\* stm32_uart_dma_transport_sync_available: after an overrun the oldest
\* bytes are skipped.
Sync ==
  LET unread == Minus(produced_count, consumed_count)
  IN  /\ pc = "sync"
      /\ IF unread > BufferSize
         THEN /\ consumed_count' = Minus(produced_count, BufferSize)
              /\ overflowed' = TRUE
         ELSE UNCHANGED <<consumed_count, overflowed>>
      /\ Goto(IF unread = 0 THEN "poll" ELSE "take")
      /\ UNCHANGED <<hardware, history, backend, read>>

\* What the properties remember of a byte read: with the last one published the
\* reader has caught up.
CatchUp ==
  /\ lapped' = (lapped /\ consumed_count' # produced_count)
  /\ UNCHANGED <<epoch, written, heard>>

\* mutant: the index is taken after the count has advanced
Take_NextIndex ==
  /\ pc = "take"
  /\ consumed_count' = Plus(consumed_count, 1)
  /\ read' = buffer[consumed_count' % BufferSize]
  /\ CatchUp
  /\ Goto("sync")
  /\ UNCHANGED <<hardware, backend, overflowed>>

\* mutant: the consumer count does not wrap with the producer's
Take_NoWrap ==
  /\ pc = "take"
  /\ read' = buffer[consumed_count % BufferSize]
  /\ consumed_count' = consumed_count + 1
  /\ CatchUp
  /\ Goto("sync")
  /\ UNCHANGED <<hardware, backend, overflowed>>

\* The rest of read_byte; the byte goes to the protocol.
Take ==
  /\ pc = "take"
  /\ read' = buffer[consumed_count % BufferSize]
  /\ consumed_count' = Plus(consumed_count, 1)
  /\ CatchUp
  /\ Goto("sync")
  /\ UNCHANGED <<hardware, backend, overflowed>>

-----------------------------------------------------------------------------
Init ==
  /\ line = 0 /\ active = FALSE
  /\ receiving = FALSE /\ position = 0
  /\ buffer = [i \in Indices |-> 0]
  /\ half = FALSE /\ full = FALSE /\ idle = FALSE
  /\ errors = 0
  /\ started = FALSE /\ recovery_requested = FALSE
  /\ last_dma_position = 0 /\ produced_count = 0
  /\ consumed_count = 0 /\ overflowed = FALSE /\ read = 0
  /\ pc = "init" /\ initialized = FALSE
  /\ epoch = [byte |-> 0, count |-> 0] /\ written = 0
  /\ heard = FALSE /\ lapped = FALSE

Interrupt == HalfIrq \/ FullIrq \/ IdleIrq

\* The main loop never masks interrupts: a pending one preempts it.
Preempted == half \/ full \/ idle

MainStep ==
  \/ BackendStart \/ InitCheck \/ InitRest \/ InitApp
  \/ Poll \/ Restart \/ Check \/ SetStarted \/ ClearRequest \/ Reset
  \/ Sync \/ Take

MainLoop == ~Preempted /\ MainStep

Next ==
  \/ ByteArrives \/ LineGoesIdle \/ UartError
  \/ Interrupt
  \/ MainLoop

Spec == Init /\ [][Next]_vars

\* The main loop runs for ever, interrupts are served, and a silent line is
\* noticed; nothing makes a byte arrive.
FairSpec ==
  Spec /\ WF_vars(MainLoop) /\ WF_vars(Interrupt) /\ WF_vars(LineGoesIdle)

-----------------------------------------------------------------------------
(* Properties                                                              *)

\* Every variable has its type.
TypeOK ==
  /\ line \in 0..MaxBytes
  /\ active \in BOOLEAN /\ receiving \in BOOLEAN
  /\ position \in Indices
  /\ buffer \in [Indices -> 0..MaxBytes]
  /\ half \in BOOLEAN /\ full \in BOOLEAN /\ idle \in BOOLEAN
  /\ errors \in 0..MaxErrors
  /\ started \in BOOLEAN /\ recovery_requested \in BOOLEAN
  /\ last_dma_position \in Indices
  /\ produced_count \in Counts /\ consumed_count \in Counts
  /\ overflowed \in BOOLEAN
  /\ pc \in {"init", "init_check", "init_rest", "init_app", "off", "poll",
             "restart", "check", "set_started", "clear_request", "reset",
             "sync", "take"}
  /\ initialized \in BOOLEAN
  /\ read \in 0..MaxBytes
  /\ epoch \in [byte : 0..MaxBytes, count : Counts]
  /\ written \in 0..MaxBytes
  /\ heard \in BOOLEAN /\ lapped \in BOOLEAN

\* Bytes since epoch that the producer count does not show yet.
Unpublished == Minus(Plus(epoch.count, written), produced_count)

Listening == initialized /\ started /\ receiving

\* The count on_rx_event keeps never runs ahead of the DMA and points, modulo the
\* buffer, to where the DMA was; and from the first event that counts it lags by
\* no more than half a buffer and the byte that comes with a pending interrupt.
\* That is so whatever mixture of half, full and idle events has led to it, some
\* of them at the same position, and however many of them were dropped before
\* s_initialized (app_main.c:692) or while the reception was being restarted:
\* what is lost then are whole laps and nothing else.
PublishedWasWritten ==
  Listening =>
    /\ position = (last_dma_position + Unpublished) % BufferSize
    /\ ~heard => produced_count = epoch.count /\ Unpublished = written
                /\ written <= BufferSize
    /\ heard => /\ Unpublished <= BufferSize \div 2 + 1
                /\ Unpublished >= BufferSize \div 2 => half \/ full

\* The index read_byte reads at counts from the start of the image, the DMA's
\* from the start of the reception: where the producer count then was a multiple
\* of the buffer's size they are the same.
Aligned == epoch.count % BufferSize = 0

\* As long as no byte is overwritten before it is read, the main loop hands the
\* protocol each byte, in the order they arrived, once, from the first lap of the
\* buffer on that an event tells of: read_byte reads behind the count while
\* interrupts advance it and the DMA writes ahead of it, and sync_available skips
\* nothing that is still there and counts no overrun.  Where the main loop stalls for more than a
\* buffer, that holds again once the reader has caught up.  After a UART error it
\* holds in a reception whose indices are the reader's, from the byte on at which
\* it meets it, and no byte from before that reception is read there, stalls or
\* not.
ReadsNextByte ==
  [][/\ read' # read =>
          /\ errors = 0 /\ ~lapped => read' = LastByte + 1
          /\ Listening /\ Aligned =>
               /\ read' > epoch.byte
               /\ read > epoch.byte /\ ~lapped => read' = read + 1
     /\ Listening /\ Aligned /\ ~lapped /\ overflowed' => overflowed]_vars

\* In every reception, stalls, overruns and restarts before or not, the byte the
\* reader is due is one the DMA has written in that reception; and at its index,
\* counted from the start of the reception, the buffer holds it or the one that
\* has overwritten it.  So after a recovery it is only the index, where that is
\* not Aligned, that makes read_byte return anything else.
DueWritten ==
  Listening /\ pc = "take" =>
    \E k \in 0..(written - 1) :
      /\ consumed_count = Plus(epoch.count, k)
      /\ \E n \in k..(written - 1) :
           /\ n % BufferSize = k % BufferSize
           /\ written <= n + BufferSize
           /\ buffer[k % BufferSize] = epoch.byte + n + 1

\* Once the composition listens, a byte that arrives reaches the protocol
\* although none may follow it, stalls and overruns before or not: the idle line
\* publishes what the half and full events leave over, and the main loop reads
\* it, unless an error comes first.  Two cases are excepted, as the code's: a
\* reception of whose first laps no event was heard and that falls silent just at
\* the end of one; and a backlog of exactly a whole cycle of the counts, which
\* sync_available takes for none.
BytesReachProtocol ==
  Listening /\ active ~>
    \/ read = line
    \/ ~heard /\ written = BufferSize
    \/ lapped /\ consumed_count = produced_count
    \/ errors > 0

\* A UART error ends the reception, and the main loop starts it again, unless
\* the composition's initialisation has failed: "UART error recovery"
\* (docs/development/baseline.md:160).
ReceptionRecovers == ~receiving ~> receiving \/ pc = "off"

\* After a recovery no byte received before it is read: "Discard stale bytes
\* from the failed DMA epoch." (radio_composition.c:148).
NoStaleBytes == [][read' # read => read' > epoch.byte]_vars
=============================================================================
