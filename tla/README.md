# Verification of radio_connection

TLA+ models of the concurrent and protocol parts of the firmware, the TLC runs
that check them on small instances, and TLAPS proofs of the properties that
matter most. Paths are relative to `src/` unless they name a file here.

## 1. The system

The repository holds two firmware images and the portable code they share.

* The **STM32F401** image is a half-duplex radio node (initiator or responder,
  chosen at build time). Its super-loop polls a request/response link above an
  SX128x radio.
* The **STM32F407** image reads a CRSF receiver on USART2 through a circular
  DMA, decides whether the outputs are enabled, and sends telemetry back on the
  same UART.

Everything runs in one main loop and interrupt handlers; the only task code
(FreeRTOS) is not part of an image.

| Component | State it keeps | Operations | Talks to | Correct when |
|---|---|---|---|---|
| Duplex link service, `src/link/service` | state, operation timer, pending request, retry count, next sequence, last request and cached response, queue of 8 events | init, start_request, process (adapter events, timeouts, state action), get_event | calls the packet radio; polled by the application | every exchange ends; success means delivery; a request is delivered once; no event is lost |
| SX128x packet radio adapter, `src/link/adapter` | radio state, queue of events, a received frame | start_tx, start_rx, process (IRQ status, clear, read), recover | driver below, service above | its state and the chip's agree; a fault is reported once |
| SX128x driver and STM32F4 port | DIO1 event counter, pins | command framing, BUSY wait, reset | SPI, GPIO, the DIO1 interrupt | no interrupt is lost between two looks at it |
| Link packet, CRC-16 | none | encode, decode | service | what is accepted was sent |
| STM32F401 application | LED and report state | init, process (poll, drain, start) | link composition | drains after every poll |
| UART DMA backend, `src/platform/stm32/f4` | started, recovery_requested, last position, producer count | start, process, on_rx_event (ISR), on_error (ISR) | HAL, transport | the count follows the DMA; errors end in recovery |
| UART DMA transport, `src/platform/stm32` | consumer count | read_byte, read, reset | backend (producer count), DMA buffer | every byte once, in order |
| CRSF and SBUS protocols | parser state, a decoded frame, a pending ping | process_byte, get_frame, reset | service, telemetry | an unharmed frame is recognised; a damaged one costs the frames within its length |
| RC receiver service | newest frame, its time, failsafe | process, get_latest_frame, is_failsafe | transport, protocol, time | silence and flags lead to failsafe |
| RC channel mapper | map entries | map | policy | the value follows the stick, in range |
| RC control policy | armed latch, release required | process | application | outputs only when armed deliberately on fresh input |
| CRSF telemetry service, UART TX backend | due times, priorities, queued frame, busy | process, queue, try_write, TX complete/error (ISR) | protocol (ping), HAL | no starvation; one transmission at a time |
| STM32F407 composition and application | initialised flag, last command | init, process, the HAL's callbacks; poll | all of the above | callbacks reach what they are for |
| FreeRTOS receiver task | handle, mailbox, notification count | init, deinit, notify (ISR), iteration | service | every notification served; the mailbox fresh (not in an image) |
| Ports for time and logging, PC demo, board validation, CubeIDE projects | — | I/O, start-up, generated and vendor code | | |

**What is hard to test here.** Two nodes, two chips and a lossy channel move
independently, and a retry, a late response and a recovery can meet at any
point. Sequence numbers, byte counts and the tick counter wrap. SPI commands can
fail half way through an operation. A node can lose power in an exchange. On the
F407, DMA interrupts and UART errors strike between any two statements of the
main loop. Outputs must not become enabled by a long sequence of individually
harmless frames. `PROJECT.json` lists each hazard with its line and the
properties that watch it.

## 2. Modules

| Module | Content |
|---|---|
| `DuplexLink` | both nodes: main loop, service, adapter, chip; the channel; power loss |
| `Exchange` | what the link promises its two applications (abstract specification) |
| `DuplexLinkInvariant` | the inductive invariant of `DuplexLink` |
| `PacketRadio` | what a packet radio promises the service above it (abstract specification) |
| `Sx128xAdapter` | the radio adapter, one SPI command at a time; the chip; the DIO1 interrupt |
| `LinkPacket`, `LinkCrc16` | the packet of the link and its checksum, damaged and torn on its way |
| `UartReceive` | F407 reception: line, DMA and interrupts, backend, transport, composition, recovery |
| `RcControl` | F407 control: receiver service, failsafe timeout, policy, outputs |
| `Telemetry` | F407 telemetry: scheduler, UART transmit backend, its interrupts |
| `CrsfParser` | the CRSF byte parser and the pending device ping, below a damaged line |
| `SbusParser` | the SBUS byte parser and its timeout, below late polls |
| `ChannelMapper` | the arithmetic from a raw channel to the policy's value and the pulse |
| `ReceiverTask` | the FreeRTOS task around the receiver service, its mailbox |
| `Parts` | the sum of the five parts that share no state: both parsers, the task, the mapper, the packet |
| `MCParts` | the frames, profiles, raw values and packets its run uses |
| `Modular` | lemmas on division and arithmetic modulo m, shared by the proofs |
| `DuplexLink_proofs`, `Sx128xAdapter_proofs`, `UartReceive_proofs`, `RcControl_proofs`, `Telemetry_proofs`, `Parsers_proofs`, `Parts_proofs` | theorems and proofs |

The modules take their parameters as CONSTANTS with named assumptions, so the
configurations instantiate them directly; only `Parts` needs an instance with
definitions of its own, `MCParts`.

### DuplexLink

Variables indexed by node are the C structures of that node: `state`, `expired`,
`eventCount` and the initiator's and responder's fields belong to
`DuplexLinkService`, `radio`, `radioEvents`, `rxFrame` to `Sx128xPacketRadio`,
and `mode`, `irq`, `rxBuffer`, `txBuffer` are the chip (external, modelled from
the commands the adapter sends it and the interrupts it reads).

`pc[n]` says how far node n is in a poll of its main loop: `"app"` between two
calls of `duplex_link_service_process`, `"process"` inside one. A poll is the
adapter's process (`PollQuiet`, `PollIrq`, `PollFault`), one handler per event
(`HandleTxDone` ... `AcceptResponse`), the timeout test (`ProcessTimeout`,
`TimeoutRadioLost`) and the state's action (`NoAction`, `StartTx`, `StartRx`,
`StartFails`, `StartFailsExpired`, `StartRadioLost`), after which the application
drains its events (`AppDrain`) and the initiator may start a request
(`StartRequest`). The chips, the channel and the other node take their steps
anywhere in between.

* Elapsed-time tests are the flag `expired[n]`: cleared when the code restarts
  the timer, set by `Tick` at any later moment. Every order of timeout and
  answer is therefore in the model.
* A frame is its type and sequence number; a ghost field `xid` names its
  exchange. Other ghosts: `exchange`, `received`, `accepted`, `outcome`,
  `dropped`. No action reads a ghost, except the environment assumption below.
* A frame that is sent is received, received damaged, or missed; chips time out
  at any moment; `ReceiveJunk` delivers frames of other transmitters. An SPI
  command may fail in any operation, and recovery may fail too.
* An adapter operation is one step, except that a stale interrupt may survive
  between the interrupt's clearing and the start of a transmission (`StartTx`).
* `NoFullCycle` is an environment assumption: when a request starts, what the
  responder holds is less than a whole cycle of sequence numbers old. With
  65536 numbers it takes 65535 failed exchanges in a row, all of them missed by a
  responder that does not restart, to break it.

The adapter's single steps are justified by `Sx128xAdapter`, below; what decoding
does to a frame by `LinkPacket`.

`Exchange` states the promise without the radio: one exchange at a time, each
request delivered at most once and in order, success only after delivery, and a
responder restart forgetting what was delivered. `DuplexLink` implements it with
`open <- active`.

### Sx128xAdapter and PacketRadio

`pc` names the SPI command under way, or `"service"` between two calls. A call is
the sequence of its commands: `process` is `TakeDio1Event`, `GetIrqStatus`,
`ClearIrqStatus` and one branch, of which `RxDone` goes on with the three commands of
`capture_rx_frame`; a start of a transmission is `StartTx`, `TxClearIrqStatus`,
`WriteBuffer`, `SetTx`; of a receive `StartRx`, `RxClearIrqStatus`, `SetRx`; a
recovery `Recover`, `SetStandby`, `RecoverClearIrqStatus`. Every command may fail, and
then its effect on the chip happens or not. The chip and `Dio1Irq` step anywhere in
between. DIO1 is high while an interrupt bit is set, and the EXTI line latches
only its rising edge: a bit set while another is pending gives no wake-up of its
own, which `PendingInterruptWakes` shows to be harmless.

The service is `duplex_link_service_process`: it takes all events before another
call, and its role decides whether a receive is timed. `NoFullCycle` is the
environment assumption that fewer than 2^32 edges come between two looks at the
count.

`PacketRadio` is the interface (`packet_radio_if.h`): one operation at a time, exactly
one event for each, a frame offered with RX_DONE and nothing else, a failure
reported once. The adapter implements it with `frame <- rx_frame_available` and
`recovering <-` the two commands of a recovery. An operation whose last command
fails maps to a failure of the idle radio, as the code reports it.

### UartReceive

The main loop runs with interrupts enabled, so each handler is one step between
any two of the main loop's, which are as fine as the accesses to shared fields:
`begin_receive` and `process` of the backend are `Poll`, `Restart`, `Check`,
`SetStarted`, `ClearRequest`. A pending interrupt preempts the main loop
(`MainLoop == ~Preempted /\ MainStep`), because nothing masks it; USART2 and DMA1
Stream 5 share one priority and do not nest. Bytes are numbered, so
`buffer[i]` says which byte lies at an index, and the properties compare what is
read with what arrived. The interrupt handlers are those of the HAL in
`stm32f4xx_hal_uart.c`; the USART and the DMA stream are external.

Nothing is assumed of how soon the main loop comes back. `app_report_status`
(`app_main.c:266`) writes about ten log lines a second with a blocking
`HAL_UART_Transmit`, some 75 ms in which more than the image's 256 bytes can arrive;
so any number of bytes may come between two steps of the main loop, the DMA may lap
the reader, and the overrun branch of `sync_available` is taken. In the same way
reception runs for some 20 ms of log lines before `s_initialized` is set
(`InitRest` to `InitApp`), while the callbacks drop every event (`app_main.c:692`).

The history variables say what the code does not know. `epoch` and `written` number
the bytes of the running reception; `heard` says that one of its events has counted.
Until then nothing tells how often the DMA has gone round, so each such lap begins
`epoch` anew: whole laps are lost and nothing else. `lapped` is set when the DMA
overwrites a byte not yet read, and cleared when the reader has caught up.

The one environment assumption is `Served`: at 420000 baud a byte takes 24 us, and at
most one arrives while a DMA interrupt is pending. `ErrorWindows` says whether a UART
error may also strike while the composition is being initialised or between the
restart of the reception and the end of the recovery; the code loses such errors, see
below.

Left out: reading in blocks, stopping the backend, its half-transfer switch (the
image leaves it off), statistics but one: `overflowed` says that an overrun has been
counted.

### RcControl

One poll of the F407's main loop: `BeginPoll` reads the time, `ReceiveFrame` is a
byte that completes a frame, `EndDrain` the empty transport, `CheckTimeout` the
end of `rc_receiver_service_process`, `UpdateControl` the mapper and the policy.
`Tick` advances the wrapped tick counter between any two of them. A frame is its
loss flags, its arm value and its throttle; the reasons to distrust an input
(failsafe, lost, invalid, incomplete mapping) all take the same branch and are
one. `released`, `offReceived` and the true ages are ghosts.

`MaxStall` bounds the time between two timeout checks. Without such a bound the
elapsed time, a difference of wrapped counters, says nothing; with 2^32 ms it
only excludes a stall of 49 days.

The image's own profile maps the arm channel as a two-position switch, 0 or 1000;
the run also delivers values between the thresholds, as profiles with a
continuous arm channel and `tests/test_rc_control_policy.c` do.

### Telemetry

A poll of the telemetry is `ServiceProcess` (what falls due, and the choice of a
frame), `TryWrite` (the copy and `busy`), and `HalStarts` or `HalRefuses`; the
interrupts `SendBytes`, `TxComplete` and `UartError` come anywhere in between. A
frame is its kind, and `pending` holds the kinds whose flags are set. `due` stands
for the period tests: `Tick` adds a slot at any moment. `watched`, `overtaken` and
`started` are ghosts.

`UartError` is an error of the *receiver* on the shared UART: it clears `busy` and
the length while the HAL goes on sending. So the HAL may still be sending when a
start is tried, and the call may pass the real length or a cleared one, whichever
it loaded; `HalStarts` and `HalRefuses` have every combination. `ForgetPing` is the
parser's reset, which a frame after a ping performs.

### CrsfParser

One action per outcome of `crsf_protocol_process_byte`; the line alters, drops and
adds bytes (`AlterByte`, `DropByte`, `ExtraByte`) of frames that a transmitter sends
back to back. Of the frame buffer the bytes the parser reads are kept. The checksum
is a ghost: it matches for a frame received from its first byte on, and matches or
not, both ways, for any other bytes. `parser_reset` keeps a pending ping, `protocol_reset`
forgets it; which of the two ends which path is what `FramesRecognised` is about.
`crsf_plain` chooses between a transmitter whose frames have no byte but the first
that looks like an address, for which the parser comes back into step, and
any transmitter, for which it need not: the code ignores the time (`(void)now_ms`).

### SbusParser

SBUS has no checksum, so the pause between two frames is all that tells where one
begins, and the parser measures it between polls. The model therefore has the
transmitter's time, the bytes that wait in the UART, and polls at most `MaxPoll`
apart that give all waiting bytes one date. Bytes are lost, or arrive as any other;
`Spurious` bytes are ones nobody sent. `SbusAssumption` names the timing the parser
needs (at most `MaxPoll + 1 < Timeout` inside a frame, `Gap >= Timeout + MaxPoll`
between two). A main loop that stalls longer, or a transmitter with 4 ms pauses, is
outside it.

### ReceiverTask

The owner creates and deletes the task, the interrupt notifies it, and an iteration
is `Wake`, `Process` (the receiver service, whole), `Publish`. A frame is whether it is
valid and its age. Time passes while the task is blocked: it has the highest
priority and an iteration takes less than a tick. The interrupt source is stopped
while the owner deletes the task; `rc_receiver_task_deinit` itself does not do it,
and an interrupt or a consumer that runs during it would use freed objects.

### ChannelMapper, LinkPacket, LinkCrc16

Pure algorithms with the code's arithmetic, in a small state machine each so that
TLC enumerates the inputs: a stick moves (`Move`), a frame arrives intact, with two
neighbouring bytes damaged (`Damaged`), or as the start of one packet and the rest of
another (`Torn`), which is what a responder's chip in continuous receive can deliver.
The checksum is the code's: `LinkCrc16` keeps the register of `link_crc16_ccitt` as its
sixteen bits, bit by bit what the shifts and exclusive-ors do, which is the form its
proofs need. `TearsFound` says of the given packets that no two of them can be torn
into a third with a fitting checksum; TLC evaluates it for the run's packets
(`TearsAssumption` of `MCParts`), and the theorem about torn frames assumes it.

### Parts

The last five parts and the packet share no state with each other; `part` says which
of them a behaviour is about. It exists so that one run checks all of them, and adds
no behaviour to any, which `PartsRefined` proves. `MCParts` is its instance.

## 3. Runs

| Run | Module, cfg | Properties | Expected |
|---|---|---|---|
| `link_faults` | `DuplexLinkInvariant`, faults | IInv, SuccessImpliesAccepted, AtMostOncePerBoot, AdapterAgrees, ResponderHears, NoEventDropped, ImplementsExchange, OnlyDuplicatesSuppressed | pass |
| `link_live` | `DuplexLink`, live | EventExpected, ExchangeEnds, ResponderListens | pass |
| `link_initiator_restart` | `DuplexLink`, initiator_restart | OnlyDuplicatesSuppressed | violation |
| `uart_recovery` | `UartReceive`, recovery | TypeOK, PublishedWasWritten, DueWritten, ReadsNextByte, BytesReachProtocol, ReceptionRecovers | pass |
| `uart_stale_epoch` | `UartReceive`, stale | NoStaleBytes | violation |
| `uart_init_error` | `UartReceive`, init_error | ReceptionRecovers | violation |
| `control_arming` | `RcControl`, arming | EnabledMeansFresh, EnabledMeansReleased, OutputsFollowSwitch, SilenceDisables | pass |
| `control_masked_loss` | `RcControl`, masked_loss | ReleaseAfterLostFrame | violation |
| `telemetry_schedule` | `Telemetry`, schedule | BusyEnds, WholeUntilError, TurnsAreTaken, PendingIsSent, TransmissionGoesOn | pass |
| `telemetry_rx_error` | `Telemetry`, rx_error | CompleteFrame | violation |
| `radio_adapter` | `Sx128xAdapter` | TypeOK, PendingInterruptWakes, InitiatorFrameIsSound, UnexpectedOnlyAfterTxTimeout, ImplementsPacketRadio, OperationEnds | pass |
| `parts` | `MCParts` | TypeOK, FramesRecognised, BackInStep, FramesExact, SignalServed, MailboxFresh, StickFollowed, AcceptedWasSent | pass |

**`link_faults`** has three exchanges with one retry each over *two* sequence
numbers, so the number wraps while a late response or a repeated request of the
exchange before is still about; a channel that loses, damages and delays frames; a
failing SPI command at any point; and a responder power cycle. It shows that
success means delivery, that retries never deliver twice within a boot, that
service, adapter and chip stay in step through every recovery, that two of the
eight event slots suffice, that the link implements `Exchange`, and that the
inductive invariant of the proofs (type correctness is its first conjunct) holds in
every reachable state.

**`link_live`** adds foreign frames: no handler meets an event nobody asked for, an
exchange ends and the responder returns to listening, with one failing command and
a channel that may lose everything.

**`radio_adapter`** has no bound but the DIO1 counts, which wrap at 3 instead of 2^32:
any number of operations, frames, failures and recoveries, in both roles. It shows
that an interrupt that comes between two commands is never left pending for good,
which `DuplexLink` takes for granted; that an initiator is never handed a frame that
was overwritten while it was copied, and takes no interrupt of one operation for
another's; and that every operation ends in one event or one reported failure.

**`parts`**: *CRSF*, frames of up to 7 bytes (a ping for this device whose payload
looks like an address, one for every device, an RC frame with a tail longer than the
shortest, another type) and noise bytes that look like an address, the longest
accepted length and a rejected one; *SBUS*, frames of 4 bytes with any data,
polls 1 ms apart against a timeout of 3 and pauses of 4, any number of lost, altered
and added bytes; *task*, a period of 3, a timeout of 5 and two pending notifications;
*mapper*, all four modes, plain and reversed, over the firmware's limits and two
narrow uneven ones with the widest accepted deadband, for raw values on both sides of
every edge; *packet*, three packets whose sequence numbers or types are neighbours,
all pairs of damaged neighbouring bytes out of six damages, and every place a frame
can be torn.

**`uart_recovery`** runs ten bytes (two and a half laps of a four-byte buffer, more
than one wrap of both counts, modulo 8) and two errors. The smallest buffer with
distinct half and full positions has four bytes; the counts must be a multiple of
it, as 2^32 is of the image's 256. The second reception starts at any count, among
them multiples of four, where `ReadsNextByte` asks for order after the error too. The
main loop may stall through all ten bytes, so the reader is lapped once or twice, an
overrun is counted, and the first event that counts may come in the third lap.

Some things the code cannot do are excepted in the properties. `ReadsNextByte` ends
where the DMA overwrites an unread byte and begins again once the reader has caught up.
In between newer bytes are read in the place of older ones, not always with an overrun
counted: `sync_available` compares the *published* count with the reader's
(`stm32_uart_dma_transport.c:99`), and the DMA is ahead of that by up to half a buffer.
(`ReadsNextByte` says that the converse holds: no overrun is counted while nothing is
overwritten unread.) What is left to find such bytes is the protocol's checksum. `BytesReachProtocol` excepts a backlog of
exactly one whole cycle of the counts (2^32 bytes in the image, 28 hours of a stalled main
loop), which `sync_available` takes for none, and a reception of which no event was heard
and that falls silent at the end of a lap.

**`control_arming`** uses the image's thresholds (750, 250, 50) with values on
both sides of each, a timeout of 1 and a clock modulo 5 that wraps several times
within the longest silence told apart (`MaxAge`), two frames in a poll (one masks
the other) and stalls of up to 3.

**`telemetry_schedule`** has the three slots and both urgent frames of the image,
any number of due periods and set values, one ping or custom frame, and one UART
error: one error puts backend and HAL out of step, and what follows is explored
without bound. `WholeUntilError`, `TurnsAreTaken` and `PendingIsSent` end at the first
error because the code's promises do: after it frames can be overwritten (finding
5), and interrupts that keep striking between `busy = true` and the start could cost
the same slot its turn for ever.

Bounds are small because the interesting events are: two exchanges are what it
takes to confuse one with the other, one fault what it takes to break step, two
errors what it takes to fail during a recovery. What the parsers do with a frame
does not depend on its length beyond the boundaries the frames above lie on. The
proofs remove the bounds for every safety property.

### What the five violations show

1. **Initiator restart** (`duplex_link_service.c:368`). A restarted initiator
   begins with the same `initial_sequence`; the responder may remember exactly that
   number and suppresses the new request as a duplicate, answering with the old
   cached response. `docs/development/baseline.md:211-212` promises duplicate
   *request* suppression. The proofs therefore assume that only the responder
   loses power.
2. **Stale epoch** (`stm32f4_uart_dma_backend.c:81`). Recovery restarts the DMA at
   index 0, but the reader's index is the running count modulo the buffer size.
   Unless the count happens to be a multiple of it, the reader looks in the wrong
   place for the whole new reception and reads bytes of the failed one, which
   `radio_composition.c:148` means to discard. `DueIsWritten` and `ReadsInOrder` say
   how far this goes: only the index is wrong, never the count, and in a reception
   that starts at a multiple of the buffer's size no byte of an earlier one is read.
3. **Error during initialisation** (`radio_composition.c:203`). The reception
   starts before `initialized` is set; an error in between ends it in the HAL, and
   the callback that should ask for recovery returns early (`radio_composition.c:203`, and
   before it `app_main.c:721`). Nothing restarts it.
   An error between the restart of a reception and `recovery_requested = false`
   (`stm32f4_uart_dma_backend.c:84`) is lost the same way: the run with
   `ErrorWindows = {"restart"}` violates `ReceptionRecovers` too.
4. **Masked loss** (`rc_receiver_service.c:98`). Only the newest frame of a poll
   counts, so a lost frame followed by a good one leaves no trace and no release
   of the arm switch is asked for, contrary to `rc_control_policy.h:53-54`. This
   takes a protocol whose frames carry the flags (SBUS); the CRSF decoder of the
   present image never sets them.
5. **Receive error during a transmission** (`stm32f4_uart_tx_backend.c:64`). Every UART
   error clears `busy`, so the next frame is copied over the buffer the HAL is still
   sending from, against `radio_tx_if.h:15` ("one complete frame") and `:26`. The
   receiver gets a frame with a wrong checksum.

### Fairness

* `DuplexLink`: weak fairness of each node's poll (`Process \/ AppDrain`) and of
  `Tick`. The super-loop always comes round, as its log writes and SPI transfers end in
  bounded time, and time passes. Nothing is assumed of chips,
  channel or application.
* `UartReceive`: weak fairness of the main loop, of the interrupts, and of the
  idle-line detection. Nothing makes a byte arrive. It is what the hardware
  guarantees with interrupts enabled, and the main loop, which may stall for any time,
  comes back from its log writes.
* `RcControl`: weak fairness of the poll. Nothing makes a frame arrive.
* `Telemetry`: weak fairness of the poll and of the UART's sending. Nothing is assumed
  of the application, the receiver and time.
* `Sx128xAdapter`: weak fairness of `process` (the main loop calls it), of a started
  call (commands return, at the latest by the BUSY and SPI timeouts), of the DIO1
  interrupt and of the chip's own end of a transmission or a timed receive. Nothing
  makes a frame arrive, and nobody has to start or recover anything.

Deadlock is checked everywhere except in `uart_init_error`, where an image whose
initialisation fails stops.

## 4. Proofs

All are checked by TLAPS for every value of the constants that satisfies the
modules' assumptions.

**The link** (`DuplexLink_proofs`). `TypeCorrect` needs no
further assumption. The others assume `Assumptions`: only the responder loses
power (finding 1 shows it is needed) and the event queue holds at least two events
(the code has eight). The inductive invariant `IInv` strengthens the checked
properties because none is inductive alone:

* `RolesInv`, `EventsInv`: which states a role visits, and how many events can be
  queued at each point of a poll. Gives `NoEventDropped`.
* `AdapterInv`: the adapter's queue is empty and it does what the service waits
  for, or it has failed and said so, or it has just finished what was asked. Gives
  `AdapterAgrees`.
* `ChipInv`, `InitiatorChipInv`, `ResponderChipInv`: what the adapter believes of
  the chip is so, or the interrupt that says otherwise is pending. They rule out a
  frame received without anybody asking.
* `RequestInv`, `ResponseInv`: every frame in a buffer belongs to an exchange less
  than one cycle of sequence numbers old, and a response to one that was accepted.
  So equal sequence numbers mean equal exchanges, and success means acceptance.
* `OrderInv`: the responder meets requests in the order they were started. So a
  request that is not a duplicate of the *last* is new, and is delivered once.
* `AttemptsInv`: how often the request has been sent, against the retries used and
  the state of the initiator. Gives `ReportedAttempts`, for a `max_retries` below 255;
  with 255 the 8-bit count of the 256th attempt wraps to 0.

`NodeStep` splits a step into the `...Here` lemmas, one per conjunct (what a
node's step does to it), with `Locality` for the other node's share. From `IInv`
follow `SuccessIsTrue`, `AtMostOnce`, `EventQueueSuffices`,
`ServiceAndAdapterAgree`, `SuppressionIsSound`, `EventsAreExpected`,
`ResponderIsNotDeaf`, and `LinkImplementsExchange`: every step is a step of `Exchange`
or leaves its variables alone.

Three theorems are the part of the link's liveness that needs no fairness.
`NodeMoves` sorts the steps by what they do to the initiator's place in its exchange,
and `ExchangesAdvance` concludes that each change of it leaves strictly fewer:
`5 * max_retries + 4` in all. `PollsShorten` says that a poll handles at most one event,
one timeout and one start. `PollsFindWork` says that it always finds one of these, or
nothing to start; it also justifies the model, which leaves out the error returns of
`try_start_tx`, `try_start_rx` and `read_rx_frame` for a call in the wrong state.

**The radio adapter** (`Sx128xAdapter_proofs`), for any width of the DIO1 counts.
* `CallInv`: a call under way finds the event queue empty, `process` never runs on a
  failed radio, a start only on an idle one. Hence at most one event is queued
  (`TypeCorrect`) and a full queue drops nothing.
* `WakeInv`: from the clearing of the interrupts until `process` is called, a pending
  interrupt has an edge or a count. `PendingInterruptWakes` alone is not inductive: a
  responder's continuous receive goes on until the next operation is set, so an
  interrupt may come before the adapter waits for one. It gives
  `NoInterruptLeftBehind`.
* `ChipInv`: an initiator's chip stops with its first interrupt, and until then it does
  what the adapter waits for. It gives `UnexpectedIsTxTimeout` and, with `FrameInv` (the
  buffer of a stopped chip keeps the frame that was announced), `InitiatorFrames`.
* `OfferInv`: no receive runs while a frame is on offer. With `CallInv` it gives
  `AdapterImplementsPacketRadio`: an operation starts with its last command, ends with
  its event, and every other successful command stutters.

**The control chain** (`RcControl_proofs`). `TypeCorrect`; `ReleaseInv` (the latch,
the command and the release flag tell the same story) gives `Released`
and `FollowsSwitch`; `AgeInv` (the wrapped clock differs from the newest
frame's time by its true age, until that age reaches the clock's period) gives
`ElapsedIsAge`, that the elapsed time the code computes is the true one, and
`Fresh`.

**Telemetry** (`Telemetry_proofs`). `BusyInv` (only a start sets `busy` before the HAL
sends) gives `BusyBackendEnds`, through any number of errors. Until the first error
`BufferInv` (`busy` and the HAL tell the same story, the buffer holds the frame being
sent) gives `FramesAreWhole`, and `TurnInv` gives `SlotsTakeTurns`: the number of slots
that have overtaken a waiting one, plus the slots still before it in the round
robin, is at most two; each overtaking takes one from the second. `ErrorsHeal` is
about what comes after: from any moment at which backend and HAL are at rest,
`BufferInv` holds again and every frame is whole, until an error strikes a busy
backend. So finding 5 damages what is sent around an error and nothing later.

**Reception** (`UartReceive_proofs`), for any buffer, width of the counts, number of
bytes and of errors, and stalls of the main loop of any length. No theorem assumes
anything but the constants' types and `Served`.

* `PhaseInv`: a reception that runs was started by the main loop, which listens to it
  except while it is starting it. `FirstInv`: until the first error there is one.
* `QuietInv`: of a reception no event of which has counted nothing is published, and
  `epoch` is the lap the DMA is in. It is what makes events that are dropped before
  `s_initialized`, however many, cost whole laps only.
* `Lag`: some `lag` of at most half a buffer and one byte takes the last published
  position to the DMA's; half a buffer or more only with the interrupt pending that
  will publish it. `Shown`: some number `pub` of the reception's bytes is published, and
  `lag` makes up the rest. `PublishedWasWritten` speaks of the difference of two wrapped
  counts, which no step preserves by itself; these two give `PublishedCorrect`.
* `StreamInv`, `BufferInv`: the bytes of a reception are the line's in order, counted
  from the start of it, and the buffer holds the last of them.
* `Behind`: some number `k` of the reception's bytes, at most `pub`, has been passed by
  the reader, whose wrapped count is `k` from the count the reception started with.
  Unless the DMA has lapped the reader it is no more than a buffer behind, and where
  the indices agree the last byte handed over is the `k`-th. `ReaderInv` states `Shown`
  and `Behind` of every reception the composition listens to.

A stall is no special case of this argument: `ReaderSync` shows that what
`sync_available` skips is a byte the DMA has overwritten, so a reader that is not
lapped is not made to skip anything; and `CaughtUp`, that a reader which has taken the
last published byte is where it would be had it never been lapped. Hence `ReadsInOrder`,
at every lap of the buffer and of the counts. `DueIsWritten` is about every reception,
also those whose indices are not the reader's, and every stall.

**The parsers** (`Parsers_proofs`), for any frames, sizes and damages the assumptions
of the modules admit.
* CRSF: `ParserInv` bounds every place in the frame by the buffer. `GoodInv`: a parser
  that has a frame from its first byte on is where the transmitter is and has stored
  what it needs of it; this gives `FramesRecognised`. `AstrayInv`: what a misled parser
  still waits for ends before the horizon, which is what makes `BackInStep` inductive.
* SBUS: `SilenceInv` ties the age of the parser's last byte to the silence on the line,
  which the parser sees only at polls. `FrameInv`: of a frame that is whole so far the
  parser has counted all bytes from the header on; of a broken one it has fewer.
  `WaitingInv` says the same of each byte that still waits in the UART, since a poll
  hands over bytes of different frames under one date; `DisturbedInv` orders the
  tags of those bytes. `FramesExact` speaks of the last byte only and is not inductive.
  The theorem needs the timing of `SbusAssumption` and nothing more.

**The parts** (`Parts_proofs`). `PartsRefined`: `Parts` implements each of the five
specifications, so what is proved of one holds in it, and the run's properties are
stated as theorems of `Parts`.
* *Task*: `TaskInv` bounds the age of a valid frame in the mailbox by the timeout and
  what the task has waited since (`TaskFresh`), and has a notification or an iteration
  under way for every frame not yet seen (`TaskServed`).
* *Mapper*: `ScaledRange`, `ScaledEnd` and `ScaledOrder` say of the truncating division
  that it stays in range, reaches the end and keeps order; `CenteredFollows`,
  `UnipolarFollows` and `SwitchesFollow` carry it through the modes and
  across the deadband, `MappedFollows` through the reversal. `MapperCorrect` holds for
  every entry the code accepts, not only for the profiles of the run.
* *Packet*: `RoundTrip`, decoding an encoded packet gives the packet with its unused
  payload cleared, and `AcceptedIsPacket`, whatever passes the checks has every field
  in its range. `PacketSound` (`AcceptedIsSound`) combines them; it holds however weak
  the checksum is.
* *Checksum*: `ShiftByteBack`, no two registers become one in the eight shifts of a
  byte, and `LowerHalfTells`, two that agree in the lower half before and after them are
  one; so registers that differ stay different over equal bytes, and `NeighboursTold`,
  two different bytes never cancel the difference of the two before. `FitsTells`
  carries this to frames, including damage in the checksum field itself. The induction
  along the frame is one over the set of good positions (`Induct`). It gives
  `PacketDamageFound`: damage to two neighbouring bytes, whatever it is and wherever it
  is, is found, in every packet.
* *Tears*: a frame torn from two packets can differ from each in any number of bytes,
  and no 16-bit checksum finds all such differences. `PacketWasSent` therefore assumes
  `TearsFound` of the packets that are sent and concludes `AcceptedWasSent`;
  `NeighboursNotTorn` proves that packets which differ in two neighbouring bytes only,
  such as requests with different sequence numbers and the same payload, satisfy it.

**Only model-checked.** Liveness (`ExchangeEnds`, `ResponderListens`, `BytesReachProtocol`,
`ReceptionRecovers`, `SilenceDisables`, `PendingIsSent`, `TransmissionGoesOn`,
`OperationEnds`): fairness is beyond the prover. So is the induction that would tell
which sets of packets satisfy `TearsFound`; TLC evaluates it for those of the run.

## 5. Not modelled

* Of the SX128x driver: opcode framing, the BUSY wait, reset and the LoRa
  configuration, which run once at start-up; of its port: SPI and GPIO access. The
  commands used afterwards, their failures and the DIO1 count are in `Sx128xAdapter`.
* The unpacking of the sixteen channels, the arithmetic of CRC-8, and with them the
  channels that a CRSF RC frame of the wrong length would yield: the code does not
  compare the length (`crsf_protocol.c:166`), although `ROADMAP.md:23` lists "exact
  RC-frame length validation", and the parser ignores the time
  (`crsf_protocol.c:90`), although `ROADMAP.md:25` lists "parser timeout and
  recovery". `CrsfParser` models what the code does in both cases.
* The payloads of telemetry frames and their encoders.
* The mapper's loop over its entries and its mask of available functions.
* Deleting the FreeRTOS task under a running interrupt: no caller exists.
* Time and logging ports, PC demo, board validation: sequential I/O and start-up.
* CubeIDE projects: generated start-up code and the vendor's HAL and CMSIS headers,
  which are all but a few thousand of the repository's lines. The
  HAL functions through which UART, DMA and tick reach the firmware are mapped to their
  source; the peripherals, the line and EXTI are external.

## 6. Plan

Done: the link with its two abstract specifications, the radio adapter, reception,
both parsers, the mapper, control, telemetry, the receiver task, their runs, and a
proof of every safety property the passing runs check.

Left, should the code or the prover change:
1. A repair of finding 2 turns `Aligned` in `ReadsNextByte` into TRUE; `DueIsWritten`
   has the invariant its proof needs.
2. The same for the exchange's other end: how many steps the responder is from
   listening, as `ExchangesAdvance` counts the initiator's.
3. The liveness properties, once the prover handles fairness; `ExchangesAdvance`,
   `PollsShorten` and `PollsFindWork` are their safety half.
