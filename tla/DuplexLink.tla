----------------------------- MODULE DuplexLink -----------------------------
(***************************************************************************)
(* The half-duplex request/response link of the STM32F401 firmware: one    *)
(* initiator and one responder, each a DuplexLinkService polled by its     *)
(* main loop above an SX128x radio adapter, and the radio channel between  *)
(* the two chips.                                                          *)
(*                                                                         *)
(* One poll of the main loop is app_main_process: it calls                 *)
(* duplex_link_service_process (the adapter's process, one handler per     *)
(* adapter event, process_timeouts, process_state_action), drains the      *)
(* service's events and, on the initiator, may start a request.  pc[n]     *)
(* says how far node n is in its poll; the chips, the channel and the      *)
(* other node take their steps at any point of it.                         *)
(*                                                                         *)
(* Abstractions.  A frame is its message type, its source, the sequence    *)
(* number it carries (a response: the one it acknowledges) and, as a       *)
(* ghost, the exchange it belongs to.  Elapsed-time tests are the flag     *)
(* expired[n], cleared when the service restarts its timer and set by      *)
(* Tick at any later moment.  Counters of the statistics are left out.     *)
(***************************************************************************)
EXTENDS Integers, Sequences

CONSTANTS
  MessageTypes,     \* the request types the application starts
  MaxRetries,       \* DuplexLinkConfig.max_retries
  SeqModulus,       \* next_sequence is a uint16_t: 65536 in the firmware
  InitialSequence,  \* DuplexLinkConfig.initial_sequence
  CountModulus,     \* attempt_count is a uint8_t: 256 in the firmware
  EventCapacity,    \* DUPLEX_LINK_EVENT_CAPACITY
  RestartNodes,     \* the nodes that may lose power
  \* Bounds of the model.
  MaxExchanges,     \* requests the application starts
  MaxFaults,        \* failing SPI commands
  MaxJunk,          \* frames of other transmitters
  MaxRestarts       \* power cycles

Initiator == "initiator"
Responder == "responder"
Node == {Initiator, Responder}
Peer(n) == IF n = Initiator THEN Responder ELSE Initiator

ASSUME TypesAssumption == MessageTypes \subseteq {"DATA", "PING"}
ASSUME SequenceAssumption ==
  SeqModulus \in Nat \ {0} /\ InitialSequence \in 0..(SeqModulus - 1)
ASSUME CountAssumption ==
  /\ MaxRetries \in Nat
  /\ CountModulus \in Nat \ {0}
  /\ EventCapacity \in Nat
ASSUME RestartAssumption == RestartNodes \subseteq Node
ASSUME BoundAssumption ==
  /\ MaxExchanges \in Nat
  /\ MaxFaults \in Nat
  /\ MaxJunk \in Nat
  /\ MaxRestarts \in Nat

VARIABLES
  \* DuplexLinkService, both roles
  state, expired, eventCount, pc,
  \* DuplexLinkService, initiator
  active, pending, retries, attempts, nextSeq,
  \* DuplexLinkService, responder
  last, cached,
  \* Sx128xPacketRadio
  radio, radioEvents, rxFrame,
  \* SX128x chip
  mode, irq, rxBuffer, txBuffer,
  \* ghosts: exchanges started, requests the responder's service published
  \* (since its last restart, and ever), how each exchange ended, and
  \* whether any service event was dropped
  exchange, received, accepted, outcome, dropped,
  \* how much of the bounds is used up
  faults, junk, restarts

initiatorVars == <<active, pending, retries, attempts, nextSeq>>
responderVars == <<last, cached>>
timerVars == <<state, expired>>
queueVars == <<eventCount, dropped>>
adapterVars == <<radio, radioEvents, rxFrame>>
chipVars == <<mode, irq, rxBuffer, txBuffer>>
ghostVars == <<exchange, received, accepted, outcome>>
boundVars == <<faults, junk, restarts>>
vars == <<pc, timerVars, queueVars, initiatorVars, responderVars,
          adapterVars, chipVars, ghostVars, boundVars>>

-----------------------------------------------------------------------------
(* Frames.                                                                 *)

Exchanges == 1..MaxExchanges
RequestType == {"DATA", "PING"}
ResponseType == {"ACK", "PONG"}

Request(t, s, x) == [type |-> t, seq |-> s, xid |-> x]
NoFrame == [type |-> "NONE", seq |-> 0, xid |-> 0]

\* What a foreign transmitter makes the chip receive: a frame that does not
\* decode for this node, one that decodes but is not from the peer, and one
\* whose length is not the configured frame length.
Junk == [type : {"UNDECODABLE", "FOREIGN", "WRONG_LENGTH"}, seq : {0}, xid : {0}]

Requests == [type : RequestType, seq : 0..(SeqModulus - 1), xid : Exchanges]
Responses == [type : ResponseType, seq : 0..(SeqModulus - 1), xid : Exchanges]
Frame == Requests \union Responses \union Junk \union {NoFrame}

ExpectedResponse(t) == IF t = "PING" THEN "PONG" ELSE "ACK"

-----------------------------------------------------------------------------
(* Service helpers.                                                        *)

SetState(n, s) ==
  /\ state' = [state EXCEPT ![n] = s]
  /\ expired' = [expired EXCEPT ![n] = FALSE]

\* Publish k events: the newest are dropped once the queue is full.
Publish(n, k) ==
  /\ eventCount' = [eventCount EXCEPT ![n] =
                      IF @ + k <= EventCapacity THEN @ + k ELSE EventCapacity]
  /\ dropped' = (dropped \/ eventCount[n] + k > EventCapacity)

HasRoom(n) == eventCount[n] < EventCapacity

\* Mutant: a retry starts the exchange over.
RetryOrFail_StartsOver(k) ==
  /\ UNCHANGED <<active, pending, nextSeq, outcome>>
  /\ retries' = 0
  /\ attempts' = 0
  /\ SetState(Initiator, IF active THEN "START_REQUEST_TX" ELSE "IDLE")
  /\ Publish(Initiator, k)

\* The initiator gives up this attempt, after publishing k events.
RetryOrFail(k) ==
  /\ UNCHANGED <<pending, attempts, nextSeq>>
  /\ \/ /\ active /\ retries < MaxRetries
        /\ retries' = retries + 1
        /\ SetState(Initiator, "START_REQUEST_TX")
        /\ Publish(Initiator, k)
        /\ UNCHANGED <<active, outcome>>
     \/ /\ active /\ retries >= MaxRetries
        /\ active' = FALSE
        /\ outcome' = [outcome EXCEPT ![pending.xid] = "failed"]
        /\ SetState(Initiator, "IDLE")
        /\ Publish(Initiator, k + 1)
        /\ UNCHANGED retries
     \/ /\ ~active
        /\ SetState(Initiator, "IDLE")
        /\ Publish(Initiator, k)
        /\ UNCHANGED <<active, outcome, retries>>

\* What a node does with an attempt, or a listening period, that came to
\* nothing.
GiveUp(n, k) ==
  \/ /\ n = Initiator
     /\ RetryOrFail(k)
  \/ /\ n = Responder
     /\ SetState(Responder, "START_RESPONDER_RX")
     /\ Publish(Responder, k)
     /\ UNCHANGED <<initiatorVars, outcome>>

-----------------------------------------------------------------------------
(* Adapter helpers.                                                        *)

Fault == faults < MaxFaults /\ faults' = faults + 1

EnterError(n) ==
  /\ radio' = [radio EXCEPT ![n] = "ERROR"]
  /\ radioEvents' = [radioEvents EXCEPT ![n] = Append(@, "DEVICE_ERROR")]
  /\ rxFrame' = [rxFrame EXCEPT ![n] = NoFrame]

\* The chip drops what it holds of a frame with the interrupt that announced
\* it: no code reads the receive buffer without RX_DONE.
SetIrq(n, bits) ==
  /\ irq' = [irq EXCEPT ![n] = bits]
  /\ rxBuffer' = [rxBuffer EXCEPT ![n] = IF "RX_DONE" \in bits THEN @ ELSE NoFrame]

SetMode(n, m) ==
  /\ mode' = [mode EXCEPT ![n] = m]
  /\ txBuffer' = [txBuffer EXCEPT ![n] = IF m = "TX" THEN @ ELSE NoFrame]

\* Mutant: recover leaves the adapter's own state as it was.
Recovered_StateKept(n) ==
  /\ UNCHANGED radio
  /\ radioEvents' = [radioEvents EXCEPT ![n] = <<>>]
  /\ rxFrame' = [rxFrame EXCEPT ![n] = NoFrame]
  /\ SetMode(n, "STANDBY")
  /\ SetIrq(n, {})

\* recover: empty queue, standby, interrupts cleared.
Recovered(n) ==
  /\ radio' = [radio EXCEPT ![n] = "IDLE"]
  /\ radioEvents' = [radioEvents EXCEPT ![n] = <<>>]
  /\ rxFrame' = [rxFrame EXCEPT ![n] = NoFrame]
  /\ SetMode(n, "STANDBY")
  /\ SetIrq(n, {})

ToSend(n) == IF n = Initiator THEN pending ELSE cached

\* After a command that failed, the chip is in one of these modes: the command
\* may have reached it all the same.
LeftIn(n, modes) ==
  \E m \in modes :
    /\ mode' = [mode EXCEPT ![n] = m]
    /\ txBuffer' = [txBuffer EXCEPT ![n] =
                       IF m # "TX" THEN NoFrame
                       ELSE IF mode[n] # "TX" THEN ToSend(n) ELSE @]

\* recover fails at set_standby, or after it at clear_irq_status.
RecoverFails(n, modes) ==
  /\ radio' = [radio EXCEPT ![n] = "ERROR"]
  /\ radioEvents' = [radioEvents EXCEPT ![n] = <<"DEVICE_ERROR">>]
  /\ rxFrame' = [rxFrame EXCEPT ![n] = NoFrame]
  /\ LeftIn(n, modes \union {"STANDBY"})
  /\ UNCHANGED <<irq, rxBuffer>>

-----------------------------------------------------------------------------
(* packet_radio_process: the first thing a poll does.                      *)

FirstIrq(bits) ==
  IF "CRC_ERROR" \in bits THEN "CRC_ERROR"
  ELSE IF "RX_TX_TIMEOUT" \in bits THEN "RX_TX_TIMEOUT"
  ELSE IF "RX_DONE" \in bits THEN "RX_DONE"
  ELSE "TX_DONE"

RadioEventOf(bit) == IF bit = "RX_TX_TIMEOUT" THEN "RX_TIMEOUT" ELSE bit

\* The adapter state in which an interrupt is not UNEXPECTED_IRQ.
ExpectedIn(bit) == IF bit = "TX_DONE" THEN "TX" ELSE "RX"

\* Mutant: process is called whether or not its events have been taken.
CallsProcess_Undrained(n) ==
  /\ pc[n] = "app"
  /\ state[n] # "ERROR"
  /\ pc' = [pc EXCEPT ![n] = "process"]

\* The main loop calls process again once the application has drained the
\* events of the last call; in ERROR process returns at once.
CallsProcess(n) ==
  /\ pc[n] = "app" /\ eventCount[n] = 0
  /\ state[n] # "ERROR"
  /\ pc' = [pc EXCEPT ![n] = "process"]

\* The adapter has nothing to do in ERROR, or without a DIO1 event that
\* announces an interrupt.
PollQuiet(n) ==
  /\ CallsProcess(n)
  /\ radio[n] = "ERROR" \/ irq[n] = {}
  /\ UNCHANGED <<timerVars, queueVars, initiatorVars, responderVars,
                 adapterVars, chipVars, ghostVars, boundVars>>

\* Mutant: an interrupt is believed whatever the adapter was doing.
PollIrq_Unexpected(n) ==
  LET bit == FirstIrq(irq[n]) IN
  /\ CallsProcess(n)
  /\ radio[n] # "ERROR" /\ irq[n] # {}
  /\ radio' = [radio EXCEPT ![n] = "IDLE"]
  /\ radioEvents' = [radioEvents EXCEPT ![n] = Append(@, RadioEventOf(bit))]
  /\ rxFrame' = [rxFrame EXCEPT ![n] = IF bit = "RX_DONE" THEN rxBuffer[n] ELSE @]
  /\ SetIrq(n, {})
  /\ UNCHANGED <<timerVars, queueVars, initiatorVars, responderVars,
                 mode, txBuffer, ghostVars, boundVars>>

PollIrq(n) ==
  LET bit == FirstIrq(irq[n])
      readable == bit # "RX_DONE" \/ rxBuffer[n].type # "WRONG_LENGTH"
  IN
  /\ CallsProcess(n)
  /\ radio[n] # "ERROR" /\ irq[n] # {}
  /\ IF radio[n] = ExpectedIn(bit) /\ readable
       THEN /\ radio' = [radio EXCEPT ![n] = "IDLE"]
            /\ radioEvents' = [radioEvents EXCEPT ![n] = Append(@, RadioEventOf(bit))]
            /\ rxFrame' = [rxFrame EXCEPT ![n] =
                             IF bit = "RX_DONE" THEN rxBuffer[n]
                             ELSE IF bit = "CRC_ERROR" THEN NoFrame ELSE @]
       ELSE EnterError(n)
  /\ SetIrq(n, {})
  /\ UNCHANGED <<timerVars, queueVars, initiatorVars, responderVars,
                 mode, txBuffer, ghostVars, boundVars>>

\* An SPI command of process fails, before or after the interrupts are
\* cleared.
PollFault(n) ==
  /\ CallsProcess(n)
  /\ radio[n] # "ERROR"
  /\ Fault
  /\ EnterError(n)
  /\ \E bits \in {irq[n], {}} : SetIrq(n, bits)
  /\ UNCHANGED <<timerVars, queueVars, initiatorVars, responderVars,
                 mode, txBuffer, ghostVars, junk, restarts>>

-----------------------------------------------------------------------------
(* duplex_link_handle_radio_event, once per event in the adapter's queue.  *)

Next1(n, e) == pc[n] = "process" /\ radioEvents[n] # <<>> /\ Head(radioEvents[n]) = e

Taken(n) == radioEvents' = [radioEvents EXCEPT ![n] = Tail(@)]

HandleTxDone(n) ==
  /\ Next1(n, "TX_DONE")
  /\ Taken(n)
  /\ IF state[n] = "WAIT_REQUEST_TX_DONE"
       THEN SetState(n, "START_RESPONSE_RX")
       ELSE IF state[n] = "WAIT_RESPONSE_TX_DONE"
       THEN SetState(n, "START_RESPONDER_RX")
       ELSE UNCHANGED timerVars
  /\ UNCHANGED <<pc, queueVars, initiatorVars, responderVars, radio, rxFrame,
                 chipVars, ghostVars, boundVars>>

\* The frame read_rx_frame hands over and empties.
TakeFrame(n) ==
  /\ Next1(n, "RX_DONE")
  /\ Taken(n)
  /\ rxFrame' = [rxFrame EXCEPT ![n] = NoFrame]
  /\ UNCHANGED <<pc, radio, chipVars, boundVars>>

\* decode, source and message type are checked in this order, all with the
\* same consequence.
RejectRequest(n) ==
  /\ n = Responder /\ TakeFrame(n)
  /\ state[Responder] = "RESPONDER_RX"
  /\ rxFrame[Responder].type \notin RequestType
  /\ SetState(Responder, "START_RESPONDER_RX")
  /\ Publish(Responder, 1)
  /\ UNCHANGED <<initiatorVars, responderVars, ghostVars>>

\* Mutant: no duplicate suppression.
IsDuplicate_Never(f) == FALSE

\* has_last_remote_sequence and last_remote_sequence: last is the last
\* request accepted, NoFrame before the first.
IsDuplicate(f) == last # NoFrame /\ f.seq = last.seq

SuppressDuplicate(n) ==
  /\ n = Responder /\ TakeFrame(n)
  /\ state[Responder] = "RESPONDER_RX"
  /\ rxFrame[Responder].type \in RequestType
  /\ IsDuplicate(rxFrame[Responder])
  /\ SetState(Responder, IF cached # NoFrame THEN "START_RESPONSE_TX"
                                             ELSE "START_RESPONDER_RX")
  /\ Publish(Responder, 1)
  /\ UNCHANGED <<initiatorVars, responderVars, ghostVars>>

AcceptRequest(n) ==
  LET f == rxFrame[Responder] IN
  /\ n = Responder /\ TakeFrame(n)
  /\ state[Responder] = "RESPONDER_RX"
  /\ f.type \in RequestType
  /\ ~IsDuplicate(f)
  /\ last' = f
  /\ cached' = Request(ExpectedResponse(f.type), f.seq, f.xid)
  /\ IF HasRoom(Responder)
       THEN /\ received' = [received EXCEPT ![f.xid] = @ + 1]
            /\ accepted' = accepted \union {f.xid}
       ELSE UNCHANGED <<received, accepted>>
  /\ SetState(Responder, "START_RESPONSE_TX")
  /\ Publish(Responder, 1)
  /\ UNCHANGED <<initiatorVars, exchange, outcome>>

\* Mutant: any acknowledgement of the right type will do.
Answers_AnySequence(f) == f.type = ExpectedResponse(pending.type)

\* The frame answers the pending request: decode, source, message type and
\* acknowledged sequence, in this order.
Answers(f) == f.type = ExpectedResponse(pending.type) /\ f.seq = pending.seq

RejectResponse(n) ==
  /\ n = Initiator /\ TakeFrame(n)
  /\ state[Initiator] = "WAIT_RESPONSE" /\ active
  /\ ~Answers(rxFrame[Initiator])
  /\ RetryOrFail(1)
  /\ UNCHANGED <<responderVars, exchange, received, accepted>>

AcceptResponse(n) ==
  /\ n = Initiator /\ TakeFrame(n)
  /\ state[Initiator] = "WAIT_RESPONSE" /\ active
  /\ Answers(rxFrame[Initiator])
  /\ active' = FALSE
  /\ outcome' = [outcome EXCEPT ![pending.xid] = "succeeded"]
  /\ SetState(Initiator, "IDLE")
  /\ Publish(Initiator, 1)
  /\ UNCHANGED <<pending, retries, attempts, nextSeq, responderVars,
                 exchange, received, accepted>>

HandleRxTimeout(n) ==
  /\ Next1(n, "RX_TIMEOUT")
  /\ Taken(n)
  /\ IF n = Responder \/ state[n] = "WAIT_RESPONSE"
       THEN GiveUp(n, 0)
       ELSE UNCHANGED <<timerVars, queueVars, initiatorVars, outcome>>
  /\ UNCHANGED <<pc, responderVars, radio, rxFrame, chipVars,
                 exchange, received, accepted, boundVars>>

HandleCrcError(n) ==
  /\ Next1(n, "CRC_ERROR")
  /\ Taken(n)
  /\ IF n = Responder \/ active
       THEN GiveUp(n, 0)
       ELSE UNCHANGED <<timerVars, queueVars, initiatorVars, outcome>>
  /\ UNCHANGED <<pc, responderVars, radio, rxFrame, chipVars,
                 exchange, received, accepted, boundVars>>

HandleDeviceError(n) ==
  /\ Next1(n, "DEVICE_ERROR")
  /\ \/ /\ Recovered(n)
        /\ GiveUp(n, 1)
        /\ UNCHANGED <<pc, faults>>
     \/ /\ Fault
        /\ RecoverFails(n, {mode[n]})
        /\ SetState(n, "ERROR")
        /\ Publish(n, 1)
        /\ pc' = [pc EXCEPT ![n] = "app"]
        /\ UNCHANGED <<initiatorVars, outcome>>
  /\ UNCHANGED <<responderVars, exchange, received, accepted, junk, restarts>>

-----------------------------------------------------------------------------
(* duplex_link_process_timeouts, once the adapter's queue is empty.        *)

\* Mutant: the responder's own transmission has no timeout.
TimedStates_NoResponderTx == {"WAIT_RESPONSE", "WAIT_REQUEST_TX_DONE"}

TimedStates == {"WAIT_RESPONSE", "WAIT_REQUEST_TX_DONE", "WAIT_RESPONSE_TX_DONE"}
TimedOut(n) == state[n] \in TimedStates /\ expired[n]

EventsDone(n) == pc[n] = "process" /\ radioEvents[n] = <<>>

ProcessTimeout(n) ==
  /\ EventsDone(n) /\ TimedOut(n)
  /\ Recovered(n)
  /\ GiveUp(n, 0)
  /\ UNCHANGED <<pc, responderVars, exchange, received, accepted, boundVars>>

\* duplex_link_recover_radio when recover fails.
RadioLost(n, modes) ==
  /\ Fault
  /\ RecoverFails(n, modes)
  /\ SetState(n, "ERROR")
  /\ Publish(n, 1)
  /\ pc' = [pc EXCEPT ![n] = "app"]
  /\ UNCHANGED <<initiatorVars, responderVars, ghostVars, junk, restarts>>

TimeoutRadioLost(n) ==
  /\ EventsDone(n) /\ TimedOut(n)
  /\ RadioLost(n, {mode[n]})

-----------------------------------------------------------------------------
(* duplex_link_process_state_action: the last thing process does.          *)

StartStates == {"START_REQUEST_TX", "START_RESPONSE_RX",
                "START_RESPONDER_RX", "START_RESPONSE_TX"}

\* process_timeouts has found nothing to do, or has left a state without a
\* timeout: process_state_action acts on the state, and process returns.
Acts(n, states) ==
  /\ EventsDone(n) /\ ~TimedOut(n)
  /\ state[n] \in states
  /\ pc' = [pc EXCEPT ![n] = "app"]

NoAction(n) ==
  /\ Acts(n, {"IDLE", "RESPONDER_RX"} \union TimedStates)
  /\ UNCHANGED <<timerVars, queueVars, initiatorVars, responderVars,
                 adapterVars, chipVars, ghostVars, boundVars>>

\* try_start_tx clears the interrupts, writes the buffer and sets TX.  A chip
\* left in continuous receive may complete one more frame in between.
StartTx(n) ==
  /\ Acts(n, {"START_REQUEST_TX", "START_RESPONSE_TX"})
  /\ radio[n] = "IDLE" /\ ToSend(n) # NoFrame
  /\ radio' = [radio EXCEPT ![n] = "TX"]
  /\ mode' = [mode EXCEPT ![n] = "TX"]
  /\ txBuffer' = [txBuffer EXCEPT ![n] = ToSend(n)]
  /\ \E raced \in {TRUE, FALSE} :
       /\ raced => mode[n] = "RX_CONTINUOUS"
       /\ irq' = [irq EXCEPT ![n] = IF raced THEN {"RX_DONE"} ELSE {}]
       /\ rxBuffer' = [rxBuffer EXCEPT ![n] = NoFrame]
  /\ IF n = Initiator
       THEN /\ attempts' = (attempts + 1) % CountModulus
            /\ SetState(n, "WAIT_REQUEST_TX_DONE")
       ELSE /\ SetState(n, "WAIT_RESPONSE_TX_DONE")
            /\ UNCHANGED attempts
  /\ UNCHANGED <<queueVars, active, pending, retries, nextSeq, responderVars,
                 radioEvents, rxFrame, ghostVars, boundVars>>

\* Mutant: the responder listens with a timed receive.
StartRx_Timed(n) ==
  /\ Acts(n, {"START_RESPONSE_RX", "START_RESPONDER_RX"})
  /\ radio[n] = "IDLE" /\ rxFrame[n] = NoFrame
  /\ radio' = [radio EXCEPT ![n] = "RX"]
  /\ SetIrq(n, {})
  /\ SetMode(n, "RX")
  /\ SetState(n, IF n = Initiator THEN "WAIT_RESPONSE" ELSE "RESPONDER_RX")
  /\ UNCHANGED <<queueVars, initiatorVars, responderVars,
                 radioEvents, rxFrame, ghostVars, boundVars>>

\* try_start_rx: a timed receive for a response, a continuous one for
\* requests.
StartRx(n) ==
  /\ Acts(n, {"START_RESPONSE_RX", "START_RESPONDER_RX"})
  /\ radio[n] = "IDLE" /\ rxFrame[n] = NoFrame
  /\ radio' = [radio EXCEPT ![n] = "RX"]
  /\ SetIrq(n, {})
  /\ IF state[n] = "START_RESPONSE_RX"
       THEN SetMode(n, "RX") /\ SetState(n, "WAIT_RESPONSE")
       ELSE SetMode(n, "RX_CONTINUOUS") /\ SetState(n, "RESPONDER_RX")
  /\ UNCHANGED <<queueVars, initiatorVars, responderVars,
                 radioEvents, rxFrame, ghostVars, boundVars>>

StartMode(n) ==
  IF state[n] \in {"START_REQUEST_TX", "START_RESPONSE_TX"} THEN "TX"
  ELSE IF state[n] = "START_RESPONSE_RX" THEN "RX" ELSE "RX_CONTINUOUS"

\* An SPI command of try_start_tx or try_start_rx fails: the command that
\* starts the chip may have reached it all the same.  The DEVICE_ERROR event
\* is left for the next poll.
StartFails(n) ==
  /\ Acts(n, StartStates) /\ ~expired[n]
  /\ Fault
  /\ EnterError(n)
  /\ LeftIn(n, {mode[n], StartMode(n)})
  /\ \E bits \in {irq[n], {}} : SetIrq(n, bits)
  /\ UNCHANGED <<timerVars, queueVars, initiatorVars, responderVars, ghostVars,
                 junk, restarts>>

\* The start fails after the operation timeout: recover in the same call.
\* START_REQUEST_TX only restarts its timer, without using up a retry.
StartFailsExpired(n) ==
  /\ Acts(n, StartStates) /\ expired[n]
  /\ Fault
  /\ Recovered(n)
  /\ \/ /\ state[n] = "START_RESPONSE_RX"
        /\ RetryOrFail(0)
     \/ /\ state[n] # "START_RESPONSE_RX"
        /\ SetState(n, IF n = Initiator THEN state[n] ELSE "START_RESPONDER_RX")
        /\ UNCHANGED <<queueVars, initiatorVars, outcome>>
  /\ UNCHANGED <<responderVars, exchange, received, accepted, junk, restarts>>

StartRadioLost(n) ==
  /\ Acts(n, StartStates) /\ expired[n]
  /\ RadioLost(n, {mode[n], StartMode(n)})

-----------------------------------------------------------------------------
(* app_main_process after duplex_link_service_process: drain the events,   *)
(* then perhaps start a request.                                           *)

AppDrain(n) ==
  /\ pc[n] = "app" /\ eventCount[n] > 0
  /\ eventCount' = [eventCount EXCEPT ![n] = 0]
  /\ UNCHANGED <<pc, timerVars, dropped, initiatorVars, responderVars,
                 adapterVars, chipVars, ghostVars, boundVars>>

\* The environment assumption behind a 16-bit sequence number: neither the
\* last request the responder accepted nor a frame it still holds is a whole
\* cycle of sequence numbers older than the request about to start.
HeldByResponder == {last, cached, rxFrame[Responder], rxBuffer[Responder],
                    txBuffer[Responder]}
NoFullCycle ==
  \A f \in HeldByResponder : f.xid # 0 => exchange + 1 - f.xid < SeqModulus

\* Mutant: next_sequence is not advanced.
StartRequest_SameSequence(t) ==
  /\ pc[Initiator] = "app" /\ eventCount[Initiator] = 0
  /\ state[Initiator] = "IDLE" /\ ~active
  /\ exchange < MaxExchanges /\ NoFullCycle
  /\ exchange' = exchange + 1
  /\ pending' = Request(t, nextSeq, exchange + 1)
  /\ active' = TRUE
  /\ retries' = 0
  /\ attempts' = 0
  /\ SetState(Initiator, "START_REQUEST_TX")
  /\ UNCHANGED <<pc, queueVars, nextSeq, responderVars, adapterVars, chipVars,
                 received, accepted, outcome, boundVars>>

StartRequest(t) ==
  /\ pc[Initiator] = "app" /\ eventCount[Initiator] = 0
  /\ state[Initiator] = "IDLE" /\ ~active
  /\ exchange < MaxExchanges /\ NoFullCycle
  /\ exchange' = exchange + 1
  /\ pending' = Request(t, nextSeq, exchange + 1)
  /\ nextSeq' = (nextSeq + 1) % SeqModulus
  /\ active' = TRUE
  /\ retries' = 0
  /\ attempts' = 0
  /\ SetState(Initiator, "START_REQUEST_TX")
  /\ UNCHANGED <<pc, queueVars, responderVars, adapterVars, chipVars,
                 received, accepted, outcome, boundVars>>

-----------------------------------------------------------------------------
(* Time, the chips, the channel and power.                                 *)

Tick(n) ==
  /\ ~expired[n]
  /\ state[n] \in TimedStates \union StartStates
  /\ expired' = [expired EXCEPT ![n] = TRUE]
  /\ UNCHANGED <<pc, state, queueVars, initiatorVars, responderVars,
                 adapterVars, chipVars, ghostVars, boundVars>>

Listening(n) == mode[n] \in {"RX", "RX_CONTINUOUS"}

\* A timed receive ends with the frame it receives, a continuous one goes on.
AfterRx(n) == IF mode[n] = "RX" THEN "STANDBY" ELSE mode[n]

\* The chip finishes sending.  A listening peer receives the frame, receives
\* it damaged, or misses it.
TxEnd(n) ==
  LET p == Peer(n) IN
  /\ mode[n] = "TX"
  /\ txBuffer' = [txBuffer EXCEPT ![n] = NoFrame]
  /\ \/ /\ Listening(p)
        /\ mode' = [mode EXCEPT ![n] = "STANDBY", ![p] = AfterRx(p)]
        /\ \/ /\ irq' = [irq EXCEPT ![n] = @ \union {"TX_DONE"},
                                    ![p] = @ \union {"RX_DONE"}]
              /\ rxBuffer' = [rxBuffer EXCEPT ![p] = txBuffer[n]]
           \/ /\ irq' = [irq EXCEPT ![n] = @ \union {"TX_DONE"},
                                    ![p] = @ \union {"RX_DONE", "CRC_ERROR"}]
              /\ UNCHANGED rxBuffer
     \/ /\ mode' = [mode EXCEPT ![n] = "STANDBY"]
        /\ irq' = [irq EXCEPT ![n] = @ \union {"TX_DONE"}]
        /\ UNCHANGED rxBuffer
  /\ UNCHANGED <<pc, timerVars, queueVars, initiatorVars, responderVars,
                 adapterVars, ghostVars, boundVars>>

\* The chip's own timer ends a transmission or a timed receive.
ChipTimeout(n) ==
  /\ mode[n] \in {"TX", "RX"}
  /\ SetMode(n, "STANDBY")
  /\ irq' = [irq EXCEPT ![n] = @ \union {"RX_TX_TIMEOUT"}]
  /\ UNCHANGED <<pc, timerVars, queueVars, initiatorVars, responderVars,
                 adapterVars, rxBuffer, ghostVars, boundVars>>

ReceiveJunk(n) ==
  /\ Listening(n) /\ junk < MaxJunk
  /\ junk' = junk + 1
  /\ mode' = [mode EXCEPT ![n] = AfterRx(n)]
  /\ irq' = [irq EXCEPT ![n] = @ \union {"RX_DONE"}]
  /\ \E f \in Junk : rxBuffer' = [rxBuffer EXCEPT ![n] = f]
  /\ UNCHANGED <<pc, timerVars, queueVars, initiatorVars, responderVars,
                 adapterVars, txBuffer, ghostVars, faults, restarts>>

FirstState(n) == IF n = Initiator THEN "IDLE" ELSE "START_RESPONDER_RX"

\* A power cycle: app_main_init resets the chip and initialises adapter and
\* service.  An exchange in progress is forgotten.
Restart(n) ==
  /\ n \in RestartNodes /\ restarts < MaxRestarts
  /\ restarts' = restarts + 1
  /\ SetState(n, FirstState(n))
  /\ eventCount' = [eventCount EXCEPT ![n] = 0]
  /\ Recovered(n)
  /\ pc' = [pc EXCEPT ![n] = "app"]
  /\ IF n = Initiator
       THEN /\ active' = FALSE
            /\ pending' = NoFrame
            /\ retries' = 0
            /\ attempts' = 0
            /\ nextSeq' = InitialSequence
            /\ UNCHANGED <<responderVars, received>>
       ELSE /\ last' = NoFrame
            /\ cached' = NoFrame
            /\ received' = [x \in Exchanges |-> 0]
            /\ UNCHANGED initiatorVars
  /\ UNCHANGED <<dropped, exchange, accepted, outcome, faults, junk>>

-----------------------------------------------------------------------------

Init ==
  /\ state = [n \in Node |-> FirstState(n)]
  /\ expired = [n \in Node |-> FALSE]
  /\ eventCount = [n \in Node |-> 0]
  /\ pc = [n \in Node |-> "app"]
  /\ active = FALSE
  /\ pending = NoFrame
  /\ retries = 0
  /\ attempts = 0
  /\ nextSeq = InitialSequence
  /\ last = NoFrame
  /\ cached = NoFrame
  /\ radio = [n \in Node |-> "IDLE"]
  /\ radioEvents = [n \in Node |-> <<>>]
  /\ rxFrame = [n \in Node |-> NoFrame]
  /\ mode = [n \in Node |-> "STANDBY"]
  /\ irq = [n \in Node |-> {}]
  /\ rxBuffer = [n \in Node |-> NoFrame]
  /\ txBuffer = [n \in Node |-> NoFrame]
  /\ exchange = 0
  /\ received = [x \in Exchanges |-> 0]
  /\ accepted = {}
  /\ outcome = [x \in Exchanges |-> "none"]
  /\ dropped = FALSE
  /\ faults = 0 /\ junk = 0 /\ restarts = 0

Process(n) ==
  \/ PollQuiet(n) \/ PollIrq(n) \/ PollFault(n)
  \/ HandleTxDone(n) \/ HandleRxTimeout(n) \/ HandleCrcError(n)
  \/ HandleDeviceError(n)
  \/ RejectRequest(n) \/ SuppressDuplicate(n) \/ AcceptRequest(n)
  \/ RejectResponse(n) \/ AcceptResponse(n)
  \/ ProcessTimeout(n) \/ TimeoutRadioLost(n)
  \/ NoAction(n) \/ StartTx(n) \/ StartRx(n)
  \/ StartFails(n) \/ StartFailsExpired(n) \/ StartRadioLost(n)

Chip(n) == TxEnd(n) \/ ChipTimeout(n) \/ ReceiveJunk(n)

Next ==
  \/ \E n \in Node :
       Process(n) \/ AppDrain(n) \/ Tick(n) \/ Chip(n) \/ Restart(n)
  \/ \E t \in MessageTypes : StartRequest(t)

Spec == Init /\ [][Next]_vars
-----------------------------------------------------------------------------
ServiceStates == {"IDLE", "ERROR", "RESPONDER_RX"} \union TimedStates \union StartStates
Interrupts == {"TX_DONE", "RX_DONE", "CRC_ERROR", "RX_TX_TIMEOUT"}
RadioEvents == {"TX_DONE", "RX_DONE", "CRC_ERROR", "RX_TIMEOUT", "DEVICE_ERROR"}

TypeOK ==
  /\ state \in [Node -> ServiceStates]
  /\ expired \in [Node -> BOOLEAN]
  /\ eventCount \in [Node -> 0..EventCapacity]
  /\ pc \in [Node -> {"app", "process"}]
  /\ active \in BOOLEAN
  /\ pending \in Requests \union {NoFrame}
  /\ retries \in 0..MaxRetries
  /\ attempts \in 0..(CountModulus - 1)
  /\ nextSeq \in 0..(SeqModulus - 1)
  /\ last \in Requests \union {NoFrame}
  /\ cached \in Responses \union {NoFrame}
  /\ radio \in [Node -> {"IDLE", "TX", "RX", "ERROR"}]
  /\ radioEvents \in [Node -> Seq(RadioEvents)]
  /\ rxFrame \in [Node -> Frame]
  /\ mode \in [Node -> {"STANDBY", "TX", "RX", "RX_CONTINUOUS"}]
  /\ irq \in [Node -> SUBSET Interrupts]
  /\ rxBuffer \in [Node -> Frame]
  /\ txBuffer \in [Node -> Frame]
  /\ exchange \in 0..MaxExchanges
  /\ received \in [Exchanges -> Nat]
  /\ accepted \in SUBSET Exchanges
  /\ outcome \in [Exchanges -> {"none", "succeeded", "failed"}]
  /\ dropped \in BOOLEAN
  /\ faults \in 0..MaxFaults
  /\ junk \in 0..MaxJunk
  /\ restarts \in 0..MaxRestarts

\* The initiator reports EXCHANGE_SUCCEEDED only for a request the responder's
\* service has published: duplicates, late and lost responses, retries, radio
\* faults and responder restarts never make it accept a wrong response.
SuccessImpliesAccepted ==
  \A x \in Exchanges : outcome[x] = "succeeded" => x \in accepted

\* A responder publishes REQUEST_RECEIVED at most once for an exchange until it
\* restarts, however often the initiator retries.
AtMostOncePerBoot == \A x \in Exchanges : received[x] <= 1

\* A request the responder suppresses as a duplicate is one it has been handed.
OnlyDuplicatesSuppressed ==
  [][SuppressDuplicate(Responder) => rxFrame[Responder].xid \in accepted]_vars

\* No event of the service is lost to a full queue: what one call of process
\* publishes, and the application drains after it, fits.
NoEventDropped == ~dropped

\* Between two calls of process, the service waits for exactly what the adapter
\* is doing, and an adapter in ERROR has told it so.
WaitingFor(n) ==
  IF state[n] \in {"WAIT_REQUEST_TX_DONE", "WAIT_RESPONSE_TX_DONE"} THEN {"TX"}
  ELSE IF state[n] \in {"WAIT_RESPONSE", "RESPONDER_RX"} THEN {"RX"}
  ELSE IF state[n] \in {"IDLE", "ERROR"} THEN {state[n]}
  ELSE {"IDLE", "ERROR"}

AdapterAgrees ==
  \A n \in Node :
    /\ pc[n] = "app" => radio[n] \in WaitingFor(n)
    /\ radio[n] = "ERROR" => radioEvents[n] = <<"DEVICE_ERROR">>

\* A responder in RESPONDER_RX has no timeout to fall back on: its chip must be
\* receiving, whatever faults, late interrupts and recoveries came before.
ResponderHears ==
  state[Responder] = "RESPONDER_RX" /\ radio[Responder] = "RX"
    => mode[Responder] = "RX_CONTINUOUS"

\* Every adapter event finds the service in the state that asked for it, and
\* RX_DONE finds a frame: the branches of the handlers for anything else (an
\* unreadable frame, a frame nobody waits for) are never taken.
EventExpected ==
  \A n \in Node : radioEvents[n] # <<>> =>
    LET e == Head(radioEvents[n]) IN
    /\ e = "TX_DONE" => state[n] \in {"WAIT_REQUEST_TX_DONE", "WAIT_RESPONSE_TX_DONE"}
    /\ e \in {"RX_DONE", "CRC_ERROR", "RX_TIMEOUT"} =>
         state[n] \in {"WAIT_RESPONSE", "RESPONDER_RX"}
    /\ e = "RX_DONE" => rxFrame[n] # NoFrame
    /\ state[n] = "WAIT_RESPONSE" => active

\* The link implements the exchange the applications rely on.
Abstract == INSTANCE Exchange WITH open <- active
ImplementsExchange == Abstract!Spec

-----------------------------------------------------------------------------
(* Liveness.  Both main loops poll for ever and time passes; nothing is    *)
(* assumed of the chips, the channel and the application.                  *)

FairSpec == /\ Spec
            /\ \A n \in Node : WF_vars(Process(n) \/ AppDrain(n)) /\ WF_vars(Tick(n))

\* Every exchange ends: with success, with failure, or because the radio is
\* lost.
ExchangeEnds == active ~> (~active \/ state[Initiator] = "ERROR")

\* The responder always comes back to listening, unless its radio is lost.
ResponderListens == []<>(state[Responder] \in {"RESPONDER_RX", "ERROR"})
=============================================================================
