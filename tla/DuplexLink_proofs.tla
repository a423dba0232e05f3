-------------------------- MODULE DuplexLink_proofs --------------------------
(***************************************************************************)
(* Type correctness and safety of the radio link, for every value of the   *)
(* constants: IInv of DuplexLinkInvariant is inductive, the safety         *)
(* properties follow from it, and every step of DuplexLink is a step of    *)
(* Exchange or a stutter.  Moves are the ways a step changes where the     *)
(* initiator is in its exchange: each spends some of what is left of it.   *)
(*                                                                         *)
(* The Here lemmas prove one part of IInv each, action by action, for the  *)
(* actions of a node; StartRequestStep proves all parts for the one action *)
(* of the application.                                                     *)
(***************************************************************************)
EXTENDS DuplexLinkInvariant, Modular, TLAPS

-----------------------------------------------------------------------------
(* The helpers.                                                            *)

\* Each helper keeps the types of the variables it changes.
LEMMA SetStateTypes ==
  ASSUME TypeOK, NEW n \in Node, NEW s \in ServiceStates, SetState(n, s)
  PROVE  state' \in [Node -> ServiceStates] /\ expired' \in [Node -> BOOLEAN]
BY DEF TypeOK, SetState

LEMMA PublishTypes ==
  ASSUME TypeOK, NEW n \in Node, NEW k \in Nat, Publish(n, k)
  PROVE  eventCount' \in [Node -> 0..EventCapacity] /\ dropped' \in BOOLEAN
BY CountAssumption DEF TypeOK, Publish

LEMMA RetryOrFailTypes ==
  ASSUME TypeOK, NEW k \in Nat, RetryOrFail(k)
  PROVE  /\ state' \in [Node -> ServiceStates] /\ expired' \in [Node -> BOOLEAN]
         /\ eventCount' \in [Node -> 0..EventCapacity] /\ dropped' \in BOOLEAN
         /\ active' \in BOOLEAN
         /\ retries' \in 0..MaxRetries
         /\ outcome' \in [Exchanges -> {"none", "succeeded", "failed"}]
         /\ UNCHANGED <<pending, attempts, nextSeq>>
<1>1. UNCHANGED <<pending, attempts, nextSeq>>
  BY DEF RetryOrFail
<1>2. CASE active /\ retries < MaxRetries
  <2>0. ~(retries >= MaxRetries)
    BY <1>2, CountAssumption DEF TypeOK
  <2>1. /\ retries' = retries + 1
        /\ SetState(Initiator, "START_REQUEST_TX")
        /\ Publish(Initiator, k)
        /\ UNCHANGED <<active, outcome>>
    BY <1>2, <2>0 DEF RetryOrFail
  <2>2. retries' \in 0..MaxRetries
    BY <1>2, <2>1, CountAssumption DEF TypeOK
  <2> QED
    BY <1>1, <2>1, <2>2, SetStateTypes, PublishTypes
    DEF TypeOK, ServiceStates, StartStates, Node
<1>3. CASE active /\ ~(retries < MaxRetries)
  <2>1. /\ active' = FALSE
        /\ outcome' = [outcome EXCEPT ![pending.xid] = "failed"]
        /\ SetState(Initiator, "IDLE")
        /\ Publish(Initiator, k + 1)
        /\ UNCHANGED retries
    BY <1>3, CountAssumption DEF RetryOrFail, TypeOK
  <2> QED
    BY <1>1, <2>1, SetStateTypes, PublishTypes, k + 1 \in Nat
    DEF TypeOK, ServiceStates, Node
<1>4. CASE ~active
  <2>1. /\ SetState(Initiator, "IDLE")
        /\ Publish(Initiator, k)
        /\ UNCHANGED <<active, outcome, retries>>
    BY <1>4 DEF RetryOrFail
  <2> QED
    BY <1>1, <2>1, SetStateTypes, PublishTypes DEF TypeOK, ServiceStates, Node
<1> QED BY <1>2, <1>3, <1>4 DEF TypeOK

LEMMA EnterErrorTypes ==
  ASSUME TypeOK, NEW n \in Node, EnterError(n)
  PROVE  /\ radio' \in [Node -> {"IDLE", "TX", "RX", "ERROR"}]
         /\ radioEvents' \in [Node -> Seq(RadioEvents)]
         /\ rxFrame' \in [Node -> Frame]
<1>1. Append(radioEvents[n], "DEVICE_ERROR") \in Seq(RadioEvents)
  BY DEF TypeOK, RadioEvents
<1> QED BY <1>1 DEF TypeOK, EnterError, Frame

LEMMA SetIrqTypes ==
  ASSUME TypeOK, NEW n \in Node, NEW bits \in SUBSET Interrupts,
         SetIrq(n, bits)
  PROVE  irq' \in [Node -> SUBSET Interrupts] /\ rxBuffer' \in [Node -> Frame]
BY DEF TypeOK, SetIrq, Frame

ChipModes == {"STANDBY", "TX", "RX", "RX_CONTINUOUS"}

LEMMA SetModeTypes ==
  ASSUME TypeOK, NEW n \in Node, NEW m \in ChipModes, SetMode(n, m)
  PROVE  mode' \in [Node -> ChipModes] /\ txBuffer' \in [Node -> Frame]
BY DEF TypeOK, SetMode, Frame, ChipModes

LEMMA RecoveredTypes ==
  ASSUME TypeOK, NEW n \in Node, Recovered(n)
  PROVE  /\ radio' \in [Node -> {"IDLE", "TX", "RX", "ERROR"}]
         /\ radioEvents' \in [Node -> Seq(RadioEvents)]
         /\ rxFrame' \in [Node -> Frame]
         /\ mode' \in [Node -> ChipModes] /\ txBuffer' \in [Node -> Frame]
         /\ irq' \in [Node -> SUBSET Interrupts] /\ rxBuffer' \in [Node -> Frame]
<1>1. <<>> \in Seq(RadioEvents)
  OBVIOUS
<1>2. SetMode(n, "STANDBY") /\ SetIrq(n, {})
  BY DEF Recovered
<1>3. mode' \in [Node -> ChipModes] /\ txBuffer' \in [Node -> Frame]
  BY <1>2, SetModeTypes DEF ChipModes
<1>4. irq' \in [Node -> SUBSET Interrupts] /\ rxBuffer' \in [Node -> Frame]
  BY <1>2, SetIrqTypes
<1> QED BY <1>1, <1>3, <1>4 DEF TypeOK, Recovered, Frame

LEMMA LeftInTypes ==
  ASSUME TypeOK, NEW n \in Node, NEW modes \in SUBSET ChipModes,
         LeftIn(n, modes)
  PROVE  mode' \in [Node -> ChipModes] /\ txBuffer' \in [Node -> Frame]
<1>1. ToSend(n) \in Frame
  BY DEF TypeOK, ToSend, Frame
<1> QED BY <1>1 DEF TypeOK, LeftIn, Frame, ChipModes

LEMMA RecoverFailsTypes ==
  ASSUME TypeOK, NEW n \in Node, NEW modes \in SUBSET ChipModes,
         RecoverFails(n, modes)
  PROVE  /\ radio' \in [Node -> {"IDLE", "TX", "RX", "ERROR"}]
         /\ radioEvents' \in [Node -> Seq(RadioEvents)]
         /\ rxFrame' \in [Node -> Frame]
         /\ mode' \in [Node -> ChipModes] /\ txBuffer' \in [Node -> Frame]
         /\ irq' \in [Node -> SUBSET Interrupts] /\ rxBuffer' \in [Node -> Frame]
<1>1. <<"DEVICE_ERROR">> \in Seq(RadioEvents)
  BY DEF RadioEvents
<1>2. LeftIn(n, modes \union {"STANDBY"}) /\ modes \union {"STANDBY"} \in SUBSET ChipModes
  BY DEF RecoverFails, ChipModes
<1>3. mode' \in [Node -> ChipModes] /\ txBuffer' \in [Node -> Frame]
  BY <1>2, LeftInTypes
<1> QED BY <1>1, <1>3 DEF TypeOK, RecoverFails, Frame

LEMMA GiveUpTypes ==
  ASSUME TypeOK, NEW n \in Node, NEW k \in Nat, GiveUp(n, k)
  PROVE  /\ state' \in [Node -> ServiceStates] /\ expired' \in [Node -> BOOLEAN]
         /\ eventCount' \in [Node -> 0..EventCapacity] /\ dropped' \in BOOLEAN
         /\ active' \in BOOLEAN
         /\ retries' \in 0..MaxRetries
         /\ outcome' \in [Exchanges -> {"none", "succeeded", "failed"}]
         /\ UNCHANGED <<pending, attempts, nextSeq>>
<1>1. CASE n = Initiator /\ RetryOrFail(k)
  BY <1>1, RetryOrFailTypes
<1>2. CASE /\ n = Responder
           /\ SetState(Responder, "START_RESPONDER_RX")
           /\ Publish(Responder, k)
           /\ UNCHANGED <<initiatorVars, outcome>>
  BY <1>2, SetStateTypes, PublishTypes
  DEF TypeOK, ServiceStates, StartStates, Node, initiatorVars
<1> QED BY <1>1, <1>2 DEF GiveUp

LEMMA TakenTypes ==
  ASSUME TypeOK, NEW n \in Node, Taken(n), radioEvents[n] # <<>>
  PROVE  radioEvents' \in [Node -> Seq(RadioEvents)]
<1>1. radioEvents[n] \in Seq(RadioEvents)
  BY DEF TypeOK
<1>2. Tail(radioEvents[n]) \in Seq(RadioEvents)
  BY <1>1
<1> QED BY <1>2 DEF TypeOK, Taken

LEMMA FrameTypes ==
  /\ NoFrame \in Frame /\ Requests \subseteq Frame /\ Responses \subseteq Frame
  /\ Junk \subseteq Frame
BY DEF Frame

LEMMA AcceptedTypes ==
  ASSUME NEW f \in Frame, f.type \in RequestType
  PROVE  /\ f \in Requests
         /\ Request(ExpectedResponse(f.type), f.seq, f.xid) \in Responses
BY DEF Frame, Requests, Responses, Junk, NoFrame, RequestType, ResponseType,
       Request, ExpectedResponse

LEMMA FaultTypes ==
  ASSUME TypeOK, Fault
  PROVE  faults' \in 0..MaxFaults
BY BoundAssumption DEF TypeOK, Fault

LEMMA ToSendTypes ==
  ASSUME TypeOK, NEW n \in Node
  PROVE  ToSend(n) \in Frame
BY DEF TypeOK, ToSend, Frame

LEMMA RadioLostTypes ==
  ASSUME TypeOK, NEW n \in Node, NEW modes \in SUBSET ChipModes,
         RadioLost(n, modes)
  PROVE  TypeOK'
<1>1. /\ Fault /\ RecoverFails(n, modes)
      /\ SetState(n, "ERROR") /\ Publish(n, 1)
      /\ pc' = [pc EXCEPT ![n] = "app"]
      /\ UNCHANGED <<initiatorVars, responderVars, ghostVars, junk, restarts>>
  BY DEF RadioLost
<1>2. "ERROR" \in ServiceStates /\ 1 \in Nat
  BY DEF ServiceStates
<1> QED
  BY <1>1, <1>2, FaultTypes, RecoverFailsTypes, SetStateTypes, PublishTypes
  DEF TypeOK, ChipModes, initiatorVars, responderVars, ghostVars

\* Every step of a node keeps the types.
LEMMA TypeNodeStep ==
  ASSUME TypeOK, NEW n \in Node,
         Process(n) \/ AppDrain(n) \/ Tick(n) \/ Chip(n) \/ Restart(n)
  PROVE  TypeOK'
<1> USE SequenceAssumption, CountAssumption, BoundAssumption, 0 \in Nat,
        1 \in Nat, FrameTypes
    DEF TypeOK, vars, timerVars, queueVars, initiatorVars, responderVars,
        adapterVars, chipVars, ghostVars, boundVars, ServiceStates,
        TimedStates, StartStates, ChipModes, Interrupts
<1>1. CASE PollQuiet(n)
  BY <1>1 DEF PollQuiet, CallsProcess
<1>2. CASE PollIrq(n)
  <2>1. /\ CallsProcess(n) /\ SetIrq(n, {})
        /\ UNCHANGED <<timerVars, queueVars, initiatorVars, responderVars,
                       mode, txBuffer, ghostVars, boundVars>>
    BY <1>2 DEF PollIrq
  <2>2. irq' \in [Node -> SUBSET Interrupts] /\ rxBuffer' \in [Node -> Frame]
    BY <2>1, SetIrqTypes
  <2>3. CASE EnterError(n)
    BY <2>1, <2>2, <2>3, EnterErrorTypes DEF CallsProcess
  <2>4. CASE ~EnterError(n)
    <3> DEFINE bit == FirstIrq(irq[n])
               e == RadioEventOf(bit)
    <3>1. /\ radio' = [radio EXCEPT ![n] = "IDLE"]
          /\ radioEvents' = [radioEvents EXCEPT ![n] = Append(@, e)]
          /\ rxFrame' = [rxFrame EXCEPT ![n] =
                           IF bit = "RX_DONE" THEN rxBuffer[n]
                           ELSE IF bit = "CRC_ERROR" THEN NoFrame ELSE @]
      BY <1>2, <2>4 DEF PollIrq
    <3>2. e \in RadioEvents
      BY DEF RadioEventOf, FirstIrq, RadioEvents
    <3> HIDE DEF bit, e
    <3>3. Append(radioEvents[n], e) \in Seq(RadioEvents)
      BY <3>2
    <3>4. radioEvents' \in [Node -> Seq(RadioEvents)]
      BY <3>1, <3>3
    <3> QED
      BY <2>1, <2>2, <3>1, <3>4 DEF CallsProcess
  <2> QED BY <2>3, <2>4
<1>3. CASE PollFault(n)
  <2>1. PICK bits \in {irq[n], {}} : SetIrq(n, bits)
    BY <1>3 DEF PollFault
  <2>2. irq' \in [Node -> SUBSET Interrupts] /\ rxBuffer' \in [Node -> Frame]
    BY <2>1, SetIrqTypes
  <2> QED
    BY <1>3, <2>2, EnterErrorTypes, FaultTypes DEF PollFault, CallsProcess
<1>4. CASE HandleTxDone(n)
  BY <1>4, TakenTypes, SetStateTypes DEF HandleTxDone, Next1
<1>5. CASE HandleRxTimeout(n)
  BY <1>5, TakenTypes, GiveUpTypes DEF HandleRxTimeout, Next1
<1>6. CASE HandleCrcError(n)
  BY <1>6, TakenTypes, GiveUpTypes DEF HandleCrcError, Next1
<1>7. CASE HandleDeviceError(n)
  <2>1. CASE /\ Recovered(n)
             /\ GiveUp(n, 1)
             /\ UNCHANGED <<pc, faults>>
    BY <1>7, <2>1, RecoveredTypes, GiveUpTypes DEF HandleDeviceError
  <2>2. CASE /\ Fault
             /\ RecoverFails(n, {mode[n]})
             /\ SetState(n, "ERROR")
             /\ Publish(n, 1)
             /\ pc' = [pc EXCEPT ![n] = "app"]
             /\ UNCHANGED <<initiatorVars, outcome>>
    <3>1. RadioLost(n, {mode[n]})
      BY <1>7, <2>2 DEF HandleDeviceError, RadioLost
    <3> QED BY <3>1, RadioLostTypes
  <2> QED BY <1>7, <2>1, <2>2 DEF HandleDeviceError
<1>8. CASE RejectRequest(n)
  BY <1>8, TakenTypes, SetStateTypes, PublishTypes
  DEF RejectRequest, Next1, TakeFrame
<1>9. CASE SuppressDuplicate(n)
  BY <1>9, TakenTypes, SetStateTypes, PublishTypes
  DEF SuppressDuplicate, Next1, TakeFrame
<1>10. CASE AcceptRequest(n)
  <2> DEFINE f == rxFrame[Responder]
  <2>1. Responder \in Node /\ f \in Frame /\ f.type \in RequestType
    BY <1>10 DEF AcceptRequest, Node
  <2>2. /\ f \in Requests
        /\ Request(ExpectedResponse(f.type), f.seq, f.xid) \in Responses
    BY <2>1, AcceptedTypes
  <2>3. f.xid \in Exchanges
    BY <2>2 DEF Requests
  <2>4. received' \in [Exchanges -> Nat] /\ accepted' \in SUBSET Exchanges
    <3>1. received[f.xid] + 1 \in Nat
      BY <2>3
    <3>2. \/ /\ received' = [received EXCEPT ![f.xid] = received[f.xid] + 1]
             /\ accepted' = accepted \union {f.xid}
          \/ UNCHANGED <<received, accepted>>
      BY <1>10 DEF AcceptRequest
    <3> HIDE DEF f
    <3> QED BY <2>3, <3>1, <3>2
  <2>5. last' \in Requests \union {NoFrame} /\ cached' \in Responses \union {NoFrame}
    BY <1>10, <2>2 DEF AcceptRequest
  <2> HIDE DEF f
  <2> QED
    BY <1>10, <2>1, <2>4, <2>5, TakenTypes, SetStateTypes, PublishTypes
    DEF AcceptRequest, Next1, TakeFrame
<1>11. CASE RejectResponse(n)
  BY <1>11, TakenTypes, RetryOrFailTypes DEF RejectResponse, Next1, TakeFrame
<1>12. CASE AcceptResponse(n)
  BY <1>12, TakenTypes, SetStateTypes, PublishTypes
  DEF AcceptResponse, Next1, TakeFrame
<1>13. CASE ProcessTimeout(n)
  BY <1>13, RecoveredTypes, GiveUpTypes DEF ProcessTimeout, EventsDone
<1>14. CASE TimeoutRadioLost(n)
  BY <1>14, RadioLostTypes DEF TimeoutRadioLost
<1>15. CASE NoAction(n)
  BY <1>15 DEF NoAction, Acts
<1>16. CASE StartTx(n)
  <2>1. attempts' \in 0..(CountModulus - 1)
    BY <1>16, ModRange DEF StartTx
  <2>2. txBuffer' \in [Node -> Frame]
    BY <1>16, ToSendTypes DEF StartTx
  <2>3. irq' \in [Node -> SUBSET Interrupts] /\ rxBuffer' \in [Node -> Frame]
    BY <1>16 DEF StartTx
  <2>4. state' \in [Node -> ServiceStates] /\ expired' \in [Node -> BOOLEAN]
    BY <1>16, SetStateTypes DEF StartTx
  <2> QED
    BY <1>16, <2>1, <2>2, <2>3, <2>4 DEF StartTx, Acts
<1>17. CASE StartRx(n)
  BY <1>17, SetStateTypes, SetIrqTypes, SetModeTypes
  DEF StartRx, Acts, ChipModes
<1>18. CASE StartFails(n)
  <2>1. PICK bits \in {irq[n], {}} : SetIrq(n, bits)
    BY <1>18 DEF StartFails
  <2>2. irq' \in [Node -> SUBSET Interrupts] /\ rxBuffer' \in [Node -> Frame]
    BY <2>1, SetIrqTypes
  <2>3. {mode[n], StartMode(n)} \in SUBSET ChipModes
    BY DEF StartMode
  <2>4. mode' \in [Node -> ChipModes] /\ txBuffer' \in [Node -> Frame]
    BY <1>18, <2>3, LeftInTypes DEF StartFails
  <2> QED
    BY <1>18, <2>2, <2>4, EnterErrorTypes, FaultTypes DEF StartFails, Acts
<1>19. CASE StartFailsExpired(n)
  <2>1. CASE RetryOrFail(0)
    BY <1>19, <2>1, RecoveredTypes, RetryOrFailTypes, FaultTypes
    DEF StartFailsExpired, Acts
  <2>2. CASE ~RetryOrFail(0)
    <3>1. PICK s \in ServiceStates : SetState(n, s)
      BY <1>19, <2>2 DEF StartFailsExpired
    <3> QED
      BY <1>19, <2>2, <3>1, RecoveredTypes, SetStateTypes, FaultTypes
      DEF StartFailsExpired, Acts
  <2> QED BY <2>1, <2>2
<1>20. CASE StartRadioLost(n)
  <2>1. {mode[n], StartMode(n)} \in SUBSET ChipModes
    BY DEF StartMode
  <2> QED BY <1>20, <2>1, RadioLostTypes DEF StartRadioLost
<1>21. CASE AppDrain(n)
  BY <1>21 DEF AppDrain
<1>22. CASE Tick(n)
  BY <1>22 DEF Tick
<1>23. CASE TxEnd(n)
  <2>1. Peer(n) \in Node
    BY DEF Peer, Node
  <2>2. txBuffer' \in [Node -> Frame]
    BY <1>23 DEF TxEnd
  <2>3. mode' \in [Node -> ChipModes]
    <3>1. AfterRx(Peer(n)) \in ChipModes
      BY <2>1 DEF AfterRx
    <3>2. \/ mode' = [mode EXCEPT ![n] = "STANDBY", ![Peer(n)] = AfterRx(Peer(n))]
          \/ mode' = [mode EXCEPT ![n] = "STANDBY"]
      BY <1>23 DEF TxEnd
    <3> QED BY <2>1, <3>1, <3>2
  <2>4. irq' \in [Node -> SUBSET Interrupts]
    <3>2. Peer(n) # n
      BY DEF Peer, Node, Initiator, Responder
    <3>3. ASSUME NEW bits \in SUBSET Interrupts,
                 irq' = [irq EXCEPT ![n] = @ \union {"TX_DONE"}, ![Peer(n)] = @ \union bits]
          PROVE  irq' \in [Node -> SUBSET Interrupts]
      <4>1. \A m \in Node : irq'[m] \in SUBSET Interrupts
        BY <2>1, <3>2, <3>3
      <4> QED BY <3>3, <4>1
    <3>4. CASE irq' = [irq EXCEPT ![n] = @ \union {"TX_DONE"}]
      BY <3>4
    <3>5. CASE irq' = [irq EXCEPT ![n] = @ \union {"TX_DONE"},
                                  ![Peer(n)] = @ \union {"RX_DONE"}]
      BY <3>3, <3>5
    <3>6. CASE irq' = [irq EXCEPT ![n] = @ \union {"TX_DONE"},
                                  ![Peer(n)] = @ \union {"RX_DONE", "CRC_ERROR"}]
      BY <3>3, <3>6
    <3> QED BY <1>23, <3>4, <3>5, <3>6 DEF TxEnd
  <2>5. rxBuffer' \in [Node -> Frame]
    BY <1>23, <2>1 DEF TxEnd
  <2> QED
    BY <1>23, <2>2, <2>3, <2>4, <2>5 DEF TxEnd
<1>24. CASE ChipTimeout(n)
  BY <1>24, SetModeTypes DEF ChipTimeout, ChipModes
<1>25. CASE ReceiveJunk(n)
  BY <1>25 DEF ReceiveJunk, AfterRx, Listening
<1>26. CASE Restart(n)
  <2>1. FirstState(n) \in ServiceStates
    BY DEF FirstState
  <2>2. restarts' \in 0..MaxRestarts
    BY <1>26 DEF Restart
  <2>3. eventCount' \in [Node -> 0..EventCapacity]
    BY <1>26 DEF Restart
  <2>4. received' \in [Exchanges -> Nat]
    BY <1>26 DEF Restart
  <2>5. /\ state' \in [Node -> ServiceStates] /\ expired' \in [Node -> BOOLEAN]
        /\ pc' \in [Node -> {"app", "process"}]
    BY <1>26, <2>1, SetStateTypes DEF Restart
  <2>6. CASE n = Initiator
    <3>1. /\ active' = FALSE
          /\ pending' = NoFrame
          /\ retries' = 0
          /\ attempts' = 0
          /\ nextSeq' = InitialSequence
          /\ UNCHANGED <<responderVars, received>>
      BY <1>26, <2>6 DEF Restart
    <3>2. retries' \in 0..MaxRetries /\ attempts' \in 0..(CountModulus - 1)
      BY <3>1
    <3> QED
      BY <1>26, <2>2, <2>3, <2>4, <2>5, <3>1, <3>2, RecoveredTypes DEF Restart
  <2>7. CASE n # Initiator
    BY <1>26, <2>2, <2>3, <2>4, <2>5, <2>7, RecoveredTypes DEF Restart
  <2> QED BY <2>6, <2>7
<1> QED
  BY <1>1, <1>2, <1>3, <1>4, <1>5, <1>6, <1>7, <1>8, <1>9, <1>10, <1>11,
     <1>12, <1>13, <1>14, <1>15, <1>16, <1>17, <1>18, <1>19, <1>20, <1>21,
     <1>22, <1>23, <1>24, <1>25, <1>26
  DEF Process, Chip

\* StartRequest(t) preserves the types.
LEMMA TypeRequestStep ==
  ASSUME TypeOK, NEW t \in MessageTypes, StartRequest(t)
  PROVE  TypeOK'
<1>1. /\ exchange' = exchange + 1 /\ exchange < MaxExchanges
      /\ pending' = Request(t, nextSeq, exchange + 1)
      /\ nextSeq' = (nextSeq + 1) % SeqModulus
      /\ active' = TRUE
      /\ retries' = 0
      /\ attempts' = 0
      /\ SetState(Initiator, "START_REQUEST_TX")
      /\ UNCHANGED <<pc, queueVars, responderVars, adapterVars, chipVars,
                     received, accepted, outcome, boundVars>>
  BY DEF StartRequest
<1>2. nextSeq \in 0..(SeqModulus - 1) /\ exchange \in 0..MaxExchanges
  BY DEF TypeOK
<1>3. exchange + 1 \in Exchanges /\ exchange' \in 0..MaxExchanges
  BY <1>1, <1>2, BoundAssumption DEF Exchanges
<1>4. pending' \in Requests
  BY <1>1, <1>2, <1>3, TypesAssumption DEF Request, Requests, RequestType
<1>5. nextSeq' \in 0..(SeqModulus - 1)
  BY <1>1, <1>2, ModRange, SequenceAssumption
<1>6. retries' \in 0..MaxRetries /\ attempts' \in 0..(CountModulus - 1)
  BY <1>1, CountAssumption
<1>7. state' \in [Node -> ServiceStates] /\ expired' \in [Node -> BOOLEAN]
  BY <1>1, SetStateTypes DEF ServiceStates, StartStates, Node
<1> QED
  BY <1>1, <1>3, <1>4, <1>5, <1>6, <1>7
  DEF TypeOK, queueVars, responderVars, adapterVars, chipVars, boundVars

\* The initial state is well typed ...
LEMMA TypeInit == Init => TypeOK
<1> SUFFICES ASSUME Init PROVE TypeOK
  OBVIOUS
<1>1. <<>> \in Seq(RadioEvents)
  OBVIOUS
<1>2. state \in [Node -> ServiceStates]
  BY DEF Init, FirstState, ServiceStates, StartStates
<1>3. /\ retries \in 0..MaxRetries /\ attempts \in 0..(CountModulus - 1)
      /\ eventCount \in [Node -> 0..EventCapacity]
  BY CountAssumption DEF Init
<1>4. /\ exchange \in 0..MaxExchanges /\ faults \in 0..MaxFaults
      /\ junk \in 0..MaxJunk /\ restarts \in 0..MaxRestarts
  BY BoundAssumption DEF Init
<1> QED
  BY <1>1, <1>2, <1>3, <1>4, SequenceAssumption DEF Init, TypeOK, Frame

\* ... and so is the state after every step.
LEMMA TypeStep == TypeOK /\ [Next]_vars => TypeOK'
<1> SUFFICES ASSUME TypeOK, [Next]_vars PROVE TypeOK'
  OBVIOUS
<1>1. CASE UNCHANGED vars
  BY <1>1
  DEF TypeOK, vars, timerVars, queueVars, initiatorVars, responderVars,
      adapterVars, chipVars, ghostVars, boundVars
<1>2. CASE Next
  BY <1>2, TypeNodeStep, TypeRequestStep DEF Next
<1> QED BY <1>1, <1>2

\* Every variable keeps its type, whatever the constants.
THEOREM TypeCorrect == Spec => []TypeOK
BY TypeInit, TypeStep, PTL DEF Spec

-----------------------------------------------------------------------------
(* What giving up an attempt does.                                         *)

\* Giving up an attempt changes no node but its own, and leaves it idle, about
\* to try again or about to listen.
LEMMA GiveUpEffect ==
  ASSUME TypeOK, NEW n \in Node, NEW k \in Nat, GiveUp(n, k)
  PROVE  /\ UNCHANGED <<pending, attempts, nextSeq>>
         /\ n = R => /\ UNCHANGED <<active, retries, outcome>>
                     /\ state' = [state EXCEPT ![R] = "START_RESPONDER_RX"]
                     /\ Publish(R, k)
         /\ n = I => \/ /\ active /\ UNCHANGED <<active, outcome>>
                        /\ state' = [state EXCEPT ![I] = "START_REQUEST_TX"]
                        /\ Publish(I, k)
                     \/ /\ active /\ ~active'
                        /\ outcome' = [outcome EXCEPT ![pending.xid] = "failed"]
                        /\ state' = [state EXCEPT ![I] = "IDLE"]
                        /\ Publish(I, k + 1)
                     \/ /\ ~active /\ UNCHANGED <<active, outcome>>
                        /\ state' = [state EXCEPT ![I] = "IDLE"]
                        /\ Publish(I, k)
<1>1. I # R
  BY DEF I, R, Initiator, Responder
<1>2. CASE n = I
  BY <1>1, <1>2 DEF GiveUp, RetryOrFail, SetState, I, R
<1>3. CASE n = R
  BY <1>1, <1>3 DEF GiveUp, SetState, initiatorVars, I, R
<1> QED BY <1>2, <1>3 DEF Node, I, R

\* The same of the initiator alone.
LEMMA RetryEffect ==
  ASSUME TypeOK, NEW k \in Nat, RetryOrFail(k)
  PROVE  GiveUp(Initiator, k)
BY DEF GiveUp

-----------------------------------------------------------------------------
(* A step of one node and the other node.                                  *)

\* A failing command changes no other node's chip.
LEMMA ModesEffect ==
  ASSUME TypeOK, NEW n \in Node, NEW m \in Node \ {n}, NEW modes,
         LeftIn(n, modes)
  PROVE  mode'[m] = mode[m] /\ txBuffer'[m] = txBuffer[m]
BY DEF TypeOK, LeftIn

Untouched(m) ==
  /\ state'[m] = state[m] /\ pc'[m] = pc[m] /\ eventCount'[m] = eventCount[m]
  /\ radio'[m] = radio[m] /\ radioEvents'[m] = radioEvents[m]
  /\ rxFrame'[m] = rxFrame[m]

\* A step of a node, or of its chip, leaves the service and the adapter of the
\* other node alone.
LEMMA Locality ==
  ASSUME TypeOK, RolesInv, NEW n \in Node,
         Process(n) \/ AppDrain(n) \/ Tick(n) \/ Chip(n) \/ Restart(n)
  PROVE  \A m \in Node \ {n} : Untouched(m)
<1> USE GiveUpEffect, RetryEffect, 0 \in Nat, 1 \in Nat
    DEF TypeOK, Untouched, I, R, Initiator, Responder, Node, Publish,
        RadioLost, RecoverFails, EnterError, vars, timerVars, queueVars,
        initiatorVars, responderVars, adapterVars, chipVars, ghostVars,
        boundVars
<1>1. CASE PollQuiet(n)
  BY <1>1 DEF PollQuiet, CallsProcess
<1>2. CASE PollIrq(n)
  BY <1>2 DEF PollIrq, CallsProcess, SetIrq, EnterError
<1>3. CASE PollFault(n)
  BY <1>3 DEF PollFault, CallsProcess, Fault, EnterError, SetIrq
<1>4. CASE HandleTxDone(n)
  BY <1>4 DEF HandleTxDone, Next1, Taken, SetState
<1>5. CASE HandleRxTimeout(n)
  BY <1>5 DEF HandleRxTimeout, Next1, Taken
<1>6. CASE HandleCrcError(n)
  BY <1>6 DEF HandleCrcError, Next1, Taken
<1>7. CASE HandleDeviceError(n)
  BY <1>7
  DEF HandleDeviceError, Next1, Recovered, RecoverFails, SetIrq, SetMode,
      SetState, Publish
<1>8. CASE RejectRequest(n)
  BY <1>8 DEF RejectRequest, Next1, Taken, TakeFrame, SetState, Publish
<1>9. CASE SuppressDuplicate(n)
  BY <1>9 DEF SuppressDuplicate, Next1, Taken, TakeFrame, SetState, Publish
<1>10. CASE AcceptRequest(n)
  BY <1>10 DEF AcceptRequest, Next1, Taken, TakeFrame, SetState, Publish
<1>11. CASE RejectResponse(n)
  BY <1>11, ZenonT(20) DEF RejectResponse, Next1, Taken, TakeFrame
<1>12. CASE AcceptResponse(n)
  BY <1>12 DEF AcceptResponse, Next1, Taken, TakeFrame, SetState, Publish
<1>13. CASE ProcessTimeout(n)
  BY <1>13
  DEF ProcessTimeout, EventsDone, TimedOut, Recovered, SetIrq, SetMode
<1>14. CASE TimeoutRadioLost(n)
  BY <1>14
  DEF TimeoutRadioLost, EventsDone, TimedOut, RadioLost, RecoverFails,
      SetState, Publish
<1>15. CASE NoAction(n)
  BY <1>15 DEF NoAction, Acts, EventsDone
<1>16. CASE StartTx(n)
  BY <1>16 DEF StartTx, Acts, EventsDone, SetState, ToSend
<1>17. CASE StartRx(n)
  BY <1>17 DEF StartRx, Acts, EventsDone, SetState, SetIrq, SetMode
<1>18. CASE StartFails(n)
  BY <1>18
  DEF StartFails, Acts, EventsDone, EnterError, StartMode, SetIrq, ToSend
<1>19. CASE StartFailsExpired(n)
  BY <1>19, SMTT(20)
  DEF RolesInv, ResponderStates, StartFailsExpired, Acts, EventsDone,
      Recovered, SetIrq, SetMode, SetState
<1>20. CASE StartRadioLost(n)
  BY <1>20
  DEF StartRadioLost, Acts, EventsDone, RadioLost, RecoverFails, StartMode,
      SetState, Publish, ToSend
<1>21. CASE AppDrain(n)
  BY <1>21 DEF AppDrain
<1>22. CASE Tick(n)
  BY <1>22 DEF Tick
<1>23. CASE TxEnd(n)
  BY <1>23 DEF TxEnd, Peer, Listening, AfterRx
<1>24. CASE ChipTimeout(n)
  BY <1>24 DEF ChipTimeout, SetMode
<1>25. CASE ReceiveJunk(n)
  BY <1>25 DEF ReceiveJunk, Listening, AfterRx
<1>26. CASE Restart(n)
  BY <1>26 DEF Restart, Recovered, SetState, SetIrq, SetMode, FirstState
<1> QED
  BY <1>1, <1>2, <1>3, <1>4, <1>5, <1>6, <1>7, <1>8, <1>9, <1>10, <1>11,
     <1>12, <1>13, <1>14, <1>15, <1>16, <1>17, <1>18, <1>19, <1>20, <1>21,
     <1>22, <1>23, <1>24, <1>25, <1>26
  DEF Process, Chip

-----------------------------------------------------------------------------
(* The services.                                                           *)

\* Each service stays in the states of its role.
LEMMA RolesHere ==
  ASSUME TypeOK, RolesInv, AdapterInv, NEW n \in Node,
         Process(n) \/ AppDrain(n) \/ Tick(n) \/ Chip(n) \/ Restart(n)
  PROVE  RolesInv'
<1> USE GiveUpEffect, RetryEffect, 0 \in Nat, 1 \in Nat
    DEF TypeOK, RolesInv, I, R, Initiator, Responder, Node, InitiatorStates,
        ResponderStates, vars, timerVars, queueVars, initiatorVars,
        responderVars, adapterVars, chipVars, ghostVars, boundVars
<1>1. CASE PollQuiet(n)
  BY <1>1 DEF PollQuiet, CallsProcess
<1>2. CASE PollIrq(n)
  BY <1>2 DEF PollIrq, CallsProcess, SetIrq, EnterError
<1>3. CASE PollFault(n)
  BY <1>3 DEF PollFault, CallsProcess, Fault, EnterError, SetIrq
<1>4. CASE HandleTxDone(n)
  BY <1>4 DEF HandleTxDone, Next1, Taken, SetState
<1>5. CASE HandleRxTimeout(n)
  BY <1>5 DEF HandleRxTimeout, Next1, Taken
<1>6. CASE HandleCrcError(n)
  BY <1>6 DEF HandleCrcError, Next1, Taken
<1>7. CASE HandleDeviceError(n)
  BY <1>7
  DEF HandleDeviceError, Next1, Recovered, RecoverFails, SetIrq, SetMode,
      LeftIn, SetState, Publish
<1>8. CASE RejectRequest(n)
  BY <1>8 DEF RejectRequest, Next1, Taken, TakeFrame, SetState, Publish
<1>9. CASE SuppressDuplicate(n)
  BY <1>9 DEF SuppressDuplicate, Next1, Taken, TakeFrame, SetState, Publish
<1>10. CASE AcceptRequest(n)
  BY <1>10 DEF AcceptRequest, Next1, Taken, TakeFrame, SetState, Publish
<1>11. CASE RejectResponse(n)
  BY <1>11 DEF RejectResponse, Next1, Taken, TakeFrame
<1>12. CASE AcceptResponse(n)
  BY <1>12 DEF AcceptResponse, Next1, Taken, TakeFrame, SetState, Publish
<1>13. CASE ProcessTimeout(n)
  BY <1>13
  DEF ProcessTimeout, EventsDone, TimedOut, Recovered, SetIrq, SetMode
<1>14. CASE TimeoutRadioLost(n)
  BY <1>14
  DEF TimeoutRadioLost, EventsDone, TimedOut, RadioLost, RecoverFails, LeftIn,
      SetState, Publish
<1>15. CASE NoAction(n)
  BY <1>15 DEF NoAction, Acts, EventsDone
<1>16. CASE StartTx(n)
  BY <1>16 DEF StartTx, Acts, EventsDone, SetState, ToSend
<1>17. CASE StartRx(n)
  BY <1>17 DEF StartRx, Acts, EventsDone, SetState, SetIrq, SetMode
<1>18. CASE StartFails(n)
  BY <1>18
  DEF StartFails, Acts, EventsDone, EnterError, LeftIn, StartMode, SetIrq,
      ToSend
<1>19. CASE StartFailsExpired(n)
  BY <1>19
  DEF StartFailsExpired, Acts, EventsDone, Recovered, SetIrq, SetMode,
      SetState
<1>20. CASE StartRadioLost(n)
  BY <1>20
  DEF StartRadioLost, Acts, EventsDone, RadioLost, RecoverFails, LeftIn,
      StartMode, SetState, Publish, ToSend
<1>21. CASE AppDrain(n)
  BY <1>21 DEF AppDrain
<1>22. CASE Tick(n)
  BY <1>22 DEF Tick
<1>23. CASE TxEnd(n)
  BY <1>23 DEF TxEnd, Peer, Listening, AfterRx
<1>24. CASE ChipTimeout(n)
  BY <1>24 DEF ChipTimeout, SetMode
<1>25. CASE ReceiveJunk(n)
  BY <1>25 DEF ReceiveJunk, Listening, AfterRx
<1>26. CASE Restart(n)
  BY <1>26 DEF Restart, Recovered, SetState, SetIrq, SetMode, FirstState
<1> QED
  BY <1>1, <1>2, <1>3, <1>4, <1>5, <1>6, <1>7, <1>8, <1>9, <1>10, <1>11,
     <1>12, <1>13, <1>14, <1>15, <1>16, <1>17, <1>18, <1>19, <1>20, <1>21,
     <1>22, <1>23, <1>24, <1>25, <1>26
  DEF Process, Chip

-----------------------------------------------------------------------------
(* The adapters.                                                           *)

\* Queues of one event.
LEMMA OneEvent ==
  ASSUME NEW e
  PROVE  /\ Append(<<>>, e) = <<e>> /\ Tail(<<e>>) = <<>> /\ Head(<<e>>) = e
         /\ <<e>> # <<>>
OBVIOUS

\* Two queues of one event are equal only if the events are.
LEMMA SameEvent ==
  ASSUME NEW e, NEW f, <<e>> = <<f>>
  PROVE  e = f
OBVIOUS

\* With an empty queue, the adapter does what the service expects.
LEMMA QueueEmpty ==
  ASSUME NEW n, AdapterAt(n), radioEvents[n] = <<>>
  PROVE  Quiet(n)
BY OneEvent DEF AdapterAt, Failed, Reported

\* An event other than DEVICE_ERROR finds the service in the state that asked
\* for it.
LEMMA QueueReports ==
  ASSUME NEW n, NEW e, AdapterAt(n), Next1(n, e), e # "DEVICE_ERROR"
  PROVE  Reported(n, e) /\ radioEvents[n] = <<e>> /\ e \in RadioEvents
BY OneEvent DEF AdapterAt, Quiet, Failed, Reported, Next1

\* DEVICE_ERROR finds the adapter failed.
LEMMA QueueFailed ==
  ASSUME NEW n, AdapterAt(n), Next1(n, "DEVICE_ERROR")
  PROVE  Failed(n)
BY OneEvent DEF AdapterAt, Quiet, Reported, Next1

\* Between two polls the adapter has reported nothing but a failure.
LEMMA NotPolled ==
  ASSUME NEW n, AdapterAt(n), pc[n] = "app"
  PROVE  Quiet(n) \/ Failed(n)
BY DEF AdapterAt, Reported

\* A handler that takes the event and moves the service on leaves the adapter
\* quiet.
LEMMA Handled ==
  ASSUME TypeOK, NEW n \in Node, NEW e, Reported(n, e), Taken(n),
         radio'[n] = radio[n], rxFrame'[n] = NoFrame,
         state'[n] \in StartStates \union {"IDLE"}
  PROVE  Quiet(n)'
<1>1. radioEvents'[n] = <<>>
  BY OneEvent DEF Taken, Reported, TypeOK
<1> QED
  BY <1>1 DEF Quiet, Reported, WaitingFor, StartStates

\* So does every handler of an event without a frame ...
LEMMA HandledEvent ==
  ASSUME TypeOK, NEW n \in Node, NEW e, AdapterAt(n), Next1(n, e), Taken(n),
         e \notin {"DEVICE_ERROR", "RX_DONE"}, UNCHANGED <<radio, rxFrame>>,
         state[n] \in AskedFor(e) => state'[n] \in StartStates \union {"IDLE"}
  PROVE  Quiet(n)'
<1>1. Reported(n, e)
  BY QueueReports
<1>2. rxFrame'[n] = NoFrame /\ state[n] \in AskedFor(e)
  BY <1>1 DEF Reported
<1> QED BY <1>1, <1>2, Handled

\* ... and every handler of a frame.
LEMMA HandledFrame ==
  ASSUME TypeOK, NEW n \in Node, AdapterAt(n), TakeFrame(n),
         state'[n] \in StartStates \union {"IDLE"}
  PROVE  Quiet(n)'
<1>1. Reported(n, "RX_DONE") /\ Taken(n) /\ radio'[n] = radio[n] /\ rxFrame'[n] = NoFrame
  BY QueueReports DEF TakeFrame, TypeOK
<1> QED BY <1>1, Handled

\* The adapter of the node that takes the step agrees with its service again.
LEMMA AdapterHere ==
  ASSUME TypeOK, RolesInv, NEW n \in Node, AdapterAt(n), ChipInv,
         Process(n) \/ AppDrain(n) \/ Tick(n) \/ Chip(n) \/ Restart(n)
  PROVE  AdapterAt(n)'
<1> USE GiveUpEffect, RetryEffect, 0 \in Nat, 1 \in Nat, QueueEmpty,
        QueueFailed, NotPolled, OneEvent
    DEF TypeOK, RolesInv, I, R, Initiator, Responder, Node, InitiatorStates,
        ResponderStates, TimedStates, StartStates, AskedFor, WaitingFor,
        AdapterAt, Quiet, Failed, Reported, vars, timerVars, queueVars,
        initiatorVars, responderVars, adapterVars, chipVars, ghostVars,
        boundVars
<1>1. CASE PollQuiet(n)
  BY <1>1 DEF PollQuiet, CallsProcess
<1>2. CASE PollIrq(n)
  <2> DEFINE bit == FirstIrq(irq[n])
             e == RadioEventOf(bit)
  <2>1. Quiet(n) /\ radio[n] # "ERROR" /\ pc'[n] = "process" /\ state' = state
    BY <1>2 DEF PollIrq, CallsProcess
  <2>2. CASE EnterError(n)
    <3>1. radioEvents'[n] = <<"DEVICE_ERROR">>
      BY <2>1, <2>2 DEF EnterError
    <3> QED
      BY <1>2, <2>1, <2>2, <3>1 DEF PollIrq, CallsProcess, EnterError
  <2>3. CASE ~EnterError(n)
    <3>1. /\ radio[n] = ExpectedIn(bit)
          /\ radio' = [radio EXCEPT ![n] = "IDLE"]
          /\ radioEvents' = [radioEvents EXCEPT ![n] = Append(@, e)]
          /\ rxFrame' = [rxFrame EXCEPT ![n] =
                           IF bit = "RX_DONE" THEN rxBuffer[n]
                           ELSE IF bit = "CRC_ERROR" THEN NoFrame ELSE @]
      BY <1>2, <2>3 DEF PollIrq
    <3>2. e \in RadioEvents \ {"DEVICE_ERROR"} /\ (e = "RX_DONE" <=> bit = "RX_DONE")
      BY DEF RadioEventOf, FirstIrq, RadioEvents
    <3>3. state[n] \in AskedFor(e)
      BY <2>1, <3>1 DEF RadioEventOf, ExpectedIn, FirstIrq
    <3>4. bit = "RX_DONE" => rxBuffer[n] # NoFrame
      <4>1. CASE bit = "RX_DONE"
        <5>1. "CRC_ERROR" \notin irq[n] /\ radio[n] = "RX"
          BY <4>1, <3>1 DEF FirstIrq, ExpectedIn
        <5>2. "RX_DONE" \in irq[n]
          BY <4>1 DEF FirstIrq
        <5> QED BY <5>1, <5>2 DEF ChipInv
      <4> QED BY <4>1
    <3> HIDE DEF bit, e
    <3>5. radioEvents'[n] = <<e>>
      BY <2>1, <3>1, OneEvent
    <3>6. rxFrame'[n] # NoFrame <=> e = "RX_DONE"
      BY <2>1, <3>1, <3>2, <3>4
    <3>7. PICK reported \in RadioEvents \ {"DEVICE_ERROR"} : reported = e
      BY <3>2
    <3>8. Reported(n, reported)'
      BY <2>1, <3>1, <3>3, <3>5, <3>6, <3>7
    <3> QED BY <3>7, <3>8
  <2> QED BY <2>2, <2>3
<1>3. CASE PollFault(n)
  <2>1. Quiet(n)
    BY <1>3 DEF PollFault, CallsProcess
  <2>2. radioEvents'[n] = <<"DEVICE_ERROR">>
    BY <1>3, <2>1 DEF PollFault, EnterError
  <2> QED
    BY <1>3, <2>2 DEF PollFault, CallsProcess, EnterError
<1>4. CASE HandleTxDone(n)
  <2>1. Next1(n, "TX_DONE") /\ Taken(n) /\ UNCHANGED <<radio, rxFrame>>
    BY <1>4 DEF HandleTxDone
  <2>2. state[n] \in AskedFor("TX_DONE") => state'[n] \in StartStates \union {"IDLE"}
    BY <1>4 DEF HandleTxDone, SetState
  <2> QED BY <2>1, <2>2, HandledEvent
<1>5. CASE HandleRxTimeout(n)
  <2>1. Next1(n, "RX_TIMEOUT") /\ Taken(n) /\ UNCHANGED <<radio, rxFrame>>
    BY <1>5 DEF HandleRxTimeout
  <2>2. state[n] \in AskedFor("RX_TIMEOUT") => state'[n] \in StartStates \union {"IDLE"}
    BY <1>5 DEF HandleRxTimeout
  <2> QED BY <2>1, <2>2, HandledEvent
<1>6. CASE HandleCrcError(n)
  <2>1. Next1(n, "CRC_ERROR") /\ Taken(n) /\ UNCHANGED <<radio, rxFrame>>
    BY <1>6 DEF HandleCrcError
  <2>2. state[n] \in AskedFor("CRC_ERROR") => state'[n] \in StartStates \union {"IDLE"}
    BY <1>6 DEF HandleCrcError
  <2> QED BY <2>1, <2>2, HandledEvent
<1>7. CASE HandleDeviceError(n)
  BY <1>7, SMTT(20)
  DEF HandleDeviceError, Next1, Recovered, RecoverFails, SetIrq, SetMode,
      LeftIn, SetState, Publish
<1>8. CASE RejectRequest(n)
  <2>1. TakeFrame(n) /\ state'[n] \in StartStates \union {"IDLE"}
    BY <1>8 DEF RejectRequest, SetState
  <2> QED BY <2>1, HandledFrame
<1>9. CASE SuppressDuplicate(n)
  <2>1. TakeFrame(n) /\ state'[n] \in StartStates \union {"IDLE"}
    BY <1>9 DEF SuppressDuplicate, SetState
  <2> QED BY <2>1, HandledFrame
<1>10. CASE AcceptRequest(n)
  <2>1. TakeFrame(n) /\ state'[n] \in StartStates \union {"IDLE"}
    BY <1>10 DEF AcceptRequest, SetState
  <2> QED BY <2>1, HandledFrame
<1>11. CASE RejectResponse(n)
  <2>1. TakeFrame(n) /\ state'[n] \in StartStates \union {"IDLE"}
    BY <1>11 DEF RejectResponse, SetState
  <2> QED BY <2>1, HandledFrame
<1>12. CASE AcceptResponse(n)
  <2>1. TakeFrame(n) /\ state'[n] \in StartStates \union {"IDLE"}
    BY <1>12 DEF AcceptResponse, SetState
  <2> QED BY <2>1, HandledFrame
<1>13. CASE ProcessTimeout(n)
  BY <1>13
  DEF ProcessTimeout, EventsDone, TimedOut, Recovered, SetIrq, SetMode
<1>14. CASE TimeoutRadioLost(n)
  BY <1>14
  DEF TimeoutRadioLost, EventsDone, TimedOut, RadioLost, RecoverFails, LeftIn,
      SetState, Publish
<1>15. CASE NoAction(n)
  BY <1>15 DEF NoAction, Acts, EventsDone
<1>16. CASE StartTx(n)
  BY <1>16 DEF StartTx, Acts, EventsDone, SetState, ToSend
<1>17. CASE StartRx(n)
  BY <1>17 DEF StartRx, Acts, EventsDone, SetState, SetIrq, SetMode
<1>18. CASE StartFails(n)
  BY <1>18
  DEF StartFails, Acts, EventsDone, EnterError, LeftIn, StartMode, SetIrq,
      ToSend
<1>19. CASE StartFailsExpired(n)
  BY <1>19, SMTT(20)
  DEF StartFailsExpired, Acts, EventsDone, Recovered, SetIrq, SetMode,
      SetState
<1>20. CASE StartRadioLost(n)
  BY <1>20
  DEF StartRadioLost, Acts, EventsDone, RadioLost, RecoverFails, LeftIn,
      StartMode, SetState, Publish, ToSend
<1>21. CASE AppDrain(n)
  BY <1>21 DEF AppDrain
<1>22. CASE Tick(n)
  BY <1>22 DEF Tick
<1>23. CASE TxEnd(n)
  BY <1>23 DEF TxEnd, Peer, Listening, AfterRx
<1>24. CASE ChipTimeout(n)
  BY <1>24 DEF ChipTimeout, SetMode
<1>25. CASE ReceiveJunk(n)
  BY <1>25 DEF ReceiveJunk, Listening, AfterRx
<1>26. CASE Restart(n)
  BY <1>26 DEF Restart, Recovered, SetState, SetIrq, SetMode, FirstState
<1> QED
  BY <1>1, <1>2, <1>3, <1>4, <1>5, <1>6, <1>7, <1>8, <1>9, <1>10, <1>11,
     <1>12, <1>13, <1>14, <1>15, <1>16, <1>17, <1>18, <1>19, <1>20, <1>21,
     <1>22, <1>23, <1>24, <1>25, <1>26
  DEF Process, Chip

-----------------------------------------------------------------------------
(* The services' event queues.                                             *)

\* Publishing into a queue with room drops nothing.
LEMMA PublishEffect ==
  ASSUME TypeOK, NEW n \in Node, NEW k \in Nat, Publish(n, k),
         eventCount[n] + k <= EventCapacity
  PROVE  /\ eventCount'[n] = eventCount[n] + k
         /\ ~dropped => ~dropped'
<1>1. eventCount[n] \in Nat /\ EventCapacity \in Nat
  BY CountAssumption DEF TypeOK
<1>2. ~(eventCount[n] + k > EventCapacity)
  BY <1>1
<1>3. eventCount'[n] = eventCount[n] + k
  BY <1>1 DEF TypeOK, Publish
<1>4. ~dropped => ~dropped'
  BY <1>2 DEF Publish
<1> QED BY <1>3, <1>4

\* Giving up publishes one event more than its caller at most.
LEMMA GiveUpEvents ==
  ASSUME TypeOK, Assumptions, NEW n \in Node, NEW k \in Nat, GiveUp(n, k),
         eventCount[n] + k <= 1
  PROVE  /\ ~dropped => ~dropped'
         /\ state'[n] \in StartStates \union {"IDLE"}
         /\ state'[n] \in StartStates => eventCount'[n] <= 1
         /\ eventCount'[n] <= 2
<1>1. eventCount[n] \in Nat /\ EventCapacity \in Nat /\ EventCapacity >= 2
  BY CountAssumption DEF TypeOK, Assumptions
<1>2. /\ eventCount[n] + k <= EventCapacity
      /\ eventCount[n] + (k + 1) <= EventCapacity
      /\ k + 1 \in Nat
  BY <1>1
<1>3. CASE state'[n] \in StartStates /\ Publish(n, k)
  <2>1. eventCount'[n] = eventCount[n] + k /\ (~dropped => ~dropped')
    BY <1>2, <1>3, PublishEffect
  <2> QED BY <1>1, <1>3, <2>1
<1>4. CASE state'[n] = "IDLE" /\ Publish(n, k)
  <2>1. eventCount'[n] = eventCount[n] + k /\ (~dropped => ~dropped')
    BY <1>2, <1>4, PublishEffect
  <2> QED BY <1>1, <1>4, <2>1 DEF StartStates
<1>5. CASE state'[n] = "IDLE" /\ Publish(n, k + 1)
  <2>1. eventCount'[n] = eventCount[n] + (k + 1) /\ (~dropped => ~dropped')
    BY <1>2, <1>5, PublishEffect
  <2>2. eventCount'[n] <= 2
    BY <1>1, <2>1
  <2> QED BY <1>5, <2>1, <2>2 DEF StartStates
<1> QED
  BY <1>3, <1>4, <1>5, GiveUpEffect, SMTT(20) DEF TypeOK, StartStates, Node, I, R

\* The adapter's queue never holds a second event.
LEMMA TakenEmpties ==
  ASSUME TypeOK, NEW n \in Node, NEW e, AdapterAt(n), Next1(n, e), Taken(n)
  PROVE  radioEvents'[n] = <<>>
<1>1. \E f : radioEvents[n] = <<f>>
  BY DEF AdapterAt, Quiet, Failed, Reported, Next1
<1> QED BY <1>1, OneEvent DEF Taken, TypeOK

\* What EventsInv says of a poll that has begun.
LEMMA EventsBefore ==
  ASSUME TypeOK, EventsInv, NEW n \in Node
  PROVE  /\ ~dropped
         /\ eventCount[n] \in Nat
         /\ pc[n] = "process" /\ radioEvents[n] # <<>> => eventCount[n] = 0
         /\ pc[n] = "process" /\ state[n] \in TimedStates => eventCount[n] = 0
         /\ pc[n] = "process" /\ state[n] \in StartStates => eventCount[n] <= 1
BY DEF TypeOK, EventsInv, MostEvents, TimedStates, StartStates

\* What it takes for EventsInv to hold after a step.
LEMMA EventsAfter ==
  ASSUME NEW n \in Node, pc'[n] = "app" \/ radioEvents'[n] = <<>>,
         eventCount'[n] <= 2,
         pc'[n] = "app" \/ state'[n] \in StartStates \union {"IDLE"},
         pc'[n] = "app" \/ (state'[n] \in StartStates => eventCount'[n] <= 1)
  PROVE  eventCount'[n] <= MostEvents(n)'
BY DEF MostEvents

\* Losing the radio publishes one event and ends the poll.
LEMMA RadioLostEvents ==
  ASSUME TypeOK, EventsInv, Assumptions, NEW n \in Node, NEW modes,
         RadioLost(n, modes),
         eventCount[n] <= 1
  PROVE  eventCount'[n] <= MostEvents(n)' /\ ~dropped'
<1>1. eventCount[n] + 1 <= EventCapacity /\ eventCount[n] \in Nat
  BY CountAssumption DEF TypeOK, Assumptions
<1>2. Publish(n, 1) /\ pc'[n] = "app"
  BY DEF RadioLost, TypeOK
<1>3. eventCount'[n] = eventCount[n] + 1 /\ ~dropped'
  BY <1>1, <1>2, PublishEffect, EventsBefore
<1>4. eventCount'[n] <= 2
  BY <1>1, <1>3
<1> QED BY <1>2, <1>3, <1>4, EventsAfter

\* So does handling a frame that is not given up.
LEMMA FrameEvents ==
  ASSUME TypeOK, EventsInv, AdapterInv, Assumptions, NEW n \in Node,
         TakeFrame(n), Publish(n, 1), state'[n] \in StartStates \union {"IDLE"}
  PROVE  eventCount'[n] <= MostEvents(n)' /\ ~dropped'
<1>1. radioEvents'[n] = <<>> /\ eventCount[n] = 0
  BY TakenEmpties, EventsBefore DEF AdapterInv, Next1, TakeFrame
<1>2. eventCount[n] + 1 <= EventCapacity
  BY <1>1, CountAssumption DEF Assumptions
<1>3. eventCount'[n] = eventCount[n] + 1 /\ ~dropped'
  BY <1>2, PublishEffect, EventsBefore
<1>4. eventCount'[n] <= 1 /\ eventCount'[n] <= 2
  BY <1>1, <1>3
<1> QED BY <1>1, <1>3, <1>4, EventsAfter

\* The node that takes the step publishes no more than its queue holds.
LEMMA EventsHere ==
  ASSUME TypeOK, RolesInv, EventsInv, AdapterInv, Assumptions, NEW n \in Node,
         Process(n) \/ AppDrain(n) \/ Tick(n) \/ Chip(n) \/ Restart(n)
  PROVE  (eventCount[n] <= MostEvents(n) /\ ~dropped)'
<1> USE 0 \in Nat, 1 \in Nat, CountAssumption
    DEF TypeOK, RolesInv, EventsInv, Assumptions, MostEvents, InitiatorStates,
        ResponderStates, TimedStates, StartStates, vars, timerVars, queueVars,
        initiatorVars, responderVars, adapterVars, chipVars, ghostVars,
        boundVars
<1>1. CASE PollQuiet(n)
  BY <1>1 DEF PollQuiet, CallsProcess
<1>2. CASE PollIrq(n)
  BY <1>2 DEF PollIrq, CallsProcess, SetIrq, EnterError
<1>3. CASE PollFault(n)
  BY <1>3 DEF PollFault, CallsProcess, Fault, EnterError, SetIrq
<1>4. CASE HandleTxDone(n)
  BY <1>4 DEF HandleTxDone, Next1, Taken, SetState
<1>5. CASE HandleRxTimeout(n)
  <2>1. Next1(n, "RX_TIMEOUT") /\ Taken(n) /\ pc' = pc
    BY <1>5 DEF HandleRxTimeout
  <2>2. radioEvents'[n] = <<>> /\ eventCount[n] = 0
    BY <2>1, TakenEmpties, EventsBefore DEF AdapterInv, Next1
  <2>3. state[n] \in AskedFor("RX_TIMEOUT")
    BY <2>1, QueueReports DEF AdapterInv, Reported
  <2>4. GiveUp(n, 0)
    BY <1>5, <2>3
    DEF HandleRxTimeout, AskedFor, I, R, Initiator, Responder, Node
  <2>5. eventCount[n] + 0 <= 1
    BY <2>2
  <2> QED BY <2>1, <2>2, <2>4, <2>5, GiveUpEvents, EventsAfter, EventsBefore
<1>6. CASE HandleCrcError(n)
  <2>1. Next1(n, "CRC_ERROR") /\ Taken(n) /\ pc' = pc
    BY <1>6 DEF HandleCrcError
  <2>2. radioEvents'[n] = <<>> /\ eventCount[n] = 0
    BY <2>1, TakenEmpties, EventsBefore DEF AdapterInv, Next1
  <2>3. state[n] \in AskedFor("CRC_ERROR")
    BY <2>1, QueueReports DEF AdapterInv, Reported
  <2>4. GiveUp(n, 0)
    BY <1>6, <2>3
    DEF HandleCrcError, AskedFor, I, R, Initiator, Responder, Node
  <2>5. eventCount[n] + 0 <= 1
    BY <2>2
  <2> QED BY <2>1, <2>2, <2>4, <2>5, GiveUpEvents, EventsAfter, EventsBefore
<1>7. CASE HandleDeviceError(n)
  <2>1. Next1(n, "DEVICE_ERROR") /\ eventCount[n] = 0
    BY <1>7, EventsBefore DEF HandleDeviceError, Next1
  <2>2. eventCount[n] + 1 <= 1
    BY <2>1
  <2>3. CASE Recovered(n) /\ GiveUp(n, 1) /\ UNCHANGED <<pc, faults>>
    <3>1. radioEvents'[n] = <<>>
      BY <2>3 DEF Recovered
    <3> QED BY <2>2, <2>3, <3>1, GiveUpEvents, EventsAfter, EventsBefore
  <2>4. CASE ~(Recovered(n) /\ GiveUp(n, 1) /\ UNCHANGED <<pc, faults>>)
    <3>1. RadioLost(n, {mode[n]})
      BY <1>7, <2>4 DEF HandleDeviceError, RadioLost
    <3> QED BY <2>1, <3>1, RadioLostEvents
  <2> QED BY <2>3, <2>4
<1>8. CASE RejectRequest(n)
  <2>1. /\ n = Responder /\ TakeFrame(n) /\ Publish(n, 1)
        /\ state'[n] \in StartStates
    BY <1>8 DEF RejectRequest, SetState
  <2> QED BY <2>1, FrameEvents
<1>9. CASE SuppressDuplicate(n)
  <2>1. /\ n = Responder /\ TakeFrame(n) /\ Publish(n, 1)
        /\ state'[n] \in StartStates
    BY <1>9 DEF SuppressDuplicate, SetState
  <2> QED BY <2>1, FrameEvents
<1>10. CASE AcceptRequest(n)
  <2>1. /\ n = Responder /\ TakeFrame(n) /\ Publish(n, 1)
        /\ state'[n] \in StartStates
    BY <1>10 DEF AcceptRequest, SetState
  <2> QED BY <2>1, FrameEvents
<1>11. CASE RejectResponse(n)
  <2>1. TakeFrame(n) /\ GiveUp(n, 1)
    BY <1>11, RetryEffect DEF RejectResponse
  <2>2. radioEvents'[n] = <<>> /\ eventCount[n] = 0
    BY <2>1, TakenEmpties, EventsBefore DEF AdapterInv, Next1, TakeFrame
  <2>3. eventCount[n] + 1 <= 1
    BY <2>2
  <2> QED BY <2>1, <2>2, <2>3, GiveUpEvents, EventsAfter, EventsBefore
<1>12. CASE AcceptResponse(n)
  <2>1. TakeFrame(n) /\ Publish(n, 1) /\ state'[n] = "IDLE"
    BY <1>12 DEF AcceptResponse, SetState
  <2> QED BY <2>1, FrameEvents
<1>13. CASE ProcessTimeout(n)
  <2>1. radioEvents'[n] = <<>> /\ GiveUp(n, 0) /\ eventCount[n] = 0
    BY <1>13, EventsBefore DEF ProcessTimeout, Recovered, EventsDone, TimedOut
  <2>2. eventCount[n] + 0 <= 1
    BY <2>1
  <2> QED BY <2>1, <2>2, GiveUpEvents, EventsAfter, EventsBefore
<1>14. CASE TimeoutRadioLost(n)
  <2>1. RadioLost(n, {mode[n]}) /\ eventCount[n] <= 1
    BY <1>14, EventsBefore DEF TimeoutRadioLost, EventsDone, TimedOut
  <2> QED BY <2>1, RadioLostEvents
<1>15. CASE NoAction(n)
  BY <1>15 DEF NoAction, Acts, EventsDone
<1>16. CASE StartTx(n)
  BY <1>16 DEF StartTx, Acts, EventsDone, SetState, ToSend
<1>17. CASE StartRx(n)
  BY <1>17 DEF StartRx, Acts, EventsDone, SetState, SetIrq, SetMode
<1>18. CASE StartFails(n)
  BY <1>18
  DEF StartFails, Acts, EventsDone, EnterError, LeftIn, StartMode, SetIrq,
      ToSend
<1>19. CASE StartFailsExpired(n)
  <2>1. pc'[n] = "app" /\ eventCount[n] <= 1 /\ eventCount[n] \in Nat
    BY <1>19, EventsBefore DEF StartFailsExpired, Acts, EventsDone
  <2>2. eventCount[n] + 0 <= 1
    BY <2>1
  <2>3. CASE n = Initiator /\ RetryOrFail(0)
    BY <2>1, <2>2, <2>3, RetryEffect, GiveUpEvents, EventsAfter, EventsBefore
  <2>4. CASE UNCHANGED queueVars
    BY <2>1, <2>4, EventsAfter, EventsBefore
  <2>5. state[n] = "START_RESPONSE_RX" => n = Initiator
    BY DEF ResponderStates, I, R, Node
  <2> QED BY <1>19, <2>3, <2>4, <2>5 DEF StartFailsExpired
<1>20. CASE StartRadioLost(n)
  <2>1. RadioLost(n, {mode[n], StartMode(n)}) /\ eventCount[n] <= 1
    BY <1>20, EventsBefore DEF StartRadioLost, Acts, EventsDone
  <2> QED BY <2>1, RadioLostEvents
<1>21. CASE AppDrain(n)
  BY <1>21 DEF AppDrain
<1>22. CASE Tick(n)
  BY <1>22 DEF Tick
<1>23. CASE TxEnd(n)
  BY <1>23 DEF TxEnd, Peer, Listening, AfterRx
<1>24. CASE ChipTimeout(n)
  BY <1>24 DEF ChipTimeout, SetMode
<1>25. CASE ReceiveJunk(n)
  BY <1>25 DEF ReceiveJunk, Listening, AfterRx
<1>26. CASE Restart(n)
  BY <1>26 DEF Restart, Recovered, SetState, SetIrq, SetMode, FirstState
<1> QED
  BY <1>1, <1>2, <1>3, <1>4, <1>5, <1>6, <1>7, <1>8, <1>9, <1>10, <1>11,
     <1>12, <1>13, <1>14, <1>15, <1>16, <1>17, <1>18, <1>19, <1>20, <1>21,
     <1>22, <1>23, <1>24, <1>25, <1>26
  DEF Process, Chip

-----------------------------------------------------------------------------
(* The chips.                                                              *)

\* A service about to transmit has a frame to send.
LEMMA ToSendReady ==
  ASSUME RequestInv, ResponseInv, RolesInv, NEW n \in Node,
         state[n] \in StartStates,
         StartMode(n) = "TX"
  PROVE  ToSend(n) # NoFrame
BY DEF RequestInv, ResponseInv, RolesInv, StartMode, ToSend, StartStates,
       InitiatorStates, ResponderStates, I, R, Initiator, Responder, Node

LeftHere(n) ==
  /\ mode'[n] = "TX" <=> txBuffer'[n] # NoFrame
  /\ \A m \in Node \ {n} : mode'[m] = mode[m] /\ txBuffer'[m] = txBuffer[m]

\* A failing command leaves a chip that transmits only if it has a frame.
LEMMA LeftInEffect ==
  ASSUME TypeOK, ChipInv, NEW n \in Node, NEW modes, LeftIn(n, modes),
         "TX" \in modes => mode[n] = "TX" \/ ToSend(n) # NoFrame
  PROVE  LeftHere(n)
BY DEF TypeOK, ChipInv, LeftIn, LeftHere

\* What the adapters believe of the chips stays true.
LEMMA ChipHere ==
  ASSUME TypeOK, RolesInv, AdapterInv, ChipInv, InitiatorChipInv,
         ResponderChipInv, RequestInv, ResponseInv, NEW n \in Node,
         Process(n) \/ AppDrain(n) \/ Tick(n) \/ Chip(n) \/ Restart(n)
  PROVE  ChipInv'
<1> USE 0 \in Nat
    DEF TypeOK, RolesInv, ChipInv, AdapterInv, AdapterAt, Quiet, Failed,
        Reported, ExpectedIn, I, R, Initiator, Responder, Node,
        InitiatorStates, ResponderStates, TimedStates, StartStates, AskedFor,
        WaitingFor, ServiceStates, vars, timerVars, queueVars, initiatorVars,
        responderVars, adapterVars, chipVars, ghostVars, boundVars
<1>1. CASE PollQuiet(n)
  BY <1>1 DEF PollQuiet, CallsProcess
<1>2. CASE PollIrq(n)
  <2>1. UNCHANGED <<mode, txBuffer>> /\ SetIrq(n, {})
    BY <1>2 DEF PollIrq
  <2>2. CASE EnterError(n)
    BY <2>1, <2>2 DEF EnterError, SetIrq
  <2>3. CASE ~EnterError(n)
    <3>1. radio' = [radio EXCEPT ![n] = "IDLE"] /\ irq[n] # {}
          /\ radio[n] = ExpectedIn(FirstIrq(irq[n]))
      BY <1>2, <2>3 DEF PollIrq
    <3>2. CASE radio[n] = "RX"
      <4>1. mode[n] # "TX"
        BY <3>2 DEF InitiatorChipInv, ResponderChipInv
      <4> QED BY <2>1, <3>1, <4>1 DEF SetIrq
    <3>3. CASE radio[n] = "TX"
      <4>1. "RX_DONE" \notin irq[n]
        BY <3>1, <3>3 DEF FirstIrq
      <4>2. mode[n] = "STANDBY"
        BY <3>1, <3>3, <4>1
      <4> QED BY <2>1, <3>1, <4>2 DEF SetIrq
    <3> QED BY <3>1, <3>2, <3>3
  <2> QED BY <2>2, <2>3
<1>3. CASE PollFault(n)
  BY <1>3 DEF PollFault, CallsProcess, Fault, EnterError, SetIrq
<1>4. CASE HandleTxDone(n)
  BY <1>4 DEF HandleTxDone, Next1, Taken, SetState
<1>5. CASE HandleRxTimeout(n)
  BY <1>5 DEF HandleRxTimeout, Next1, Taken
<1>6. CASE HandleCrcError(n)
  BY <1>6 DEF HandleCrcError, Next1, Taken
<1>7. CASE HandleDeviceError(n)
  BY <1>7
  DEF HandleDeviceError, Next1, Recovered, RecoverFails, SetIrq, SetMode,
      LeftIn, SetState, Publish
<1>8. CASE RejectRequest(n)
  BY <1>8 DEF RejectRequest, Next1, Taken, TakeFrame, SetState, Publish
<1>9. CASE SuppressDuplicate(n)
  BY <1>9 DEF SuppressDuplicate, Next1, Taken, TakeFrame, SetState, Publish
<1>10. CASE AcceptRequest(n)
  BY <1>10 DEF AcceptRequest, Next1, Taken, TakeFrame, SetState, Publish
<1>11. CASE RejectResponse(n)
  BY <1>11 DEF RejectResponse, Next1, Taken, TakeFrame
<1>12. CASE AcceptResponse(n)
  BY <1>12 DEF AcceptResponse, Next1, Taken, TakeFrame, SetState, Publish
<1>13. CASE ProcessTimeout(n)
  BY <1>13
  DEF ProcessTimeout, EventsDone, TimedOut, Recovered, SetIrq, SetMode
<1>14. CASE TimeoutRadioLost(n)
  BY <1>14
  DEF TimeoutRadioLost, EventsDone, TimedOut, RadioLost, RecoverFails, LeftIn,
      SetState, Publish
<1>15. CASE NoAction(n)
  BY <1>15 DEF NoAction, Acts, EventsDone
<1>16. CASE StartTx(n)
  BY <1>16 DEF StartTx, Acts, EventsDone, SetState, ToSend
<1>17. CASE StartRx(n)
  BY <1>17 DEF StartRx, Acts, EventsDone, SetState, SetIrq, SetMode
<1>18. CASE StartFails(n)
  <2>1. LeftIn(n, {mode[n], StartMode(n)}) \/ LeftIn(n, {mode[n], StartMode(n)} \union {"STANDBY"})
    BY <1>18 DEF StartFails, RadioLost, RecoverFails
  <2>2. StartMode(n) = "TX" => ToSend(n) # NoFrame
    BY <1>18, ToSendReady DEF StartFails, Acts
  <2>3. LeftHere(n)
    BY <2>1, <2>2, LeftInEffect
  <2> QED
    BY <1>18, <2>3
    DEF LeftHere, StartFails, RadioLost, RecoverFails, EnterError, SetIrq
<1>19. CASE StartFailsExpired(n)
  BY <1>19
  DEF StartFailsExpired, Acts, EventsDone, Recovered, SetIrq, SetMode,
      SetState
<1>20. CASE StartRadioLost(n)
  <2>1. LeftIn(n, {mode[n], StartMode(n)}) \/ LeftIn(n, {mode[n], StartMode(n)} \union {"STANDBY"})
    BY <1>20 DEF StartRadioLost, RadioLost, RecoverFails
  <2>2. StartMode(n) = "TX" => ToSend(n) # NoFrame
    BY <1>20, ToSendReady DEF StartRadioLost, Acts
  <2>3. LeftHere(n)
    BY <2>1, <2>2, LeftInEffect
  <2> QED
    BY <1>20, <2>3
    DEF LeftHere, StartRadioLost, RadioLost, RecoverFails, EnterError, SetIrq
<1>21. CASE AppDrain(n)
  BY <1>21 DEF AppDrain
<1>22. CASE Tick(n)
  BY <1>22 DEF Tick
<1>23. CASE TxEnd(n)
  BY <1>23 DEF TxEnd, Peer, Listening, AfterRx
<1>24. CASE ChipTimeout(n)
  BY <1>24 DEF ChipTimeout, SetMode
<1>25. CASE ReceiveJunk(n)
  BY <1>25 DEF ReceiveJunk, Listening, AfterRx, Junk, NoFrame
<1>26. CASE Restart(n)
  BY <1>26 DEF Restart, Recovered, SetState, SetIrq, SetMode, FirstState
<1> QED
  BY <1>1, <1>2, <1>3, <1>4, <1>5, <1>6, <1>7, <1>8, <1>9, <1>10, <1>11,
     <1>12, <1>13, <1>14, <1>15, <1>16, <1>17, <1>18, <1>19, <1>20, <1>21,
     <1>22, <1>23, <1>24, <1>25, <1>26
  DEF Process, Chip

\* The initiator's chip stays quiet between its receives.
LEMMA InitiatorChipHere ==
  ASSUME TypeOK, RolesInv, AdapterInv, ChipInv, InitiatorChipInv,
         NEW n \in Node,
         Process(n) \/ AppDrain(n) \/ Tick(n) \/ Chip(n) \/ Restart(n)
  PROVE  InitiatorChipInv'
<1> USE 0 \in Nat
    DEF TypeOK, RolesInv, AdapterInv, AdapterAt, Quiet, Failed, Reported,
        ChipInv, InitiatorChipInv, FirstIrq, ExpectedIn, I, R, Initiator,
        Responder, Node, InitiatorStates, ResponderStates, TimedStates,
        StartStates, AskedFor, WaitingFor, ServiceStates, vars, timerVars,
        queueVars, initiatorVars, responderVars, adapterVars, chipVars,
        ghostVars, boundVars
<1>1. CASE PollQuiet(n)
  BY <1>1 DEF PollQuiet, CallsProcess
<1>2. CASE PollIrq(n)
  BY <1>2 DEF PollIrq, CallsProcess, SetIrq, EnterError
<1>3. CASE PollFault(n)
  BY <1>3 DEF PollFault, CallsProcess, Fault, EnterError, SetIrq
<1>4. CASE HandleTxDone(n)
  BY <1>4 DEF HandleTxDone, Next1, Taken, SetState
<1>5. CASE HandleRxTimeout(n)
  BY <1>5 DEF HandleRxTimeout, Next1, Taken
<1>6. CASE HandleCrcError(n)
  BY <1>6 DEF HandleCrcError, Next1, Taken
<1>7. CASE HandleDeviceError(n)
  BY <1>7
  DEF HandleDeviceError, Next1, Recovered, RecoverFails, SetIrq, SetMode,
      LeftIn, SetState, Publish
<1>8. CASE RejectRequest(n)
  BY <1>8 DEF RejectRequest, Next1, Taken, TakeFrame, SetState, Publish
<1>9. CASE SuppressDuplicate(n)
  BY <1>9 DEF SuppressDuplicate, Next1, Taken, TakeFrame, SetState, Publish
<1>10. CASE AcceptRequest(n)
  BY <1>10 DEF AcceptRequest, Next1, Taken, TakeFrame, SetState, Publish
<1>11. CASE RejectResponse(n)
  BY <1>11 DEF RejectResponse, Next1, Taken, TakeFrame
<1>12. CASE AcceptResponse(n)
  BY <1>12 DEF AcceptResponse, Next1, Taken, TakeFrame, SetState, Publish
<1>13. CASE ProcessTimeout(n)
  BY <1>13
  DEF ProcessTimeout, EventsDone, TimedOut, Recovered, SetIrq, SetMode
<1>14. CASE TimeoutRadioLost(n)
  BY <1>14
  DEF TimeoutRadioLost, EventsDone, TimedOut, RadioLost, RecoverFails, LeftIn,
      SetState, Publish
<1>15. CASE NoAction(n)
  BY <1>15 DEF NoAction, Acts, EventsDone
<1>16. CASE StartTx(n)
  BY <1>16 DEF StartTx, Acts, EventsDone, SetState, ToSend
<1>17. CASE StartRx(n)
  BY <1>17 DEF StartRx, Acts, EventsDone, SetState, SetIrq, SetMode
<1>18. CASE StartFails(n)
  BY <1>18
  DEF StartFails, Acts, EventsDone, EnterError, LeftIn, StartMode, SetIrq,
      ToSend
<1>19. CASE StartFailsExpired(n)
  BY <1>19
  DEF StartFailsExpired, Acts, EventsDone, Recovered, SetIrq, SetMode,
      SetState
<1>20. CASE StartRadioLost(n)
  BY <1>20
  DEF StartRadioLost, Acts, EventsDone, RadioLost, RecoverFails, LeftIn,
      StartMode, SetState, Publish, ToSend
<1>21. CASE AppDrain(n)
  BY <1>21 DEF AppDrain
<1>22. CASE Tick(n)
  BY <1>22 DEF Tick
<1>23. CASE TxEnd(n)
  BY <1>23 DEF TxEnd, Peer, Listening, AfterRx
<1>24. CASE ChipTimeout(n)
  BY <1>24 DEF ChipTimeout, SetMode
<1>25. CASE ReceiveJunk(n)
  BY <1>25 DEF ReceiveJunk, Listening, AfterRx
<1>26. CASE Restart(n)
  BY <1>26 DEF Restart, Recovered, SetState, SetIrq, SetMode, FirstState
<1> QED
  BY <1>1, <1>2, <1>3, <1>4, <1>5, <1>6, <1>7, <1>8, <1>9, <1>10, <1>11,
     <1>12, <1>13, <1>14, <1>15, <1>16, <1>17, <1>18, <1>19, <1>20, <1>21,
     <1>22, <1>23, <1>24, <1>25, <1>26
  DEF Process, Chip

\* The responder's chip receives whenever its adapter says so.
LEMMA ResponderChipHere ==
  ASSUME TypeOK, RolesInv, AdapterInv, ResponderChipInv, NEW n \in Node,
         Process(n) \/ AppDrain(n) \/ Tick(n) \/ Chip(n) \/ Restart(n)
  PROVE  ResponderChipInv'
<1> USE 0 \in Nat
    DEF TypeOK, RolesInv, AdapterInv, AdapterAt, Quiet, Failed, Reported,
        ResponderChipInv, I, R, Initiator, Responder, Node, InitiatorStates,
        ResponderStates, TimedStates, StartStates, AskedFor, WaitingFor,
        ServiceStates, vars, timerVars, queueVars, initiatorVars,
        responderVars, adapterVars, chipVars, ghostVars, boundVars
<1>1. CASE PollQuiet(n)
  BY <1>1 DEF PollQuiet, CallsProcess
<1>2. CASE PollIrq(n)
  BY <1>2 DEF PollIrq, CallsProcess, SetIrq, EnterError
<1>3. CASE PollFault(n)
  BY <1>3 DEF PollFault, CallsProcess, Fault, EnterError, SetIrq
<1>4. CASE HandleTxDone(n)
  BY <1>4 DEF HandleTxDone, Next1, Taken, SetState
<1>5. CASE HandleRxTimeout(n)
  BY <1>5 DEF HandleRxTimeout, Next1, Taken
<1>6. CASE HandleCrcError(n)
  BY <1>6 DEF HandleCrcError, Next1, Taken
<1>7. CASE HandleDeviceError(n)
  BY <1>7
  DEF HandleDeviceError, Next1, Recovered, RecoverFails, SetIrq, SetMode,
      LeftIn, SetState, Publish
<1>8. CASE RejectRequest(n)
  BY <1>8 DEF RejectRequest, Next1, Taken, TakeFrame, SetState, Publish
<1>9. CASE SuppressDuplicate(n)
  BY <1>9 DEF SuppressDuplicate, Next1, Taken, TakeFrame, SetState, Publish
<1>10. CASE AcceptRequest(n)
  BY <1>10 DEF AcceptRequest, Next1, Taken, TakeFrame, SetState, Publish
<1>11. CASE RejectResponse(n)
  BY <1>11 DEF RejectResponse, Next1, Taken, TakeFrame
<1>12. CASE AcceptResponse(n)
  BY <1>12 DEF AcceptResponse, Next1, Taken, TakeFrame, SetState, Publish
<1>13. CASE ProcessTimeout(n)
  BY <1>13
  DEF ProcessTimeout, EventsDone, TimedOut, Recovered, SetIrq, SetMode
<1>14. CASE TimeoutRadioLost(n)
  BY <1>14
  DEF TimeoutRadioLost, EventsDone, TimedOut, RadioLost, RecoverFails, LeftIn,
      SetState, Publish
<1>15. CASE NoAction(n)
  BY <1>15 DEF NoAction, Acts, EventsDone
<1>16. CASE StartTx(n)
  BY <1>16 DEF StartTx, Acts, EventsDone, SetState, ToSend
<1>17. CASE StartRx(n)
  BY <1>17 DEF StartRx, Acts, EventsDone, SetState, SetIrq, SetMode
<1>18. CASE StartFails(n)
  BY <1>18
  DEF StartFails, Acts, EventsDone, EnterError, LeftIn, StartMode, SetIrq,
      ToSend
<1>19. CASE StartFailsExpired(n)
  BY <1>19
  DEF StartFailsExpired, Acts, EventsDone, Recovered, SetIrq, SetMode,
      SetState
<1>20. CASE StartRadioLost(n)
  BY <1>20
  DEF StartRadioLost, Acts, EventsDone, RadioLost, RecoverFails, LeftIn,
      StartMode, SetState, Publish, ToSend
<1>21. CASE AppDrain(n)
  BY <1>21 DEF AppDrain
<1>22. CASE Tick(n)
  BY <1>22 DEF Tick
<1>23. CASE TxEnd(n)
  BY <1>23 DEF TxEnd, Peer, Listening, AfterRx
<1>24. CASE ChipTimeout(n)
  BY <1>24 DEF ChipTimeout, SetMode
<1>25. CASE ReceiveJunk(n)
  BY <1>25 DEF ReceiveJunk, Listening, AfterRx
<1>26. CASE Restart(n)
  BY <1>26 DEF Restart, Recovered, SetState, SetIrq, SetMode, FirstState
<1> QED
  BY <1>1, <1>2, <1>3, <1>4, <1>5, <1>6, <1>7, <1>8, <1>9, <1>10, <1>11,
     <1>12, <1>13, <1>14, <1>15, <1>16, <1>17, <1>18, <1>19, <1>20, <1>21,
     <1>22, <1>23, <1>24, <1>25, <1>26
  DEF Process, Chip

-----------------------------------------------------------------------------
(* The frames.                                                             *)

\* Requests, responses and everything else that is received are told apart.
LEMMA FrameFacts ==
  /\ \A f, x : IsRequest(f, x) => f # NoFrame /\ f.type \in RequestType /\ f \in Requests
  /\ \A f, x, acc : IsResponse(f, x, acc) =>
       f # NoFrame /\ f.type \in ResponseType /\ f \in Responses /\ f.xid \in acc
  /\ \A f, x, acc, more : IsResponse(f, x, acc) /\ acc \subseteq more => IsResponse(f, x, more)
  /\ \A f \in NoPeer : f.type \notin RequestType \union ResponseType /\ f.xid = 0
  /\ NoFrame \in NoPeer /\ Junk \subseteq NoPeer
BY DEF IsRequest, IsResponse, Requests, Responses, RequestType, ResponseType,
       NoFrame, NoPeer, Junk

\* Giving up turns no exchange into a success.
LEMMA GiveUpFrame ==
  ASSUME TypeOK, NEW n \in Node, NEW k \in Nat, GiveUp(n, k) \/ RetryOrFail(k)
  PROVE  /\ UNCHANGED <<pending, nextSeq>>
         /\ ~active => ~active'
         /\ state'[R] \in {state[R], "START_RESPONDER_RX"}
         /\ \A x \in Exchanges : outcome'[x] = "succeeded" => outcome[x] = "succeeded"
<1>1. PICK m \in Node : GiveUp(m, k)
  BY DEF GiveUp, Node
<1>2. I # R /\ I \in Node /\ R \in Node
  BY DEF I, R, Initiator, Responder, Node
<1>3. CASE m = R
  BY <1>1, <1>2, <1>3, GiveUpEffect DEF TypeOK
<1>4. CASE m = I
  <2>1. /\ UNCHANGED <<pending, nextSeq>>
        /\ ~active => ~active'
        /\ state'[R] = state[R]
    BY <1>1, <1>2, <1>4, GiveUpEffect DEF TypeOK
  <2>2. outcome' = outcome \/ outcome' = [outcome EXCEPT ![pending.xid] = "failed"]
    BY <1>1, <1>2, <1>4, GiveUpEffect
  <2> QED BY <2>1, <2>2 DEF TypeOK
<1> QED BY <1>1, <1>3, <1>4 DEF Node, I, R

\* Frames less than a cycle of sequence numbers old with the same sequence
\* number belong to the same exchange.
LEMMA SameExchange ==
  ASSUME NEW x \in Nat, NEW f, NEW g, InWindow(f, x), InWindow(g, x),
         f.seq = g.seq
  PROVE  f.xid = g.xid
<1>1. /\ SeqModulus \in Nat \ {0} /\ InitialSequence \in Int
      /\ f.xid \in 1..x /\ g.xid \in 1..x
      /\ x - f.xid < SeqModulus /\ x - g.xid < SeqModulus
      /\ SeqOf(f.xid) = SeqOf(g.xid)
  BY SequenceAssumption DEF InWindow
<1> DEFINE a == InitialSequence + f.xid - 1
           b == InitialSequence + g.xid - 1
<1>2. a \in Int /\ b \in Int /\ a % SeqModulus = b % SeqModulus
  BY <1>1 DEF SeqOf
<1>3. a - b = f.xid - g.xid
  BY <1>1
<1>4. b - a < SeqModulus /\ a - b < SeqModulus
  BY <1>1
<1> HIDE DEF a, b
<1>5. ~(a < b) /\ ~(b < a)
  BY <1>1, <1>2, <1>4, ModWindow
<1>6. a = b
  BY <1>2, <1>5
<1> QED BY <1>1, <1>2, <1>3, <1>6

\* The response to an accepted request is one that IsResponse describes.
LEMMA ResponseTo ==
  ASSUME NEW f, NEW x, NEW acc, IsRequest(f, x)
  PROVE  LET r == Request(ExpectedResponse(f.type), f.seq, f.xid) IN
         IsResponse(r, x, acc \union {f.xid}) /\ r.xid = f.xid /\ r # NoFrame
BY DEF IsRequest, IsResponse, InWindow, Requests, Responses, RequestType,
       ResponseType, Request, ExpectedResponse, NoFrame

\* What the initiator sends and receives stays as RequestInv says.
LEMMA RequestHere ==
  ASSUME TypeOK, RolesInv, AdapterInv, ChipInv, InitiatorChipInv, RequestInv,
         ResponseInv, Assumptions, NEW n \in Node,
         Process(n) \/ AppDrain(n) \/ Tick(n) \/ Chip(n) \/ Restart(n)
  PROVE  RequestInv'
<1> USE FrameFacts, GiveUpFrame, 0 \in Nat, 1 \in Nat
    DEF TypeOK, RequestInv, I, R, Initiator, Responder, Node, vars, timerVars,
        queueVars, initiatorVars, responderVars, adapterVars, chipVars,
        ghostVars, boundVars
<1>1. CASE PollQuiet(n)
  BY <1>1 DEF PollQuiet, CallsProcess
<1>2. CASE PollIrq(n)
  BY <1>2 DEF PollIrq, CallsProcess, SetIrq, EnterError
<1>3. CASE PollFault(n)
  BY <1>3 DEF PollFault, CallsProcess, Fault, EnterError, SetIrq
<1>4. CASE HandleTxDone(n)
  BY <1>4 DEF HandleTxDone, Next1, Taken, SetState
<1>5. CASE HandleRxTimeout(n)
  BY <1>5 DEF HandleRxTimeout, Next1, Taken
<1>6. CASE HandleCrcError(n)
  BY <1>6 DEF HandleCrcError, Next1, Taken
<1>7. CASE HandleDeviceError(n)
  BY <1>7, SMTT(20)
  DEF HandleDeviceError, Next1, Recovered, RecoverFails, SetIrq, SetMode,
      LeftIn, SetState, Publish
<1>8. CASE RejectRequest(n)
  BY <1>8 DEF RejectRequest, Next1, Taken, TakeFrame, SetState, Publish
<1>9. CASE SuppressDuplicate(n)
  BY <1>9 DEF SuppressDuplicate, Next1, Taken, TakeFrame, SetState, Publish
<1>10. CASE AcceptRequest(n)
  BY <1>10 DEF AcceptRequest, Next1, Taken, TakeFrame, SetState, Publish
<1>11. CASE RejectResponse(n)
  BY <1>11 DEF RejectResponse, Next1, Taken, TakeFrame
<1>12. CASE AcceptResponse(n)
  BY <1>12 DEF AcceptResponse, Next1, Taken, TakeFrame, SetState, Publish
<1>13. CASE ProcessTimeout(n)
  BY <1>13
  DEF ProcessTimeout, EventsDone, TimedOut, Recovered, SetIrq, SetMode
<1>14. CASE TimeoutRadioLost(n)
  BY <1>14
  DEF TimeoutRadioLost, EventsDone, TimedOut, RadioLost, RecoverFails, LeftIn,
      SetState, Publish
<1>15. CASE NoAction(n)
  BY <1>15 DEF NoAction, Acts, EventsDone
<1>16. CASE StartTx(n)
  BY <1>16 DEF StartTx, Acts, EventsDone, SetState, ToSend
<1>17. CASE StartRx(n)
  BY <1>17 DEF StartRx, Acts, EventsDone, SetState, SetIrq, SetMode
<1>18. CASE StartFails(n)
  BY <1>18
  DEF StartFails, Acts, EventsDone, EnterError, LeftIn, StartMode, SetIrq,
      ToSend
<1>19. CASE StartFailsExpired(n)
  BY <1>19
  DEF StartFailsExpired, Acts, EventsDone, Recovered, SetIrq, SetMode,
      SetState
<1>20. CASE StartRadioLost(n)
  BY <1>20
  DEF StartRadioLost, Acts, EventsDone, RadioLost, RecoverFails, LeftIn,
      StartMode, SetState, Publish, ToSend
<1>21. CASE AppDrain(n)
  BY <1>21 DEF AppDrain
<1>22. CASE Tick(n)
  BY <1>22 DEF Tick
<1>23. CASE TxEnd(n)
  <2>1. mode[n] = "TX" /\ txBuffer[n] # NoFrame
    BY <1>23 DEF TxEnd, ChipInv
  <2>2. txBuffer'[n] = NoFrame /\ \A m \in Node \ {n} : txBuffer'[m] = txBuffer[m]
    BY <1>23 DEF TxEnd
  <2>3. \A m \in Node : rxBuffer'[m] = rxBuffer[m] \/ (m # n /\ rxBuffer'[m] = txBuffer[n])
    BY <1>23 DEF TxEnd, Peer
  <2>4. n = R => IsResponse(txBuffer[n], exchange, accepted)
    BY <2>1 DEF ResponseInv
  <2> QED BY <1>23, <2>2, <2>3, <2>4 DEF TxEnd
<1>24. CASE ChipTimeout(n)
  BY <1>24 DEF ChipTimeout, SetMode
<1>25. CASE ReceiveJunk(n)
  BY <1>25 DEF ReceiveJunk, Listening, AfterRx
<1>26. CASE Restart(n)
  <2>1. n = R
    BY <1>26 DEF Restart, Assumptions
  <2> QED BY <1>26, <2>1 DEF Restart, Recovered, SetIrq, SetMode
<1> QED
  BY <1>1, <1>2, <1>3, <1>4, <1>5, <1>6, <1>7, <1>8, <1>9, <1>10, <1>11,
     <1>12, <1>13, <1>14, <1>15, <1>16, <1>17, <1>18, <1>19, <1>20, <1>21,
     <1>22, <1>23, <1>24, <1>25, <1>26
  DEF Process, Chip

\* What the responder sends and receives stays as ResponseInv says.
LEMMA ResponseHere ==
  ASSUME TypeOK, RolesInv, AdapterInv, ChipInv, ResponderChipInv, RequestInv,
         ResponseInv, Assumptions, EventsInv, NEW n \in Node,
         Process(n) \/ AppDrain(n) \/ Tick(n) \/ Chip(n) \/ Restart(n)
  PROVE  ResponseInv'
<1> USE FrameFacts, GiveUpFrame, 0 \in Nat, 1 \in Nat
    DEF TypeOK, ResponseInv, I, R, Initiator, Responder, Node, vars,
        timerVars, queueVars, initiatorVars, responderVars, adapterVars,
        chipVars, ghostVars, boundVars
<1>1. CASE PollQuiet(n)
  BY <1>1 DEF PollQuiet, CallsProcess
<1>2. CASE PollIrq(n)
  BY <1>2 DEF PollIrq, CallsProcess, SetIrq, EnterError
<1>3. CASE PollFault(n)
  BY <1>3 DEF PollFault, CallsProcess, Fault, EnterError, SetIrq
<1>4. CASE HandleTxDone(n)
  BY <1>4 DEF HandleTxDone, Next1, Taken, SetState
<1>5. CASE HandleRxTimeout(n)
  BY <1>5 DEF HandleRxTimeout, Next1, Taken
<1>6. CASE HandleCrcError(n)
  BY <1>6 DEF HandleCrcError, Next1, Taken
<1>7. CASE HandleDeviceError(n)
  BY <1>7
  DEF HandleDeviceError, Next1, Recovered, RecoverFails, SetIrq, SetMode,
      LeftIn, SetState, Publish
<1>8. CASE RejectRequest(n)
  BY <1>8 DEF RejectRequest, Next1, Taken, TakeFrame, SetState, Publish
<1>9. CASE SuppressDuplicate(n)
  BY <1>9 DEF SuppressDuplicate, Next1, Taken, TakeFrame, SetState, Publish
<1>10. CASE AcceptRequest(n)
  <2> DEFINE f == rxFrame[R]
             r == Request(ExpectedResponse(f.type), f.seq, f.xid)
  <2>1. /\ n = R /\ TakeFrame(n) /\ last' = f /\ cached' = r
        /\ f.type \in RequestType
        /\ HasRoom(R) => accepted' = accepted \union {f.xid}
        /\ UNCHANGED exchange
    BY <1>10 DEF AcceptRequest
  <2>2. HasRoom(R)
    <3>1. eventCount[R] = 0
      BY <2>1, EventsBefore DEF TakeFrame, Next1
    <3> QED BY <3>1, CountAssumption DEF HasRoom, Assumptions
  <2>3. IsRequest(f, exchange) /\ f # NoFrame
    BY <2>1
  <2>4. IsResponse(r, exchange, accepted') /\ r.xid = f.xid /\ r # NoFrame
    BY <2>1, <2>2, <2>3, ResponseTo
  <2>5. radio[R] = "IDLE"
    BY <2>1, QueueReports DEF AdapterInv, TakeFrame, Reported
  <2>6. txBuffer[R] = NoFrame
    BY <2>5 DEF ChipInv
  <2>7. /\ UNCHANGED <<txBuffer, rxBuffer>> /\ rxFrame'[R] = NoFrame
    BY <2>1 DEF TakeFrame
  <2> QED BY <2>1, <2>3, <2>4, <2>6, <2>7
<1>11. CASE RejectResponse(n)
  BY <1>11 DEF RejectResponse, Next1, Taken, TakeFrame
<1>12. CASE AcceptResponse(n)
  BY <1>12 DEF AcceptResponse, Next1, Taken, TakeFrame, SetState, Publish
<1>13. CASE ProcessTimeout(n)
  BY <1>13
  DEF ProcessTimeout, EventsDone, TimedOut, Recovered, SetIrq, SetMode
<1>14. CASE TimeoutRadioLost(n)
  BY <1>14
  DEF TimeoutRadioLost, EventsDone, TimedOut, RadioLost, RecoverFails, LeftIn,
      SetState, Publish
<1>15. CASE NoAction(n)
  BY <1>15 DEF NoAction, Acts, EventsDone
<1>16. CASE StartTx(n)
  BY <1>16 DEF StartTx, Acts, EventsDone, SetState, ToSend
<1>17. CASE StartRx(n)
  BY <1>17 DEF StartRx, Acts, EventsDone, SetState, SetIrq, SetMode
<1>18. CASE StartFails(n)
  BY <1>18
  DEF StartFails, Acts, EventsDone, EnterError, LeftIn, StartMode, SetIrq,
      ToSend
<1>19. CASE StartFailsExpired(n)
  BY <1>19
  DEF StartFailsExpired, Acts, EventsDone, Recovered, SetIrq, SetMode,
      SetState
<1>20. CASE StartRadioLost(n)
  BY <1>20
  DEF StartRadioLost, Acts, EventsDone, RadioLost, RecoverFails, LeftIn,
      StartMode, SetState, Publish, ToSend
<1>21. CASE AppDrain(n)
  BY <1>21 DEF AppDrain
<1>22. CASE Tick(n)
  BY <1>22 DEF Tick
<1>23. CASE TxEnd(n)
  <2>1. mode[n] = "TX" /\ txBuffer[n] # NoFrame
    BY <1>23 DEF TxEnd, ChipInv
  <2>2. txBuffer'[n] = NoFrame /\ \A m \in Node \ {n} : txBuffer'[m] = txBuffer[m]
    BY <1>23 DEF TxEnd
  <2>3. \A m \in Node : rxBuffer'[m] = rxBuffer[m] \/ (m # n /\ rxBuffer'[m] = txBuffer[n])
    BY <1>23 DEF TxEnd, Peer
  <2>4. n = I => IsRequest(txBuffer[n], exchange)
    BY <2>1 DEF RequestInv
  <2> QED BY <1>23, <2>2, <2>3, <2>4 DEF TxEnd
<1>24. CASE ChipTimeout(n)
  BY <1>24 DEF ChipTimeout, SetMode
<1>25. CASE ReceiveJunk(n)
  BY <1>25 DEF ReceiveJunk, Listening, AfterRx
<1>26. CASE Restart(n)
  BY <1>26 DEF Restart, Recovered, SetState, SetIrq, SetMode, FirstState
<1> QED
  BY <1>1, <1>2, <1>3, <1>4, <1>5, <1>6, <1>7, <1>8, <1>9, <1>10, <1>11,
     <1>12, <1>13, <1>14, <1>15, <1>16, <1>17, <1>18, <1>19, <1>20, <1>21,
     <1>22, <1>23, <1>24, <1>25, <1>26
  DEF Process, Chip

\* A request that is not taken for a duplicate is newer than every request the
\* responder has handed over.
LEMMA NewRequest ==
  ASSUME TypeOK, ResponseInv, OrderInv, rxFrame[R].type \in RequestType,
         ~IsDuplicate(rxFrame[R])
  PROVE  LET f == rxFrame[R] IN
         /\ f.xid \in 1..exchange /\ f.xid \in Exchanges
         /\ \A x \in Exchanges : received[x] > 0 => received[x] = 1 /\ x < f.xid
<1> DEFINE f == rxFrame[R]
<1>1. IsRequest(f, exchange)
  BY FrameFacts DEF ResponseInv
<1>2. f.xid \in 1..exchange /\ f.seq = SeqOf(f.xid) /\ f.xid \in Exchanges
  BY <1>1 DEF IsRequest, InWindow, Requests
<1>3. last # NoFrame => last.xid \in 1..exchange /\ last.xid < f.xid
  <2>1. SUFFICES ASSUME last # NoFrame
                 PROVE  last.xid \in 1..exchange /\ last.xid < f.xid
    OBVIOUS
  <2>2. last.xid \in 1..exchange /\ last.seq = SeqOf(last.xid)
    BY <2>1 DEF ResponseInv, IsRequest, InWindow
  <2>3. last.xid # f.xid
    BY <1>2, <2>1, <2>2 DEF IsDuplicate
  <2>4. last.xid <= f.xid
    BY <1>2, <2>2 DEF OrderInv, NotBefore
  <2> QED BY <1>2, <2>2, <2>3, <2>4
<1>4. \A x \in Exchanges : received[x] > 0 => received[x] = 1 /\ x < f.xid
  BY <1>2, <1>3 DEF OrderInv, NoFrame, Exchanges
<1> QED BY <1>2, <1>4

\* The responder keeps seeing requests in the order they were started.
LEMMA OrderHere ==
  ASSUME TypeOK, RolesInv, AdapterInv, ChipInv, ResponderChipInv, RequestInv,
         ResponseInv, OrderInv, Assumptions, NEW n \in Node,
         Process(n) \/ AppDrain(n) \/ Tick(n) \/ Chip(n) \/ Restart(n)
  PROVE  OrderInv'
<1> USE FrameFacts, GiveUpFrame, 0 \in Nat, 1 \in Nat
    DEF TypeOK, OrderInv, NotBefore, I, R, Initiator, Responder, Node, vars,
        timerVars, queueVars, initiatorVars, responderVars, adapterVars,
        chipVars, ghostVars, boundVars
<1>1. CASE PollQuiet(n)
  BY <1>1 DEF PollQuiet, CallsProcess
<1>2. CASE PollIrq(n)
  BY <1>2 DEF PollIrq, CallsProcess, SetIrq, EnterError
<1>3. CASE PollFault(n)
  BY <1>3 DEF PollFault, CallsProcess, Fault, EnterError, SetIrq
<1>4. CASE HandleTxDone(n)
  BY <1>4 DEF HandleTxDone, Next1, Taken, SetState
<1>5. CASE HandleRxTimeout(n)
  BY <1>5 DEF HandleRxTimeout, Next1, Taken
<1>6. CASE HandleCrcError(n)
  BY <1>6 DEF HandleCrcError, Next1, Taken
<1>7. CASE HandleDeviceError(n)
  BY <1>7
  DEF HandleDeviceError, Next1, Recovered, RecoverFails, SetIrq, SetMode,
      LeftIn, SetState, Publish
<1>8. CASE RejectRequest(n)
  BY <1>8 DEF RejectRequest, Next1, Taken, TakeFrame, SetState, Publish
<1>9. CASE SuppressDuplicate(n)
  BY <1>9 DEF SuppressDuplicate, Next1, Taken, TakeFrame, SetState, Publish
<1>10. CASE AcceptRequest(n)
  <2> DEFINE f == rxFrame[R]
  <2>1. /\ n = R /\ TakeFrame(n) /\ last' = f /\ f.type \in RequestType
        /\ ~IsDuplicate(f)
        /\ UNCHANGED exchange
        /\ received' \in {received, [received EXCEPT ![f.xid] = @ + 1]}
    BY <1>10 DEF AcceptRequest
  <2>5. /\ f.xid \in 1..exchange /\ f.xid \in Exchanges
        /\ \A x \in Exchanges : received[x] > 0 => received[x] = 1 /\ x < f.xid
    BY <2>1, NewRequest
  <2>6. f.xid \in Exchanges /\ received[f.xid] = 0
    <3>1. received[f.xid] \in Nat /\ f.xid \in Nat
      BY <2>5 DEF Exchanges
    <3>2. ~(received[f.xid] > 0)
      BY <2>5, <3>1
    <3> QED BY <2>5, <3>1, <3>2
  <2>7. \A x \in Exchanges : received'[x] > 0 => received'[x] = 1 /\ x <= f.xid
    <3>1. CASE UNCHANGED received
      BY <2>5, <3>1 DEF Exchanges
    <3>2. CASE received' = [received EXCEPT ![f.xid] = @ + 1]
      <4>1. received'[f.xid] = 1 /\ \A x \in Exchanges \ {f.xid} : received'[x] = received[x]
        BY <2>6, <3>2
      <4> TAKE x \in Exchanges
      <4>2. CASE x = f.xid
        BY <4>1, <4>2 DEF Exchanges
      <4>3. CASE x # f.xid
        <5>1. received'[x] = received[x]
          BY <4>1, <4>3
        <5>2. received[x] > 0 => received[x] = 1 /\ x < f.xid
          BY <2>5
        <5>3. x \in Nat /\ f.xid \in Nat
          BY <2>5 DEF Exchanges
        <5> QED BY <5>1, <5>2, <5>3
      <4> QED BY <4>2, <4>3
    <3> QED BY <2>1, <3>1, <3>2
  <2>8. /\ rxFrame'[R] = NoFrame /\ UNCHANGED rxBuffer
    BY <2>1 DEF TakeFrame
  <2> QED BY <2>1, <2>7, <2>8 DEF NoFrame
<1>11. CASE RejectResponse(n)
  BY <1>11 DEF RejectResponse, Next1, Taken, TakeFrame
<1>12. CASE AcceptResponse(n)
  BY <1>12 DEF AcceptResponse, Next1, Taken, TakeFrame, SetState, Publish
<1>13. CASE ProcessTimeout(n)
  BY <1>13
  DEF ProcessTimeout, EventsDone, TimedOut, Recovered, SetIrq, SetMode
<1>14. CASE TimeoutRadioLost(n)
  BY <1>14
  DEF TimeoutRadioLost, EventsDone, TimedOut, RadioLost, RecoverFails, LeftIn,
      SetState, Publish
<1>15. CASE NoAction(n)
  BY <1>15 DEF NoAction, Acts, EventsDone
<1>16. CASE StartTx(n)
  BY <1>16 DEF StartTx, Acts, EventsDone, SetState, ToSend
<1>17. CASE StartRx(n)
  BY <1>17 DEF StartRx, Acts, EventsDone, SetState, SetIrq, SetMode
<1>18. CASE StartFails(n)
  BY <1>18
  DEF StartFails, Acts, EventsDone, EnterError, LeftIn, StartMode, SetIrq,
      ToSend
<1>19. CASE StartFailsExpired(n)
  BY <1>19
  DEF StartFailsExpired, Acts, EventsDone, Recovered, SetIrq, SetMode,
      SetState
<1>20. CASE StartRadioLost(n)
  BY <1>20
  DEF StartRadioLost, Acts, EventsDone, RadioLost, RecoverFails, LeftIn,
      StartMode, SetState, Publish, ToSend
<1>21. CASE AppDrain(n)
  BY <1>21 DEF AppDrain
<1>22. CASE Tick(n)
  BY <1>22 DEF Tick
<1>23. CASE TxEnd(n)
  <2>1. mode[n] = "TX" /\ txBuffer[n] # NoFrame
    BY <1>23 DEF TxEnd, ChipInv
  <2>2. txBuffer'[n] = NoFrame /\ \A m \in Node \ {n} : txBuffer'[m] = txBuffer[m]
    BY <1>23 DEF TxEnd
  <2>3. \A m \in Node : rxBuffer'[m] = rxBuffer[m] \/ (m # n /\ rxBuffer'[m] = txBuffer[n])
    BY <1>23 DEF TxEnd, Peer
  <2>4. n = I => txBuffer[n].xid = exchange
    BY <2>1 DEF RequestInv
  <2>5. /\ last.xid # 0 => last.xid \in 1..exchange
        /\ rxFrame[R].xid # 0 => rxFrame[R].xid \in 1..exchange
    BY DEF ResponseInv, IsRequest, InWindow
  <2>6. exchange \in Nat
    OBVIOUS
  <2>7. rxBuffer'[R] = rxBuffer[R] \/ rxBuffer'[R].xid = exchange
    BY <2>3, <2>4
  <2> QED BY <1>23, <2>5, <2>6, <2>7 DEF TxEnd
<1>24. CASE ChipTimeout(n)
  BY <1>24 DEF ChipTimeout, SetMode
<1>25. CASE ReceiveJunk(n)
  BY <1>25 DEF ReceiveJunk, Listening, AfterRx
<1>26. CASE Restart(n)
  BY <1>26 DEF Restart, Recovered, SetState, SetIrq, SetMode, FirstState
<1> QED
  BY <1>1, <1>2, <1>3, <1>4, <1>5, <1>6, <1>7, <1>8, <1>9, <1>10, <1>11,
     <1>12, <1>13, <1>14, <1>15, <1>16, <1>17, <1>18, <1>19, <1>20, <1>21,
     <1>22, <1>23, <1>24, <1>25, <1>26
  DEF Process, Chip

\* Successes stay true.
LEMMA OutcomeHere ==
  ASSUME TypeOK, RolesInv, AdapterInv, RequestInv, ResponseInv, OutcomeInv,
         Assumptions, NEW n \in Node,
         Process(n) \/ AppDrain(n) \/ Tick(n) \/ Chip(n) \/ Restart(n)
  PROVE  OutcomeInv'
<1> USE FrameFacts, GiveUpFrame, 0 \in Nat, 1 \in Nat
    DEF TypeOK, OutcomeInv, SuccessImpliesAccepted, I, R, Initiator,
        Responder, Node, vars, timerVars, queueVars, initiatorVars,
        responderVars, adapterVars, chipVars, ghostVars, boundVars
<1>1. CASE PollQuiet(n)
  BY <1>1 DEF PollQuiet, CallsProcess
<1>2. CASE PollIrq(n)
  BY <1>2 DEF PollIrq, CallsProcess, SetIrq, EnterError
<1>3. CASE PollFault(n)
  BY <1>3 DEF PollFault, CallsProcess, Fault, EnterError, SetIrq
<1>4. CASE HandleTxDone(n)
  BY <1>4 DEF HandleTxDone, Next1, Taken, SetState
<1>5. CASE HandleRxTimeout(n)
  BY <1>5 DEF HandleRxTimeout, Next1, Taken
<1>6. CASE HandleCrcError(n)
  BY <1>6 DEF HandleCrcError, Next1, Taken
<1>7. CASE HandleDeviceError(n)
  BY <1>7, SMTT(20)
  DEF HandleDeviceError, Next1, Recovered, RecoverFails, SetIrq, SetMode,
      LeftIn, SetState, Publish
<1>8. CASE RejectRequest(n)
  BY <1>8 DEF RejectRequest, Next1, Taken, TakeFrame, SetState, Publish
<1>9. CASE SuppressDuplicate(n)
  BY <1>9 DEF SuppressDuplicate, Next1, Taken, TakeFrame, SetState, Publish
<1>10. CASE AcceptRequest(n)
  <2>1. /\ rxFrame[R].type \in RequestType
        /\ UNCHANGED <<exchange, outcome>>
        /\ accepted' \in {accepted, accepted \union {rxFrame[R].xid}}
    BY <1>10 DEF AcceptRequest
  <2>2. rxFrame[R].xid \in 1..exchange
    BY <2>1 DEF ResponseInv, IsRequest, InWindow
  <2> QED BY <2>1, <2>2
<1>11. CASE RejectResponse(n)
  BY <1>11 DEF RejectResponse, Next1, Taken, TakeFrame
<1>12. CASE AcceptResponse(n)
  <2> DEFINE f == rxFrame[I]
  <2>1. /\ Answers(f) /\ active
        /\ outcome' = [outcome EXCEPT ![pending.xid] = "succeeded"]
        /\ UNCHANGED <<exchange, accepted>>
    BY <1>12 DEF AcceptResponse
  <2>2. pending # NoFrame /\ IsRequest(pending, exchange)
    BY <2>1 DEF RequestInv
  <2>3. f.type \in ResponseType /\ f.seq = pending.seq
    BY <2>1 DEF Answers, ExpectedResponse, ResponseType
  <2>4. IsResponse(f, exchange, accepted)
    BY <2>3 DEF RequestInv
  <2>5. f.xid = pending.xid
    BY <2>2, <2>3, <2>4, SameExchange DEF IsRequest, IsResponse
  <2>6. pending.xid \in accepted
    BY <2>4, <2>5
  <2> QED BY <2>1, <2>6
<1>13. CASE ProcessTimeout(n)
  BY <1>13
  DEF ProcessTimeout, EventsDone, TimedOut, Recovered, SetIrq, SetMode
<1>14. CASE TimeoutRadioLost(n)
  BY <1>14
  DEF TimeoutRadioLost, EventsDone, TimedOut, RadioLost, RecoverFails, LeftIn,
      SetState, Publish
<1>15. CASE NoAction(n)
  BY <1>15 DEF NoAction, Acts, EventsDone
<1>16. CASE StartTx(n)
  BY <1>16 DEF StartTx, Acts, EventsDone, SetState, ToSend
<1>17. CASE StartRx(n)
  BY <1>17 DEF StartRx, Acts, EventsDone, SetState, SetIrq, SetMode
<1>18. CASE StartFails(n)
  BY <1>18
  DEF StartFails, Acts, EventsDone, EnterError, LeftIn, StartMode, SetIrq,
      ToSend
<1>19. CASE StartFailsExpired(n)
  BY <1>19
  DEF StartFailsExpired, Acts, EventsDone, Recovered, SetIrq, SetMode,
      SetState
<1>20. CASE StartRadioLost(n)
  BY <1>20
  DEF StartRadioLost, Acts, EventsDone, RadioLost, RecoverFails, LeftIn,
      StartMode, SetState, Publish, ToSend
<1>21. CASE AppDrain(n)
  BY <1>21 DEF AppDrain
<1>22. CASE Tick(n)
  BY <1>22 DEF Tick
<1>23. CASE TxEnd(n)
  BY <1>23 DEF TxEnd, Peer, Listening, AfterRx
<1>24. CASE ChipTimeout(n)
  BY <1>24 DEF ChipTimeout, SetMode
<1>25. CASE ReceiveJunk(n)
  BY <1>25 DEF ReceiveJunk, Listening, AfterRx
<1>26. CASE Restart(n)
  BY <1>26 DEF Restart, Recovered, SetState, SetIrq, SetMode, FirstState
<1> QED
  BY <1>1, <1>2, <1>3, <1>4, <1>5, <1>6, <1>7, <1>8, <1>9, <1>10, <1>11,
     <1>12, <1>13, <1>14, <1>15, <1>16, <1>17, <1>18, <1>19, <1>20, <1>21,
     <1>22, <1>23, <1>24, <1>25, <1>26
  DEF Process, Chip

-----------------------------------------------------------------------------
(* The application.                                                        *)

\* What StartRequest finds and what it changes.
LEMMA RequestFacts ==
  ASSUME TypeOK, AdapterInv, NEW t \in MessageTypes, StartRequest(t)
  PROVE  /\ exchange' = exchange + 1 /\ exchange \in Nat /\ exchange < MaxExchanges
         /\ state[I] = "IDLE" /\ ~active /\ active' /\ retries' = 0 /\ attempts' = 0
         /\ state' = [state EXCEPT ![I] = "START_REQUEST_TX"]
         /\ pc[I] = "app" /\ Quiet(I) /\ NoFullCycle
         /\ pending' = Request(t, nextSeq, exchange + 1)
         /\ nextSeq' = (nextSeq + 1) % SeqModulus
         /\ UNCHANGED <<pc, queueVars, responderVars, adapterVars, chipVars,
                        received, accepted, outcome, boundVars>>
<1>1. /\ exchange' = exchange + 1 /\ exchange < MaxExchanges
      /\ state[I] = "IDLE" /\ ~active /\ active' /\ retries' = 0 /\ attempts' = 0
      /\ state' = [state EXCEPT ![I] = "START_REQUEST_TX"]
      /\ pc[I] = "app" /\ NoFullCycle
      /\ pending' = Request(t, nextSeq, exchange + 1)
      /\ nextSeq' = (nextSeq + 1) % SeqModulus
      /\ UNCHANGED <<pc, queueVars, responderVars, adapterVars, chipVars,
                     received, accepted, outcome, boundVars>>
  BY DEF StartRequest, SetState, I
<1>2. Quiet(I)
  BY <1>1 DEF AdapterInv, AdapterAt, Failed, Reported, StartStates, Node, I
<1> QED BY <1>1, <1>2 DEF TypeOK

\* Under NoFullCycle, starting an exchange keeps every frame in its window.
LEMMA WindowGrows ==
  ASSUME NEW f, exchange \in Nat,
         f.xid # 0 => exchange + 1 - f.xid < SeqModulus
  PROVE  /\ IsRequest(f, exchange) => IsRequest(f, exchange + 1)
         /\ \A acc : IsResponse(f, exchange, acc) => IsResponse(f, exchange + 1, acc)
BY DEF IsRequest, IsResponse, InWindow

\* Consecutive exchanges have consecutive sequence numbers.
LEMMA SeqOfNext ==
  ASSUME NEW x \in Nat
  PROVE  SeqOf(x + 1) = (SeqOf(x) + 1) % SeqModulus
<1> DEFINE a == InitialSequence + x - 1
<1>1. a \in Int /\ SeqModulus \in Nat \ {0} /\ InitialSequence + (x + 1) - 1 = a + 1
  BY SequenceAssumption
<1>2. (a + 1) % SeqModulus = ((a % SeqModulus) + 1) % SeqModulus
  BY <1>1, ModSucc
<1> QED BY <1>1, <1>2 DEF SeqOf

\* Starting a request preserves the invariant.
LEMMA StartRequestStep ==
  ASSUME Assumptions, IInv, NEW t \in MessageTypes, StartRequest(t)
  PROVE  IInv'
<1>0. TypeOK'
  BY TypeRequestStep DEF IInv
<1> USE RequestFacts DEF IInv, adapterVars, chipVars, queueVars, responderVars
<1>1. RolesInv'
  BY DEF RolesInv, TypeOK, InitiatorStates, I, R, Initiator, Responder, Node
<1>2. AdapterInv'
  <2>1. AdapterAt(I)'
    BY DEF TypeOK, AdapterAt, Quiet, WaitingFor, I, R, Initiator, Responder,
           Node
  <2>2. AdapterAt(R)'
    BY DEF TypeOK, AdapterInv, AdapterAt, Quiet, Failed, Reported, WaitingFor,
           I, R, Initiator, Responder, Node
  <2> QED BY <2>1, <2>2 DEF AdapterInv, I, R, Node
<1>3. EventsInv'
  BY DEF EventsInv, MostEvents, TypeOK, Quiet, I, R, Initiator, Responder,
         Node
<1>4. ChipInv' /\ InitiatorChipInv' /\ ResponderChipInv'
  BY DEF ChipInv, InitiatorChipInv, ResponderChipInv
<1>5. /\ rxBuffer[I] = NoFrame /\ rxFrame[I] = NoFrame /\ txBuffer[I] = NoFrame
  BY DEF Quiet, WaitingFor, InitiatorChipInv, ChipInv, Node, I
<1>6. RequestInv'
  <2>1. nextSeq = SeqOf(exchange + 1) /\ exchange + 1 \in Nat
    BY DEF RequestInv
  <2>2. nextSeq' = SeqOf(exchange' + 1)
    BY <2>1, SeqOfNext
  <2>3. pending' \in Requests
    <3>1. pending' \in Requests \union {NoFrame}
      BY ONLY <1>0 DEF TypeOK
    <3>2. pending' = Request(t, nextSeq, exchange + 1) /\ exchange + 1 # 0
      BY <2>1
    <3>3. pending'.xid # NoFrame.xid
      BY ONLY <2>1, <3>2 DEF Request, NoFrame
    <3> QED BY ONLY <3>1, <3>3
  <2>4. pending'.xid = exchange' /\ pending'.seq = SeqOf(exchange')
    BY <2>1 DEF Request
  <2>5. IsRequest(pending', exchange')
    BY <2>1, <2>3, <2>4, SequenceAssumption DEF IsRequest, InWindow
  <2>6. pending' # NoFrame /\ exchange' # 0
    BY <2>4 DEF NoFrame
  <2> QED
    BY <1>5, <2>2, <2>4, <2>5, <2>6 DEF RequestInv, NoPeer
<1>7. ResponseInv'
  <2>1. \A f \in HeldByResponder : f.xid # 0 => exchange + 1 - f.xid < SeqModulus
    BY DEF NoFullCycle
  <2>2. /\ IsRequest(last, exchange) => IsRequest(last, exchange')
        /\ IsRequest(rxFrame[R], exchange) => IsRequest(rxFrame[R], exchange')
        /\ IsRequest(rxBuffer[R], exchange) => IsRequest(rxBuffer[R], exchange')
        /\ IsResponse(cached, exchange, accepted) => IsResponse(cached, exchange', accepted)
    BY <2>1, WindowGrows DEF HeldByResponder, R
  <2> QED
    BY <2>2 DEF ResponseInv, TypeOK, I, R, Initiator, Responder, Node
<1>8. OrderInv'
  BY DEF OrderInv, NotBefore
<1>9. OutcomeInv'
  <2>1. 1..exchange \subseteq 1..(exchange + 1)
    OBVIOUS
  <2> QED BY <2>1 DEF OutcomeInv, SuccessImpliesAccepted
<1>10. AttemptsInv'
  <2>1. retries' = 0 /\ attempts' = 0 /\ state'[I] = "START_REQUEST_TX"
    BY DEF TypeOK, I, Node
  <2> QED BY ONLY <2>1 DEF AttemptsInv
<1> QED
  BY <1>0, <1>1, <1>2, <1>3, <1>4, <1>6, <1>7, <1>8, <1>9, <1>10 DEF IInv

-----------------------------------------------------------------------------
(* The initiator's attempts.                                               *)

\* The ways a step may change where the initiator is in its exchange.
Keeps(s) == UNCHANGED <<active, retries, attempts>> /\ state'[I] = s

Sends ==
  /\ state[I] = "START_REQUEST_TX" /\ state'[I] = "WAIT_REQUEST_TX_DONE"
  /\ attempts' = (attempts + 1) % CountModulus
  /\ UNCHANGED <<active, retries>>

Retries ==
  /\ active /\ retries < MaxRetries /\ retries' = retries + 1
  /\ state'[I] = "START_REQUEST_TX"
  /\ UNCHANGED <<active, attempts>>

Ends == ~active' /\ state'[I] = "IDLE" /\ UNCHANGED <<retries, attempts>>

Resets == ~active' /\ state'[I] = "IDLE" /\ retries' = 0 /\ attempts' = 0

Moves ==
  \/ Keeps(state[I]) \/ Keeps("ERROR")
  \/ state[I] = "WAIT_REQUEST_TX_DONE" /\ Keeps("START_RESPONSE_RX")
  \/ state[I] = "START_RESPONSE_RX" /\ Keeps("WAIT_RESPONSE")
  \/ Sends \/ Retries \/ Ends \/ Resets

\* Giving up an attempt is a retry or the end of the exchange.
LEMMA RetryMoves ==
  ASSUME TypeOK, NEW k \in Nat, RetryOrFail(k)
  PROVE  Retries \/ Ends
<1>1. CASE active /\ retries < MaxRetries
  <2>1. ~(retries >= MaxRetries)
    BY <1>1, CountAssumption DEF TypeOK
  <2> QED
    BY <1>1, <2>1
    DEF TypeOK, RetryOrFail, SetState, Retries, I, Initiator, Responder, Node
<1>2. CASE ~(active /\ retries < MaxRetries)
  BY <1>2, CountAssumption
  DEF TypeOK, RetryOrFail, SetState, Ends, I, Initiator, Responder, Node
<1> QED BY <1>1, <1>2

LEMMA GiveUpMoves ==
  ASSUME TypeOK, NEW n \in Node, NEW k \in Nat, GiveUp(n, k)
  PROVE  Moves
<1>1. CASE n = I
  BY <1>1, RetryMoves DEF GiveUp, I, Initiator, Responder, Moves
<1>2. CASE n = R
  BY <1>2
  DEF TypeOK, GiveUp, SetState, Moves, Keeps, initiatorVars, I, R, Initiator,
      Responder, Node
<1> QED BY <1>1, <1>2 DEF Node, I, R

\* A step that touches neither.
LEMMA RestMoves ==
  ASSUME UNCHANGED <<active, retries, attempts, state>>
  PROVE  Moves
BY DEF Moves, Keeps

\* Every step of a node makes one of these moves.
LEMMA NodeMoves ==
  ASSUME TypeOK, RolesInv, NEW n \in Node,
         Process(n) \/ AppDrain(n) \/ Tick(n) \/ Chip(n) \/ Restart(n)
  PROVE  Moves
<1> USE 0 \in Nat, 1 \in Nat
    DEF timerVars, initiatorVars
<1>a. CASE \/ PollQuiet(n) \/ PollIrq(n) \/ PollFault(n) \/ NoAction(n)
           \/ StartFails(n) \/ AppDrain(n) \/ Tick(n) \/ Chip(n)
  BY <1>a, RestMoves
  DEF PollQuiet, PollIrq, PollFault, NoAction, StartFails, AppDrain, Tick, Chip,
      TxEnd, ChipTimeout, ReceiveJunk
<1>b. ASSUME NEW s \in ServiceStates, SetState(n, s),
             UNCHANGED <<active, retries, attempts>>,
             \/ n = R \/ s = "ERROR" \/ s = state[I]
             \/ state[I] = "WAIT_REQUEST_TX_DONE" /\ s = "START_RESPONSE_RX"
             \/ state[I] = "START_RESPONSE_RX" /\ s = "WAIT_RESPONSE"
      PROVE  Moves
  BY <1>b DEF TypeOK, SetState, Moves, Keeps, I, R, Initiator, Responder, Node
<1> USE DEF ServiceStates, TimedStates, StartStates
<1>1. CASE HandleTxDone(n)
  BY <1>1, <1>b, RestMoves
  DEF HandleTxDone, RolesInv, InitiatorStates, I, R, Node
<1>2. CASE HandleRxTimeout(n)
  BY <1>2, GiveUpMoves, RestMoves DEF HandleRxTimeout
<1>3. CASE HandleCrcError(n)
  BY <1>3, GiveUpMoves, RestMoves DEF HandleCrcError
<1>4. CASE HandleDeviceError(n)
  BY <1>4, <1>b, GiveUpMoves DEF HandleDeviceError
<1>5. CASE RejectRequest(n) \/ SuppressDuplicate(n) \/ AcceptRequest(n)
  BY <1>5, <1>b DEF RejectRequest, SuppressDuplicate, AcceptRequest, R
<1>6. CASE RejectResponse(n)
  BY <1>6, RetryMoves DEF RejectResponse, Moves
<1>7. CASE AcceptResponse(n)
  BY <1>7
  DEF TypeOK, AcceptResponse, SetState, Moves, Ends, I, Initiator, Responder, Node
<1>8. CASE ProcessTimeout(n)
  BY <1>8, GiveUpMoves DEF ProcessTimeout
<1>9. CASE TimeoutRadioLost(n) \/ StartRadioLost(n)
  BY <1>9, <1>b DEF TimeoutRadioLost, StartRadioLost, RadioLost
<1>10. CASE StartTx(n)
  <2>1. CASE n = I
    BY <1>10, <2>1
    DEF TypeOK, RolesInv, InitiatorStates, StartTx, Acts, SetState, Moves, Sends,
        I, Initiator, Responder, Node
  <2>2. CASE n = R
    BY <1>10, <1>b, <2>2 DEF StartTx, I, R, Initiator, Responder
  <2> QED BY <2>1, <2>2 DEF Node, I, R
<1>11. CASE StartRx(n)
  BY <1>11, <1>b
  DEF StartRx, Acts, RolesInv, InitiatorStates, ResponderStates, I, R, Node
<1>12. CASE StartFailsExpired(n)
  <2>1. CASE state[n] = "START_RESPONSE_RX"
    BY <1>12, <2>1, RetryMoves DEF StartFailsExpired, Moves
  <2>2. CASE state[n] # "START_RESPONSE_RX"
    BY <1>12, <1>b, <2>2 DEF StartFailsExpired, TypeOK, I, R, Node
  <2> QED BY <2>1, <2>2
<1>13. CASE Restart(n)
  BY <1>13
  DEF TypeOK, Restart, SetState, FirstState, Moves, Keeps, Resets, I, Initiator,
      Responder, Node
<1> QED
  BY <1>a, <1>1, <1>2, <1>3, <1>4, <1>5, <1>6, <1>7, <1>8, <1>9, <1>10, <1>11,
     <1>12, <1>13
  DEF Process

LEMMA AttemptsHere ==
  ASSUME TypeOK, AttemptsInv, Moves
  PROVE  AttemptsInv'
<1> SUFFICES ASSUME MaxRetries + 1 < CountModulus
             PROVE  /\ attempts' <= retries' + 1
                    /\ state'[I] = "START_REQUEST_TX" => attempts' <= retries'
                    /\ state'[I] \in {"WAIT_REQUEST_TX_DONE", "START_RESPONSE_RX",
                                      "WAIT_RESPONSE"} => attempts' >= 1
  BY DEF AttemptsInv
<1>1. /\ attempts \in Nat /\ retries \in Nat /\ retries <= MaxRetries
      /\ MaxRetries \in Nat /\ CountModulus \in Nat
  BY CountAssumption DEF TypeOK
<1>2. CASE Sends
  <2>1. attempts <= retries /\ attempts + 1 \in 0..(CountModulus - 1)
    BY <1>1, <1>2 DEF AttemptsInv, Sends
  <2>2. attempts' = attempts + 1
    BY <1>1, <1>2, <2>1, ModSmall DEF Sends
  <2> QED BY <1>1, <1>2, <2>1, <2>2 DEF Sends
<1>3. CASE ~Sends
  BY <1>1, <1>3 DEF AttemptsInv, Moves, Keeps, Retries, Ends, Resets
<1> QED BY <1>2, <1>3

-----------------------------------------------------------------------------
(* The invariant and what follows from it.                                 *)

\* A step of a node preserves the invariant.
LEMMA NodeStep ==
  ASSUME Assumptions, IInv, NEW n \in Node,
         Process(n) \/ AppDrain(n) \/ Tick(n) \/ Chip(n) \/ Restart(n)
  PROVE  IInv'
<1> USE DEF IInv
<1>1. TypeOK'
  BY TypeNodeStep
<1>2. RolesInv'
  BY RolesHere
<1>3. \A m \in Node \ {n} : Untouched(m)
  BY Locality
<1>a. AttemptsInv'
  BY NodeMoves, AttemptsHere
<1>4. AdapterInv'
  <2>1. AdapterAt(n)'
    BY AdapterHere DEF AdapterInv
  <2>2. \A m \in Node \ {n} : AdapterAt(m)'
    BY <1>3
    DEF AdapterInv, AdapterAt, Quiet, Failed, Reported, Untouched, WaitingFor
  <2> QED BY <2>1, <2>2 DEF AdapterInv
<1>5. EventsInv'
  <2>1. eventCount'[n] <= MostEvents(n)' /\ ~dropped'
    BY EventsHere
  <2>2. \A m \in Node \ {n} : eventCount'[m] <= MostEvents(m)'
    BY <1>3 DEF EventsInv, MostEvents, Untouched
  <2> QED BY <2>1, <2>2 DEF EventsInv
<1>6. ChipInv' /\ InitiatorChipInv' /\ ResponderChipInv'
  BY ChipHere, InitiatorChipHere, ResponderChipHere
<1>7. RequestInv' /\ ResponseInv' /\ OrderInv' /\ OutcomeInv'
  BY RequestHere, ResponseHere, OrderHere, OutcomeHere
<1> QED BY <1>1, <1>2, <1>a, <1>4, <1>5, <1>6, <1>7

\* The invariant holds initially ...
LEMMA IInvInit ==
  ASSUME Assumptions, Init
  PROVE  IInv
<1>1. TypeOK
  BY TypeInit
<1>2. RolesInv /\ EventsInv
  BY DEF Init, RolesInv, EventsInv, MostEvents, FirstState, InitiatorStates,
         ResponderStates, I, R, Initiator, Responder, Node
<1>a. AttemptsInv
  BY DEF Init, AttemptsInv, FirstState, I, Initiator, Node
<1>3. AdapterInv
  BY DEF Init, AdapterInv, AdapterAt, Quiet, WaitingFor, FirstState, Node,
         Initiator, Responder
<1>4. ChipInv /\ InitiatorChipInv /\ ResponderChipInv
  BY DEF Init, ChipInv, InitiatorChipInv, ResponderChipInv, I, R, Initiator,
         Responder, Node
<1>5. RequestInv
  <2>1. SeqOf(0 + 1) = InitialSequence
    BY SequenceAssumption DEF SeqOf
  <2> QED
    BY <2>1, SequenceAssumption
    DEF Init, RequestInv, NoPeer, I, Initiator, Node
<1>6. ResponseInv /\ OrderInv /\ OutcomeInv
  BY DEF Init, ResponseInv, OrderInv, NotBefore, OutcomeInv,
         SuccessImpliesAccepted, NoPeer, FirstState, NoFrame, I, R, Initiator,
         Responder, Node
<1> QED BY <1>1, <1>2, <1>a, <1>3, <1>4, <1>5, <1>6 DEF IInv

\* ... and every step preserves it.
LEMMA IInvStep ==
  ASSUME Assumptions, IInv, [Next]_vars
  PROVE  IInv'
<1>1. CASE UNCHANGED vars
  <2> USE <1>1 DEF vars, timerVars, queueVars, initiatorVars, responderVars,
                   adapterVars, chipVars, ghostVars, boundVars
  <2>1. TypeOK'
    BY DEF IInv, TypeOK
  <2>2. RolesInv' /\ EventsInv' /\ AttemptsInv'
    BY DEF IInv, RolesInv, EventsInv, MostEvents, AttemptsInv
  <2>3. AdapterInv'
    BY DEF IInv, AdapterInv, AdapterAt, Quiet, Failed, Reported, WaitingFor
  <2>4. ChipInv' /\ InitiatorChipInv' /\ ResponderChipInv'
    BY DEF IInv, ChipInv, InitiatorChipInv, ResponderChipInv
  <2>5. RequestInv'
    BY DEF IInv, RequestInv
  <2>6. ResponseInv'
    BY DEF IInv, ResponseInv
  <2>7. OrderInv'
    BY DEF IInv, OrderInv, NotBefore
  <2>8. OutcomeInv'
    BY DEF IInv, OutcomeInv, SuccessImpliesAccepted
  <2> QED
    BY <2>1, <2>2, <2>3, <2>4, <2>5, <2>6, <2>7, <2>8 DEF IInv
<1>2. CASE Next
  BY <1>2, NodeStep, StartRequestStep DEF Next
<1> QED BY <1>1, <1>2

\* The inductive invariant: provided only the responder loses power and the
\* event queue holds two events.
THEOREM Invariance ==
  ASSUME Assumptions
  PROVE  Spec => []IInv
<1>1. Init => IInv
  BY IInvInit
<1>2. IInv /\ [Next]_vars => IInv'
  BY IInvStep
<1> QED BY <1>1, <1>2, PTL DEF Spec

\* An exchange the initiator is told succeeded is one whose request the
\* responder's application was handed, over any loss, damage, delay, duplication
\* by retries, radio fault or responder restart, and any wrap of the sequence
\* number.
THEOREM SuccessIsTrue ==
  ASSUME Assumptions
  PROVE  Spec => []SuccessImpliesAccepted
<1>1. IInv => SuccessImpliesAccepted
  BY DEF IInv, OutcomeInv
<1> QED BY <1>1, Invariance, PTL

\* The responder's application is handed a request at most once between two of
\* its restarts.
THEOREM AtMostOnce ==
  ASSUME Assumptions
  PROVE  Spec => []AtMostOncePerBoot
<1>1. IInv => AtMostOncePerBoot
  <2> SUFFICES ASSUME IInv, NEW x \in Exchanges PROVE received[x] <= 1
    BY DEF AtMostOncePerBoot
  <2>1. received[x] \in Nat /\ (received[x] > 0 => received[x] = 1)
    BY DEF IInv, TypeOK, OrderInv
  <2> QED BY <2>1
<1> QED BY <1>1, Invariance, PTL

\* Two slots suffice for the service's event queue: no event is lost.
THEOREM EventQueueSuffices ==
  ASSUME Assumptions
  PROVE  Spec => []NoEventDropped
<1>1. IInv => NoEventDropped
  BY DEF IInv, EventsInv, NoEventDropped
<1> QED BY <1>1, Invariance, PTL

\* Service and adapter agree between two polls; the handlers never meet an event
\* the service did not ask for.
THEOREM ServiceAndAdapterAgree ==
  ASSUME Assumptions
  PROVE  Spec => [](AdapterAgrees /\ EventExpected /\ ResponderHears)
<1>1. IInv => AdapterAgrees
  <2> SUFFICES ASSUME IInv, NEW n \in Node
               PROVE  /\ pc[n] = "app" => radio[n] \in WaitingFor(n)
                      /\ radio[n] = "ERROR" => radioEvents[n] = <<"DEVICE_ERROR">>
    BY DEF AdapterAgrees
  <2>1. AdapterAt(n) /\ state[n] \in ServiceStates
    BY DEF IInv, AdapterInv, TypeOK
  <2> QED
    BY <2>1 DEF AdapterAt, Quiet, Failed, Reported, WaitingFor, StartStates
<1>2. IInv => EventExpected
  <2> SUFFICES ASSUME IInv, NEW n \in Node, radioEvents[n] # <<>>
               PROVE  LET e == Head(radioEvents[n]) IN
                      /\ e = "TX_DONE" =>
                           state[n] \in {"WAIT_REQUEST_TX_DONE", "WAIT_RESPONSE_TX_DONE"}
                      /\ e \in {"RX_DONE", "CRC_ERROR", "RX_TIMEOUT"} =>
                           state[n] \in {"WAIT_RESPONSE", "RESPONDER_RX"}
                      /\ e = "RX_DONE" => rxFrame[n] # NoFrame
                      /\ state[n] = "WAIT_RESPONSE" => active
    BY DEF EventExpected
  <2>1. AdapterAt(n)
    BY DEF IInv, AdapterInv
  <2>2. state[n] = "WAIT_RESPONSE" => active
    BY DEF IInv, RolesInv, ResponderStates, I, R, Node
  <2>3. CASE radioEvents[n] = <<"DEVICE_ERROR">>
    BY <2>2, <2>3, OneEvent
  <2>4. CASE \E e \in RadioEvents \ {"DEVICE_ERROR"} : Reported(n, e)
    <3>1. PICK e \in RadioEvents \ {"DEVICE_ERROR"} : Reported(n, e)
      BY <2>4
    <3>2. Head(radioEvents[n]) = e
      BY <3>1, OneEvent DEF Reported
    <3> QED BY <2>2, <3>1, <3>2 DEF Reported, AskedFor
  <2> QED BY <2>1, <2>3, <2>4 DEF AdapterAt, Quiet, Failed
<1>3. IInv => ResponderHears
  BY DEF IInv, ResponderChipInv, ResponderHears, R
<1> QED BY <1>1, <1>2, <1>3, Invariance, PTL

\* A request suppressed as a duplicate is one the responder has been handed.
THEOREM SuppressionIsSound ==
  ASSUME Assumptions
  PROVE  Spec => OnlyDuplicatesSuppressed
<1>1. IInv /\ [Next]_vars =>
        [SuppressDuplicate(Responder) => rxFrame[Responder].xid \in accepted]_vars
  <2> SUFFICES ASSUME IInv, SuppressDuplicate(Responder)
               PROVE  rxFrame[Responder].xid \in accepted
    OBVIOUS
  <2> DEFINE f == rxFrame[Responder]
  <2>1. f.type \in RequestType /\ last # NoFrame /\ f.seq = last.seq
    BY DEF SuppressDuplicate, IsDuplicate
  <2>2. IsRequest(f, exchange)
    BY <2>1, FrameFacts DEF IInv, ResponseInv, R
  <2>3. /\ IsRequest(last, exchange) /\ cached.xid = last.xid
        /\ IsResponse(cached, exchange, accepted)
    BY <2>1 DEF IInv, ResponseInv
  <2>4. exchange \in Nat
    BY DEF IInv, TypeOK
  <2>5. f.xid = last.xid
    BY <2>1, <2>2, <2>3, <2>4, SameExchange DEF IsRequest
  <2> QED BY <2>3, <2>5 DEF IsResponse
<1> QED BY <1>1, Invariance, PTL DEF Spec, OnlyDuplicatesSuppressed

-----------------------------------------------------------------------------
(* The link implements Exchange.                                           *)

abstractVars == <<active, exchange, received, accepted, outcome>>

\* Giving up an attempt is, to the applications, a failed exchange or nothing.
LEMMA RetryOrFailImplements ==
  ASSUME IInv, NEW k \in Nat, RetryOrFail(k),
         UNCHANGED <<exchange, received, accepted>>
  PROVE  Abstract!Fail \/ UNCHANGED abstractVars
<1>1. CASE UNCHANGED <<active, outcome>>
  BY <1>1 DEF abstractVars
<1>2. CASE ~UNCHANGED <<active, outcome>>
  <2>1. active /\ active' = FALSE /\ outcome' = [outcome EXCEPT ![pending.xid] = "failed"]
    BY <1>2 DEF RetryOrFail
  <2>2. pending.xid = exchange
    BY <2>1 DEF IInv, RequestInv
  <2> QED BY <2>1, <2>2 DEF Abstract!Fail, Abstract!End
<1> QED BY <1>1, <1>2

\* The same for either node.
LEMMA GiveUpImplements ==
  ASSUME IInv, NEW n \in Node, NEW k \in Nat, GiveUp(n, k),
         UNCHANGED <<exchange, received, accepted>>
  PROVE  Abstract!Fail \/ UNCHANGED abstractVars
<1>1. CASE RetryOrFail(k)
  BY <1>1, RetryOrFailImplements
<1>2. CASE ~RetryOrFail(k)
  BY <1>2 DEF GiveUp, initiatorVars, abstractVars
<1> QED BY <1>1, <1>2

\* Every step of a node is a step of the exchange or a stutter.
LEMMA NodeStepImplements ==
  ASSUME Assumptions, IInv, NEW n \in Node,
         Process(n) \/ AppDrain(n) \/ Tick(n) \/ Chip(n) \/ Restart(n)
  PROVE  Abstract!Next \/ UNCHANGED abstractVars
<1> USE 0 \in Nat, 1 \in Nat
    DEF ghostVars, initiatorVars, abstractVars
<1>1. CASE PollQuiet(n) \/ PollIrq(n) \/ PollFault(n) \/ HandleTxDone(n)
  BY <1>1 DEF PollQuiet, PollIrq, PollFault, HandleTxDone
<1>2. CASE HandleRxTimeout(n)
  BY <1>2, GiveUpImplements DEF HandleRxTimeout, Abstract!Next
<1>3. CASE HandleCrcError(n)
  BY <1>3, GiveUpImplements DEF HandleCrcError, Abstract!Next
<1>4. CASE HandleDeviceError(n)
  BY <1>4, GiveUpImplements DEF HandleDeviceError, Abstract!Next
<1>5. CASE RejectRequest(n) \/ SuppressDuplicate(n)
  BY <1>5 DEF RejectRequest, SuppressDuplicate
<1>6. CASE AcceptRequest(n)
  <2> DEFINE f == rxFrame[R]
  <2>1. /\ f.type \in RequestType /\ ~IsDuplicate(f)
        /\ UNCHANGED <<active, exchange, outcome>>
        /\ \/ /\ received' = [received EXCEPT ![f.xid] = received[f.xid] + 1]
              /\ accepted' = accepted \union {f.xid}
           \/ UNCHANGED <<received, accepted>>
    BY <1>6 DEF AcceptRequest, R
  <2>2. /\ f.xid \in 1..exchange /\ f.xid \in Exchanges
        /\ \A x \in Exchanges : received[x] > 0 => received[x] = 1 /\ x < f.xid
    BY <2>1, NewRequest DEF IInv
  <2>3. received \in [Exchanges -> Nat] /\ exchange \in Nat /\ f.xid \in Nat
    BY <2>2 DEF IInv, TypeOK
  <2>4. f.xid <= exchange /\ \A y \in Exchanges : y >= f.xid => received[y] = 0
    BY <2>2, <2>3 DEF Exchanges
  <2>5. received[f.xid] + 1 = 1
    BY <2>2, <2>3, <2>4
  <2> HIDE DEF f
  <2>6. CASE accepted' = accepted \union {f.xid}
             /\ received' = [received EXCEPT ![f.xid] = received[f.xid] + 1]
    <3>1. Abstract!Deliver(f.xid)
      BY <2>1, <2>4, <2>5, <2>6
      DEF Abstract!Deliver, Abstract!Exchanges, Exchanges
    <3> QED BY <2>2, <3>1 DEF Abstract!Next, Abstract!Exchanges, Exchanges
  <2> QED BY <2>1, <2>6
<1>7. CASE RejectResponse(n)
  BY <1>7, RetryOrFailImplements DEF RejectResponse, Abstract!Next
<1>8. CASE AcceptResponse(n)
  <2> DEFINE f == rxFrame[I]
  <2>1. /\ Answers(f) /\ active /\ active' = FALSE
        /\ outcome' = [outcome EXCEPT ![pending.xid] = "succeeded"]
        /\ UNCHANGED <<exchange, received, accepted>>
    BY <1>8 DEF AcceptResponse, I
  <2>2. pending.xid = exchange /\ IsRequest(pending, exchange)
    BY <2>1 DEF IInv, RequestInv
  <2>3. f.type \in ResponseType /\ f.seq = pending.seq
    BY <2>1 DEF Answers, ExpectedResponse, ResponseType
  <2>4. IsResponse(f, exchange, accepted)
    BY <2>3, FrameFacts DEF IInv, RequestInv
  <2>5. exchange \in Nat
    BY DEF IInv, TypeOK
  <2>6. f.xid = exchange
    BY <2>2, <2>3, <2>4, <2>5, SameExchange DEF IsRequest, IsResponse
  <2>7. exchange \in accepted
    BY <2>4, <2>6 DEF IsResponse
  <2> QED
    BY <2>1, <2>2, <2>7
    DEF Abstract!Next, Abstract!Succeed, Abstract!End
<1>9. CASE ProcessTimeout(n)
  BY <1>9, GiveUpImplements DEF ProcessTimeout, Abstract!Next
<1>10. CASE TimeoutRadioLost(n) \/ StartRadioLost(n)
  BY <1>10 DEF TimeoutRadioLost, StartRadioLost, RadioLost
<1>11. CASE NoAction(n) \/ StartTx(n) \/ StartRx(n) \/ StartFails(n)
  BY <1>11 DEF NoAction, StartTx, StartRx, StartFails
<1>12. CASE StartFailsExpired(n)
  BY <1>12, RetryOrFailImplements DEF StartFailsExpired, Abstract!Next
<1>13. CASE AppDrain(n) \/ Tick(n) \/ Chip(n)
  BY <1>13 DEF AppDrain, Tick, Chip, TxEnd, ChipTimeout, ReceiveJunk
<1>14. CASE Restart(n)
  <2>1. n = Responder
    BY <1>14 DEF Restart, Assumptions
  <2> QED
    BY <1>14, <2>1
    DEF Restart, Initiator, Responder, Abstract!Next,
        Abstract!ResponderRestarts, Abstract!Exchanges, Exchanges
<1> QED
  BY <1>1, <1>2, <1>3, <1>4, <1>5, <1>6, <1>7, <1>8, <1>9, <1>10, <1>11,
     <1>12, <1>13, <1>14
  DEF Process

\* Every step of the two nodes, their chips and the channel is a step of the
\* exchange the applications rely on, or leaves it unchanged.
THEOREM LinkImplementsExchange ==
  ASSUME Assumptions
  PROVE  Spec => ImplementsExchange
<1>1. Init => Abstract!Init
  BY DEF Init, Abstract!Init, Abstract!Exchanges, Exchanges
<1>2. IInv /\ [Next]_vars => [Abstract!Next]_(Abstract!vars)
  <2> SUFFICES ASSUME IInv, [Next]_vars
               PROVE  Abstract!Next \/ UNCHANGED abstractVars
    BY DEF abstractVars, Abstract!vars
  <2>1. CASE UNCHANGED vars
    BY <2>1 DEF vars, ghostVars, initiatorVars, abstractVars
  <2>2. ASSUME NEW n \in Node,
               Process(n) \/ AppDrain(n) \/ Tick(n) \/ Chip(n) \/ Restart(n)
        PROVE  Abstract!Next \/ UNCHANGED abstractVars
    BY <2>2, NodeStepImplements
  <2>3. ASSUME NEW t \in MessageTypes, StartRequest(t)
        PROVE  Abstract!Next \/ UNCHANGED abstractVars
    BY <2>3 DEF StartRequest, Abstract!Next, Abstract!Start
  <2> QED BY <2>1, <2>2, <2>3 DEF Next
<1> QED
  BY <1>1, <1>2, Invariance, PTL DEF Spec, ImplementsExchange, Abstract!Spec

\* Every adapter event finds the service in the state that asked for it, and
\* RX_DONE finds a frame: the handlers' branches for anything else are never
\* taken.
THEOREM EventsAreExpected ==
  ASSUME Assumptions
  PROVE  Spec => []EventExpected
<1>1. IInv => EventExpected
  <2> SUFFICES ASSUME IInv, NEW n \in Node, radioEvents[n] # <<>>
               PROVE  /\ Head(radioEvents[n]) = "TX_DONE" =>
                           state[n] \in {"WAIT_REQUEST_TX_DONE", "WAIT_RESPONSE_TX_DONE"}
                      /\ Head(radioEvents[n]) \in {"RX_DONE", "CRC_ERROR", "RX_TIMEOUT"} =>
                           state[n] \in {"WAIT_RESPONSE", "RESPONDER_RX"}
                      /\ Head(radioEvents[n]) = "RX_DONE" => rxFrame[n] # NoFrame
                      /\ state[n] = "WAIT_RESPONSE" => active
    BY DEF EventExpected
  <2>1. AdapterAt(n)
    BY DEF IInv, AdapterInv
  <2>2. Failed(n) => Head(radioEvents[n]) = "DEVICE_ERROR"
    <3>1. Head(<<"DEVICE_ERROR">>) = "DEVICE_ERROR"
      OBVIOUS
    <3> QED BY <3>1 DEF Failed
  <2>3. ASSUME NEW e \in RadioEvents \ {"DEVICE_ERROR"}, Reported(n, e)
        PROVE  /\ e = "TX_DONE" =>
                    state[n] \in {"WAIT_REQUEST_TX_DONE", "WAIT_RESPONSE_TX_DONE"}
               /\ e \in {"RX_DONE", "CRC_ERROR", "RX_TIMEOUT"} =>
                    state[n] \in {"WAIT_RESPONSE", "RESPONDER_RX"}
               /\ e = "RX_DONE" => rxFrame[n] # NoFrame
               /\ Head(radioEvents[n]) = e
    BY <2>3 DEF Reported, AskedFor
  <2>4. state[n] = "WAIT_RESPONSE" => active
    BY DEF IInv, RolesInv, InitiatorStates, ResponderStates, Node, Initiator, Responder, I, R
  <2>5. CASE Failed(n)
    BY <2>2, <2>4, <2>5
  <2>6. CASE \E e \in RadioEvents \ {"DEVICE_ERROR"} : Reported(n, e)
    BY <2>3, <2>4, <2>6
  <2>7. ~Quiet(n)
    BY DEF Quiet
  <2> QED BY <2>1, <2>5, <2>6, <2>7 DEF AdapterAt
<1> QED BY <1>1, Invariance, PTL

\* A responder that waits for requests has a chip that receives.
THEOREM ResponderIsNotDeaf ==
  ASSUME Assumptions
  PROVE  Spec => []ResponderHears
<1>1. IInv => ResponderHears
  BY DEF IInv, ResponderChipInv, ResponderHears, R
<1> QED BY <1>1, Invariance, PTL

-----------------------------------------------------------------------------
(* The attempts of an exchange.                                            *)

\* What EXCHANGE_SUCCEEDED reports as attempts is the number of transmissions
\* it took: at least one, and no more than the retries configured allow.  (With
\* max_retries = 255 the 8-bit counter would wrap.)
AttemptsReported ==
  [][AcceptResponse(Initiator) => attempts \in 1..(MaxRetries + 1)]_vars

THEOREM ReportedAttempts ==
  ASSUME Assumptions, MaxRetries + 1 < CountModulus
  PROVE  Spec => AttemptsReported
<1>1. ASSUME IInv, AcceptResponse(Initiator) PROVE attempts \in 1..(MaxRetries + 1)
  <2>1. attempts >= 1 /\ attempts <= retries + 1
    BY <1>1 DEF AcceptResponse, IInv, AttemptsInv, I
  <2>2. attempts \in Nat /\ retries \in Nat /\ retries <= MaxRetries /\ MaxRetries \in Nat
    BY <1>1, CountAssumption DEF IInv, TypeOK
  <2> QED BY <2>1, <2>2
<1> QED BY <1>1, Invariance, PTL DEF Spec, AttemptsReported

\* How far the initiator is from the end of the exchange: the retries left,
\* then the steps left of this attempt.
StepsLeft ==
  5 * (MaxRetries - retries)
  + (IF state[I] = "START_REQUEST_TX" THEN 4
     ELSE IF state[I] = "WAIT_REQUEST_TX_DONE" THEN 3
     ELSE IF state[I] = "START_RESPONSE_RX" THEN 2
     ELSE IF state[I] = "WAIT_RESPONSE" THEN 1
     ELSE 0)

\* While an exchange is open the initiator only moves towards its end: whatever
\* the chips, the channel and the other node do, each change of its state or of
\* its retries leaves it strictly fewer steps, so an exchange makes no more than
\* 5 * MaxRetries + 4 of them.  What is left to fairness is that it moves at all.
ExchangeAdvances ==
  [][active /\ active' =>
       \/ StepsLeft' \in Nat /\ StepsLeft' < StepsLeft
       \/ state'[I] = state[I] /\ retries' = retries]_vars

THEOREM ExchangesAdvance ==
  ASSUME Assumptions
  PROVE  Spec => ExchangeAdvances
<1>1. ASSUME IInv, Next, active, active'
      PROVE  \/ StepsLeft' \in Nat /\ StepsLeft' < StepsLeft
             \/ state'[I] = state[I] /\ retries' = retries
  <2>1. ~\E t \in MessageTypes : StartRequest(t)
    BY <1>1 DEF StartRequest
  <2>2. Moves
    BY <1>1, <2>1, NodeMoves DEF Next, IInv
  <2>3. /\ retries \in Nat /\ retries <= MaxRetries /\ MaxRetries \in Nat
        /\ state[I] \in InitiatorStates \ {"IDLE"}
    BY <1>1, CountAssumption DEF IInv, TypeOK, RolesInv
  <2>4. CASE Retries
    BY <2>3, <2>4 DEF Retries, StepsLeft
  <2>5. CASE Sends
    BY <2>3, <2>5 DEF Sends, StepsLeft
  <2>6. CASE Keeps("ERROR")
    <3>1. CASE state[I] = "ERROR"
      BY <2>6, <3>1 DEF Keeps
    <3>2. CASE state[I] # "ERROR"
      <4>1. retries' = retries /\ state'[I] = "ERROR"
        BY <2>6 DEF Keeps
      <4>2. StepsLeft' = 5 * (MaxRetries - retries)
        BY <2>3, <4>1 DEF StepsLeft
      <4>3. StepsLeft > 5 * (MaxRetries - retries)
        BY <2>3, <3>2 DEF StepsLeft, InitiatorStates
      <4> QED BY <2>3, <4>2, <4>3
    <3> QED BY <3>1, <3>2
  <2>7. CASE \/ state[I] = "WAIT_REQUEST_TX_DONE" /\ Keeps("START_RESPONSE_RX")
             \/ state[I] = "START_RESPONSE_RX" /\ Keeps("WAIT_RESPONSE")
    BY <2>3, <2>7 DEF Keeps, StepsLeft
  <2>8. CASE Keeps(state[I])
    BY <2>8 DEF Keeps
  <2> QED BY <1>1, <2>2, <2>4, <2>5, <2>6, <2>7, <2>8 DEF Moves, Ends, Resets
<1>2. IInv /\ [Next]_vars =>
        [active /\ active' => \/ StepsLeft' \in Nat /\ StepsLeft' < StepsLeft
                              \/ state'[I] = state[I] /\ retries' = retries]_vars
  BY <1>1
<1> QED BY <1>2, Invariance, PTL DEF Spec, ExchangeAdvances

-----------------------------------------------------------------------------
(* The poll is modelled whole.                                             *)

\* The adapter hands over an event that one of the service's handlers takes.
EventHandled(n) ==
  \E e \in RadioEvents :
    /\ Next1(n, e)
    /\ e = "RX_DONE" => \/ n = Responder /\ state[n] = "RESPONDER_RX"
                        \/ n = Initiator /\ state[n] = "WAIT_RESPONSE" /\ active

\* The service starts an operation in a state where the adapter accepts it.
StartAccepted(n) ==
  /\ EventsDone(n) /\ state[n] \in StartStates
  /\ radio[n] = "IDLE" /\ rxFrame[n] = NoFrame
  /\ state[n] \in {"START_REQUEST_TX", "START_RESPONSE_TX"} => ToSend(n) # NoFrame

\* The service has nothing to start, but perhaps a timeout to act on.
NothingToStart(n) ==
  EventsDone(n) /\ state[n] \in {"IDLE", "RESPONDER_RX"} \union TimedStates

\* In every poll the service finds one of these: the error returns of
\* try_start_tx, try_start_rx and read_rx_frame for a call in the wrong state,
\* which the model leaves out, are never taken.
PollFindsWork ==
  \A n \in Node :
    pc[n] = "process" => EventHandled(n) \/ StartAccepted(n) \/ NothingToStart(n)

THEOREM PollsFindWork ==
  ASSUME Assumptions
  PROVE  Spec => []PollFindsWork
<1>1. IInv => PollFindsWork
  <2> SUFFICES ASSUME IInv, NEW n \in Node, pc[n] = "process"
               PROVE  EventHandled(n) \/ StartAccepted(n) \/ NothingToStart(n)
    BY DEF PollFindsWork
  <2>1. AdapterAt(n) /\ RolesInv /\ state[n] \in ServiceStates
    BY DEF IInv, AdapterInv, TypeOK
  <2>2. CASE Quiet(n)
    <3>1. EventsDone(n) /\ state[n] # "ERROR"
      BY <2>2 DEF Quiet, EventsDone, WaitingFor
    <3>2. CASE state[n] \in StartStates
      <4>1. radio[n] = "IDLE" /\ rxFrame[n] = NoFrame
        BY <2>2, <3>2 DEF Quiet, WaitingFor, StartStates
      <4>2. state[n] = "START_REQUEST_TX" => ToSend(n) # NoFrame
        BY <2>1
        DEF IInv, RolesInv, RequestInv, ToSend, ResponderStates, I, R, Initiator,
            Responder, Node
      <4>3. state[n] = "START_RESPONSE_TX" => ToSend(n) # NoFrame
        BY <2>1
        DEF IInv, RolesInv, ResponseInv, ToSend, InitiatorStates, I, R, Initiator,
            Responder, Node
      <4> QED BY <3>1, <3>2, <4>1, <4>2, <4>3 DEF StartAccepted
    <3>3. CASE state[n] \notin StartStates
      BY <2>1, <3>1, <3>3 DEF NothingToStart, ServiceStates
    <3> QED BY <3>2, <3>3
  <2>3. CASE Failed(n)
    <3>1. Next1(n, "DEVICE_ERROR")
      BY <2>3, OneEvent DEF Failed, Next1
    <3> QED BY <3>1 DEF EventHandled, RadioEvents
  <2>4. ASSUME NEW e \in RadioEvents \ {"DEVICE_ERROR"}, Reported(n, e)
        PROVE  EventHandled(n)
    <3>1. Next1(n, e) /\ state[n] \in AskedFor(e)
      BY <2>4, OneEvent DEF Reported, Next1
    <3>2. e = "RX_DONE" => \/ n = R /\ state[n] = "RESPONDER_RX"
                           \/ n = I /\ state[n] = "WAIT_RESPONSE" /\ active
      BY <2>1, <3>1
      DEF AskedFor, RolesInv, InitiatorStates, ResponderStates, I, R, Initiator,
          Responder, Node
    <3> QED BY <3>1, <3>2 DEF EventHandled, I, R
  <2> QED BY <2>1, <2>2, <2>3, <2>4 DEF AdapterAt
<1> QED BY <1>1, Invariance, PTL

\* What is left of a poll: the event, the timeout, the state's action.
PollLeft(n) ==
  IF pc[n] = "app" THEN 0
  ELSE 1 + (IF radioEvents[n] = <<>> THEN 0 ELSE 2)
         + (IF state[n] \in TimedStates THEN 1 ELSE 0)

\* A poll handles at most one event, one timeout and one start, in this order,
\* and returns: nothing it does makes it longer.
PollShortens ==
  [][\A n \in Node : pc[n] = "process" /\ Process(n) =>
       PollLeft(n)' \in Nat /\ PollLeft(n)' < PollLeft(n)]_vars

\* Each step of a poll takes one thing from what is left of it.
LEMMA ProcessShortens ==
  ASSUME IInv, NEW n \in Node, pc[n] = "process", Process(n)
  PROVE  PollLeft(n)' \in Nat /\ PollLeft(n)' < PollLeft(n)
<1>0. TypeOK /\ AdapterAt(n)
  BY DEF IInv, AdapterInv
<1>a. ASSUME pc'[n] = "app" PROVE PollLeft(n)' \in Nat /\ PollLeft(n)' < PollLeft(n)
  BY <1>a DEF PollLeft
<1>b. ASSUME radioEvents[n] # <<>>, radioEvents'[n] = <<>>
      PROVE  PollLeft(n)' \in Nat /\ PollLeft(n)' < PollLeft(n)
  BY <1>b DEF PollLeft
<1>c. ASSUME NEW e \in RadioEvents \ {"DEVICE_ERROR"}, Next1(n, e), Taken(n)
      PROVE  radioEvents[n] # <<>> /\ radioEvents'[n] = <<>>
  <2>1. radioEvents[n] = <<e>>
    BY <1>0, <1>c, QueueReports
  <2> QED BY <1>0, <1>c, <2>1, OneEvent DEF TypeOK, Taken, Next1
<1>1. CASE HandleTxDone(n) \/ HandleRxTimeout(n) \/ HandleCrcError(n)
  BY <1>1, <1>b, <1>c DEF HandleTxDone, HandleRxTimeout, HandleCrcError, RadioEvents
<1>2. CASE \/ RejectRequest(n) \/ SuppressDuplicate(n) \/ AcceptRequest(n)
           \/ RejectResponse(n) \/ AcceptResponse(n)
  BY <1>2, <1>b, <1>c
  DEF RejectRequest, SuppressDuplicate, AcceptRequest, RejectResponse,
      AcceptResponse, TakeFrame, RadioEvents
<1>3. CASE HandleDeviceError(n)
  <2>1. radioEvents[n] # <<>>
    BY <1>3 DEF HandleDeviceError, Next1
  <2>2. CASE Recovered(n)
    BY <1>0, <1>b, <2>1, <2>2 DEF Recovered, TypeOK
  <2>3. CASE pc' = [pc EXCEPT ![n] = "app"]
    BY <1>0, <1>a, <2>3 DEF TypeOK
  <2> QED BY <1>3, <2>2, <2>3 DEF HandleDeviceError
<1>4. CASE ProcessTimeout(n)
  <2>1. /\ radioEvents[n] = <<>> /\ state[n] \in TimedStates
        /\ radioEvents'[n] = <<>> /\ pc' = pc
    BY <1>0, <1>4 DEF ProcessTimeout, EventsDone, TimedOut, Recovered, TypeOK
  <2>2. state'[n] \in {"IDLE", "START_REQUEST_TX", "START_RESPONDER_RX"}
    <3>1. GiveUp(n, 0) /\ 0 \in Nat
      BY <1>4 DEF ProcessTimeout
    <3> QED BY <1>0, <3>1, GiveUpEffect DEF TypeOK, I, R, Node
  <2> QED BY <2>1, <2>2 DEF PollLeft, TimedStates
<1>5. CASE \/ TimeoutRadioLost(n) \/ NoAction(n) \/ StartTx(n) \/ StartRx(n)
           \/ StartFails(n) \/ StartFailsExpired(n) \/ StartRadioLost(n)
  <2>1. pc' = [pc EXCEPT ![n] = "app"]
    BY <1>5
    DEF TimeoutRadioLost, RadioLost, NoAction, StartTx, StartRx, StartFails,
        StartFailsExpired, StartRadioLost, Acts
  <2> QED BY <1>0, <1>a, <2>1 DEF TypeOK
<1>6. ~(PollQuiet(n) \/ PollIrq(n) \/ PollFault(n))
  BY DEF PollQuiet, PollIrq, PollFault, CallsProcess
<1> QED BY <1>1, <1>2, <1>3, <1>4, <1>5, <1>6 DEF Process

THEOREM PollsShorten ==
  ASSUME Assumptions
  PROVE  Spec => PollShortens
<1>1. IInv /\ [Next]_vars =>
        [\A n \in Node : pc[n] = "process" /\ Process(n) =>
           PollLeft(n)' \in Nat /\ PollLeft(n)' < PollLeft(n)]_vars
  BY ProcessShortens
<1> QED BY <1>1, Invariance, PTL DEF Spec, PollShortens
=============================================================================
