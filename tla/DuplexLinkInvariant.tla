------------------------- MODULE DuplexLinkInvariant -------------------------
(***************************************************************************)
(* The inductive invariant of DuplexLink, one conjunct per idea.  It holds *)
(* when only the responder may lose power (an initiator that restarts      *)
(* forgets its sequence number) and the service's event queue has room for *)
(* two events.  DuplexLink_proofs shows that every step preserves it.      *)
(***************************************************************************)
EXTENDS DuplexLink

I == Initiator
R == Responder

\* The sequence number of an exchange.
SeqOf(x) == (InitialSequence + x - 1) % SeqModulus

Assumptions ==
  /\ RestartNodes \subseteq {Responder}
  /\ EventCapacity >= 2

-----------------------------------------------------------------------------
(* The services.                                                           *)

InitiatorStates == {"IDLE", "START_REQUEST_TX", "WAIT_REQUEST_TX_DONE",
                    "START_RESPONSE_RX", "WAIT_RESPONSE", "ERROR"}
ResponderStates == {"START_RESPONDER_RX", "RESPONDER_RX", "START_RESPONSE_TX",
                    "WAIT_RESPONSE_TX_DONE", "ERROR"}

\* A service is in a state of its role, and the initiator is idle exactly when
\* it has no request.
RolesInv ==
  /\ state[I] \in InitiatorStates
  /\ state[R] \in ResponderStates
  /\ active => state[I] # "IDLE"
  /\ ~active => state[I] \in {"IDLE", "ERROR"}

\* How many events the service may have published at this point of its poll.
MostEvents(n) ==
  IF pc[n] = "app" THEN 2
  ELSE IF radioEvents[n] # <<>> THEN 0
  ELSE IF state[n] \in StartStates THEN 1
  ELSE IF state[n] = "IDLE" THEN 2 ELSE 0

EventsInv ==
  /\ ~dropped
  /\ \A n \in Node : eventCount[n] <= MostEvents(n)

\* attempts counts the transmissions of the exchange, one more than the retries
\* once the request of this attempt is on its way; a retry budget that fills
\* the counter's 8 bits lets it wrap.
AttemptsInv ==
  MaxRetries + 1 < CountModulus =>
    /\ attempts <= retries + 1
    /\ state[I] = "START_REQUEST_TX" => attempts <= retries
    /\ state[I] \in {"WAIT_REQUEST_TX_DONE", "START_RESPONSE_RX", "WAIT_RESPONSE"}
         => attempts >= 1

-----------------------------------------------------------------------------
(* The adapters.                                                           *)

\* The state the service is in when the adapter hands it event e.
AskedFor(e) ==
  IF e = "TX_DONE" THEN {"WAIT_REQUEST_TX_DONE", "WAIT_RESPONSE_TX_DONE"}
                   ELSE {"WAIT_RESPONSE", "RESPONDER_RX"}

\* The adapter's queue is empty, and the adapter does what the service expects.
Quiet(n) ==
  /\ radioEvents[n] = <<>>
  /\ radio[n] \in WaitingFor(n) \ {"ERROR"}
  /\ rxFrame[n] = NoFrame

\* The adapter has failed: the service knows, or will know in its next poll.
Failed(n) ==
  /\ radioEvents[n] = <<"DEVICE_ERROR">>
  /\ radio[n] = "ERROR"
  /\ pc[n] = "app" => state[n] \in StartStates \union {"ERROR"}
  /\ state[n] = "ERROR" => pc[n] = "app"
  /\ rxFrame[n] = NoFrame

\* The adapter has finished what the service asked for, in this very poll.
Reported(n, e) ==
  /\ radioEvents[n] = <<e>>
  /\ radio[n] = "IDLE"
  /\ pc[n] = "process"
  /\ state[n] \in AskedFor(e)
  /\ rxFrame[n] # NoFrame <=> e = "RX_DONE"

AdapterAt(n) ==
  \/ Quiet(n)
  \/ Failed(n)
  \/ \E e \in RadioEvents \ {"DEVICE_ERROR"} : Reported(n, e)

AdapterInv == \A n \in Node : AdapterAt(n)

-----------------------------------------------------------------------------
(* The chips.                                                              *)

\* What the adapter believes of the chip is so, or the interrupt that says
\* otherwise is pending.
ChipInv ==
  \A n \in Node :
    /\ mode[n] = "TX" <=> txBuffer[n] # NoFrame
    /\ radio[n] = "TX" => \/ mode[n] = "TX" /\ irq[n] \subseteq {"RX_DONE"}
                          \/ mode[n] = "STANDBY"
    /\ radio[n] = "IDLE" => mode[n] # "TX"
    /\ radio[n] = "RX" /\ "RX_DONE" \in irq[n] /\ "CRC_ERROR" \notin irq[n]
         => rxBuffer[n] # NoFrame

\* The initiator's chip never receives when its adapter does not know.
InitiatorChipInv ==
  /\ mode[I] # "RX_CONTINUOUS"
  /\ radio[I] = "RX" => (mode[I] = "RX" /\ irq[I] = {}) \/ mode[I] = "STANDBY"
  /\ radio[I] = "IDLE" => mode[I] = "STANDBY"
  /\ radio[I] \in {"IDLE", "TX"} => rxBuffer[I] = NoFrame

ResponderChipInv == radio[R] = "RX" => mode[R] = "RX_CONTINUOUS"

-----------------------------------------------------------------------------
(* The frames.                                                             *)

\* With x exchanges started, the frame belongs to one of them less than a cycle
\* of sequence numbers old.
InWindow(f, x) ==
  /\ f.xid \in 1..x
  /\ x - f.xid < SeqModulus
  /\ f.seq = SeqOf(f.xid)

IsRequest(f, x) == f \in Requests /\ InWindow(f, x)

\* The response answers a request that the responder accepted.
IsResponse(f, x, acc) == f \in Responses /\ InWindow(f, x) /\ f.xid \in acc

NoPeer == Junk \union {NoFrame}

\* What the initiator sends and receives.
RequestInv ==
  /\ pending = NoFrame <=> exchange = 0
  /\ active => pending # NoFrame
  /\ pending # NoFrame => IsRequest(pending, exchange) /\ pending.xid = exchange
  /\ nextSeq = SeqOf(exchange + 1)
  /\ txBuffer[I] \in {NoFrame, pending}
  /\ rxBuffer[I] \in NoPeer \/ IsResponse(rxBuffer[I], exchange, accepted)
  /\ rxFrame[I] \in NoPeer \/ IsResponse(rxFrame[I], exchange, accepted)

\* What the responder sends and receives.
ResponseInv ==
  /\ last = NoFrame <=> cached = NoFrame
  /\ last # NoFrame =>
       /\ IsRequest(last, exchange)
       /\ IsResponse(cached, exchange, accepted)
       /\ cached.xid = last.xid
  /\ state[R] = "START_RESPONSE_TX" => cached # NoFrame
  /\ txBuffer[R] \in {NoFrame, cached}
  /\ rxBuffer[R] \in NoPeer \/ IsRequest(rxBuffer[R], exchange)
  /\ rxFrame[R] \in NoPeer \/ IsRequest(rxFrame[R], exchange)

\* g is not older than f, if both belong to an exchange.
NotBefore(f, g) == f.xid # 0 /\ g.xid # 0 => f.xid <= g.xid

\* The responder sees requests in the order they were started, each of them
\* perhaps many times.
OrderInv ==
  /\ NotBefore(last, rxFrame[R])
  /\ NotBefore(last, rxBuffer[R])
  /\ NotBefore(rxFrame[R], rxBuffer[R])
  /\ \A x \in Exchanges : received[x] > 0 => received[x] = 1 /\ x <= last.xid

OutcomeInv ==
  /\ SuccessImpliesAccepted
  /\ accepted \subseteq 1..exchange

-----------------------------------------------------------------------------

IInv ==
  /\ TypeOK
  /\ RolesInv /\ EventsInv /\ AttemptsInv /\ AdapterInv
  /\ ChipInv /\ InitiatorChipInv /\ ResponderChipInv
  /\ RequestInv /\ ResponseInv /\ OrderInv /\ OutcomeInv
=============================================================================
