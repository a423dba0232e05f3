------------------------------ MODULE Exchange ------------------------------
(***************************************************************************)
(* What the radio link promises its two applications.  The initiator runs  *)
(* one exchange at a time and is told how it ended; the responder is       *)
(* handed each request at most once, in the order they were started,       *)
(* perhaps long after the initiator gave the exchange up; and the          *)
(* initiator is told of success only for a request that the responder was  *)
(* handed.  A responder that restarts forgets what it was handed, so it    *)
(* may be handed the newest of its requests again.                         *)
(***************************************************************************)
EXTENDS Naturals

CONSTANT MaxExchanges  \* a natural number: exchanges that may be started

VARIABLES
  open,      \* an exchange is in progress: the newest
  exchange,  \* exchanges started
  received,  \* how often the responder was handed each since it restarted
  accepted,  \* the exchanges whose request it was ever handed
  outcome    \* how each exchange ended

vars == <<open, exchange, received, accepted, outcome>>

Exchanges == 1..MaxExchanges

Init ==
  /\ open = FALSE
  /\ exchange = 0
  /\ received = [x \in Exchanges |-> 0]
  /\ accepted = {}
  /\ outcome = [x \in Exchanges |-> "none"]

Start ==
  /\ ~open
  /\ exchange < MaxExchanges
  /\ open' = TRUE
  /\ exchange' = exchange + 1
  /\ UNCHANGED <<received, accepted, outcome>>

Deliver(x) ==
  /\ x <= exchange
  /\ \A y \in Exchanges : y >= x => received[y] = 0
  /\ received' = [received EXCEPT ![x] = 1]
  /\ accepted' = accepted \union {x}
  /\ UNCHANGED <<open, exchange, outcome>>

End(how) ==
  /\ open
  /\ open' = FALSE
  /\ outcome' = [outcome EXCEPT ![exchange] = how]
  /\ UNCHANGED <<exchange, received, accepted>>

Succeed == exchange \in accepted /\ End("succeeded")
Fail == End("failed")

ResponderRestarts ==
  /\ received' = [x \in Exchanges |-> 0]
  /\ UNCHANGED <<open, exchange, accepted, outcome>>

Next ==
  \/ Start
  \/ \E x \in Exchanges : Deliver(x)
  \/ Succeed
  \/ Fail
  \/ ResponderRestarts

Spec == Init /\ [][Next]_vars
=============================================================================
