----------------------------- MODULE PacketRadio -----------------------------
(***************************************************************************)
(* What a packet radio promises the service above it (packet_radio_if.h):  *)
(* it runs one operation at a time, every operation it runs ends in        *)
(* exactly one event or is given up by a recovery, a received frame is     *)
(* offered with RX_DONE and with nothing else, and a failure is reported   *)
(* once and stops everything until a recovery succeeds.                    *)
(***************************************************************************)
EXTENDS Sequences

VARIABLES
  state,       \* "IDLE", "TX", "RX" or "ERROR"
  events,      \* the events not yet taken
  frame,       \* a received frame is offered
  recovering   \* recover is at work

vars == <<state, events, frame, recovering>>

Init ==
  /\ state = "IDLE"
  /\ events = <<>>
  /\ frame = FALSE
  /\ recovering = FALSE

Start(operation) ==
  /\ state = "IDLE" /\ ~recovering
  /\ operation = "RX" => ~frame
  /\ state' = operation
  /\ UNCHANGED <<events, frame, recovering>>

\* The operation ends: its event is the only one there is.
End(operation, event, offered) ==
  /\ state = operation /\ ~recovering
  /\ events = <<>>
  /\ state' = "IDLE"
  /\ events' = <<event>>
  /\ frame' = offered
  /\ UNCHANGED recovering

Fail ==
  /\ state' = "ERROR"
  /\ state = "ERROR" => recovering
  /\ events' = <<"DEVICE_ERROR">>
  /\ frame' = FALSE
  /\ recovering' = FALSE

Take ==
  /\ events # <<>>
  /\ events' = Tail(events)
  /\ UNCHANGED <<state, frame, recovering>>

Read ==
  /\ frame
  /\ frame' = FALSE
  /\ UNCHANGED <<state, events, recovering>>

BeginRecovery ==
  /\ ~recovering
  /\ recovering' = TRUE
  /\ events' = <<>>
  /\ frame' = FALSE
  /\ UNCHANGED state

EndRecovery ==
  /\ recovering
  /\ recovering' = FALSE
  /\ state' = "IDLE"
  /\ UNCHANGED <<events, frame>>

Next ==
  \/ Start("TX") \/ Start("RX")
  \/ End("TX", "TX_DONE", frame)
  \/ End("RX", "RX_DONE", TRUE)
  \/ End("RX", "RX_TIMEOUT", FALSE)
  \/ End("RX", "CRC_ERROR", FALSE)
  \/ Fail
  \/ Take \/ Read
  \/ BeginRecovery \/ EndRecovery

Spec == Init /\ [][Next]_vars
=============================================================================
