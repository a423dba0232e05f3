-------------------------- MODULE Telemetry_proofs --------------------------
(***************************************************************************)
(* Theorems about Telemetry: however many requests and UART errors there   *)
(* are, a busy transmitter reports its end, and until the first error      *)
(* frames are whole and the slots take turns.                              *)
(***************************************************************************)
EXTENDS Telemetry, TLAPS

\* The frame being started is known, only the start itself makes the backend
\* busy before the HAL is, and no transmission is begun with bytes of another.
BusyInv ==
  /\ pc # "poll" <=> frame # "none"
  /\ pc = "write" => ~busy
  /\ BusyEnds
  /\ ~sending => wire = {}

\* Without an error busy and the HAL tell the same story, so the buffer is
\* written only between two transmissions.
BufferInv ==
  /\ pc = "start" => busy /\ tx_buffer = frame
  /\ sending <=> busy /\ pc # "start"
  /\ sending => tx_buffer = started
  /\ "foreign" \notin wire

\* How many slots come before the watched one in the round robin.
Ahead == CASE watched = "battery" -> (3 - round_robin_index) % 3
           [] watched = "heartbeat" -> (4 - round_robin_index) % 3
           [] watched = "mode" -> (5 - round_robin_index) % 3

\* Each slot that overtakes the watched one brings its turn nearer.
TurnInv ==
  /\ watched \notin pending => overtaken = 0
  /\ pc = "poll" \/ frame \in Urgent => overtaken + Ahead <= 2
  /\ pc # "poll" /\ frame \in Slots \ {watched} /\ watched \in pending
       => overtaken + Ahead <= 1
  /\ overtaken <= 2

IInv ==
  /\ TypeOK
  /\ BusyInv
  /\ errors = 0 => BufferInv
  /\ errors = 0 => TurnInv

-----------------------------------------------------------------------------
\* The round robin finds the first ready slot.
LEMMA DistanceFinds ==
  ASSUME NEW ready, round_robin_index \in 0..2, Slots \intersect ready # {}
  PROVE  /\ Distance(ready) \in 0..2
         /\ SlotAt[(round_robin_index + Distance(ready)) % 3] \in ready
         /\ \A j \in 0..(Distance(ready) - 1) :
              SlotAt[(round_robin_index + j) % 3] \notin ready
<1> DEFINE At(k) == SlotAt[(round_robin_index + k) % 3] \in ready
           First(k) == At(k) /\ \A j \in 0..(k - 1) : ~At(j)
<1>1. \E k \in 0..2 : At(k)
  <2>1. ASSUME NEW i \in 0..2, SlotAt[i] \in ready
        PROVE  \E k \in 0..2 : At(k)
    <3>1. /\ (i - round_robin_index) % 3 \in 0..2
          /\ (round_robin_index + ((i - round_robin_index) % 3)) % 3 = i
      OBVIOUS
    <3> QED BY <3>1, <2>1
  <2>2. SlotAt[0] = "battery" /\ SlotAt[1] = "heartbeat" /\ SlotAt[2] = "mode"
    BY DEF SlotAt
  <2>3. \E i \in 0..2 : SlotAt[i] \in ready
    BY <2>2 DEF Slots
  <2> QED BY <2>1, <2>3
<1>2. \E k \in 0..2 : First(k)
  <2> HIDE DEF At
  <2>1. CASE At(0) BY <2>1
  <2>2. CASE ~At(0) /\ At(1)
    <3>1. \A j \in 0..(1 - 1) : j = 0 OBVIOUS
    <3> QED BY <2>2, <3>1
  <2>3. CASE ~At(0) /\ ~At(1) /\ At(2)
    <3>1. \A j \in 0..(2 - 1) : j = 0 \/ j = 1 OBVIOUS
    <3> QED BY <2>3, <3>1
  <2>4. \A k \in 0..2 : k = 0 \/ k = 1 \/ k = 2 OBVIOUS
  <2> QED BY <1>1, <2>1, <2>2, <2>3, <2>4
<1> QED BY <1>2 DEF Distance

\* What is chosen is ready, and a slot that is passed over is nearer afterwards.
LEMMA Chosen ==
  ASSUME NEW ready, ready \subseteq Frames, ready # {}, Choose(ready),
         round_robin_index \in 0..2, watched \in Slots, watched' = watched
  PROVE  /\ frame' \in ready
         /\ round_robin_index' \in 0..2
         /\ Ahead \in 0..2 /\ Ahead' \in 0..2
         /\ frame' \in Urgent => Ahead' = Ahead
         /\ frame' \in Slots /\ frame' # watched /\ watched \in ready
              => Ahead' < Ahead
<1>1. CASE Urgent \intersect ready # {}
  BY <1>1 DEF Choose, Urgent, Frames, Slots, Ahead
<1>2. CASE Urgent \intersect ready = {}
  <2> DEFINE d == Distance(ready)
             i == (round_robin_index + d) % 3
  <2>1. Slots \intersect ready # {}
    BY <1>2 DEF Frames
  <2>2. /\ d \in 0..2
        /\ SlotAt[i] \in ready
        /\ \A j \in 0..(d - 1) : SlotAt[(round_robin_index + j) % 3] \notin ready
    BY <2>1, DistanceFinds
  <2>3. frame' = SlotAt[i] /\ round_robin_index' = (i + 1) % 3
    BY <1>2 DEF Choose
  <2> HIDE DEF d
  <2>4. i \in 0..2 /\ round_robin_index' \in 0..2
    BY <2>2, <2>3
  <2>5. SlotAt[0] = "battery" /\ SlotAt[1] = "heartbeat" /\ SlotAt[2] = "mode"
    BY DEF SlotAt
  <2>6. frame' \notin Urgent
    BY <2>3, <2>4, <2>5 DEF Urgent
  <2>7. Ahead \in 0..2 /\ Ahead' \in 0..2
    BY <2>4 DEF Ahead, Slots
  <2>8. ASSUME frame' # watched, watched \in ready
        PROVE  Ahead' < Ahead
    <3>1. SlotAt[(round_robin_index + Ahead) % 3] = watched
      <4>1. CASE watched = "battery"
        <5>1. (round_robin_index + Ahead) % 3 = 0 BY <4>1 DEF Ahead
        <5> QED BY <5>1, <4>1, <2>5
      <4>2. CASE watched = "heartbeat"
        <5>1. (round_robin_index + Ahead) % 3 = 1 BY <4>2 DEF Ahead
        <5> QED BY <5>1, <4>2, <2>5
      <4>3. CASE watched = "mode"
        <5>1. (round_robin_index + Ahead) % 3 = 2 BY <4>3 DEF Ahead
        <5> QED BY <5>1, <4>3, <2>5
      <4> QED BY <4>1, <4>2, <4>3 DEF Slots
    <3>2. ~(Ahead < d)
      BY <3>1, <2>2, <2>7, <2>8
    <3>3. Ahead # d
      BY <3>1, <2>3, <2>8
    <3>4. round_robin_index' = (round_robin_index + d + 1) % 3
      BY <2>2, <2>3
    <3>5. Ahead' = Ahead - d - 1
      BY <3>2, <3>3, <3>4, <2>2, <2>7 DEF Ahead, Slots
    <3> QED BY <3>5, <2>2, <2>7
  <2> QED BY <2>2, <2>3, <2>4, <2>6, <2>7, <2>8
<1> QED BY <1>1, <1>2

\* A poll either leaves the loop and the round robin alone, or starts on a frame
\* that is pending, while the backend is free; the watched slot's turn comes
\* nearer when another slot is chosen before it.
LEMMA ProcessChooses ==
  ASSUME TypeOK, ServiceProcess
  PROVE  /\ pending \subseteq pending' /\ pending' \subseteq Frames
         /\ \/ UNCHANGED <<loop, round_robin_index>>
            \/ /\ pc' = "write" /\ ~busy
               /\ frame' \in pending' /\ round_robin_index' \in 0..2
               /\ Ahead \in 0..2 /\ Ahead' \in 0..2
               /\ frame' \in Urgent => Ahead' = Ahead
               /\ frame' \in Slots /\ frame' # watched /\ watched \in pending'
                    => Ahead' < Ahead
<1> DEFINE taken == device_ping_pending /\ "device" \notin pending
           ready == pending \union {s \in due : s \in Values => s \in valid}
                      \union {f \in {"device"} : taken}
<1>1. pending' = ready /\ watched' = watched
  BY DEF ServiceProcess, history
<1>2. ready \subseteq Frames /\ pending \subseteq ready
  BY DEF Frames, Urgent, TypeOK
<1>3. CASE busy \/ ready = {}
  BY <1>1, <1>2, <1>3 DEF ServiceProcess
<1>4. CASE ~(busy \/ ready = {})
  <2>1. Choose(ready) /\ pc' = "write"
    BY <1>4 DEF ServiceProcess
  <2> HIDE DEF ready
  <2>2. round_robin_index \in 0..2 /\ watched \in Slots
    BY DEF TypeOK
  <2> QED BY <2>1, <2>2, <1>1, <1>2, <1>4, Chosen
<1> QED BY <1>3, <1>4

-----------------------------------------------------------------------------
\* TypeOK holds of every reachable state.
LEMMA TypeStep ==
  ASSUME TypeOK, [Next]_vars
  PROVE  TypeOK'
<1> USE DEF TypeOK, service, loop, hal, history
<1>1. ASSUME NEW s \in Values, SetValue(s) PROVE TypeOK'
  BY <1>1 DEF SetValue, Values, Slots, Frames
<1>2. CASE QueueCustom BY <1>2, BoundAssumption DEF QueueCustom, Urgent, Frames
<1>3. CASE ReceivePing BY <1>3, BoundAssumption DEF ReceivePing
<1>4. CASE ForgetPing BY <1>4 DEF ForgetPing
<1>5. ASSUME NEW s \in Slots, Tick(s) PROVE TypeOK'
  BY <1>5 DEF Tick
<1>6. CASE ServiceProcess
  <2>1. pending' \subseteq Frames
    BY <1>6, ProcessChooses
  <2>2. round_robin_index' \in 0..2 /\ pc' \in {"poll", "write", "start"}
    BY <1>6, ProcessChooses
  <2>3. frame' \in Frames \union {"none"}
    BY <1>6, <2>1, ProcessChooses
  <2>4. device_ping_pending' \in BOOLEAN
    BY <1>6 DEF ServiceProcess
  <2>5. UNCHANGED <<valid, due, busy, tx_buffer, sending, wire, started, watched,
                    overtaken, requests, errors>>
    BY <1>6 DEF ServiceProcess
  <2> QED BY <2>1, <2>2, <2>3, <2>4, <2>5
<1>7. CASE TryWrite BY <1>7 DEF TryWrite
<1>8. CASE HalStarts BY <1>8 DEF HalStarts, Overtake
<1>9. CASE HalRefuses BY <1>9 DEF HalRefuses
<1>10. CASE SendBytes BY <1>10 DEF SendBytes
<1>11. CASE TxComplete
  <2>1. wire' = {} /\ started' = "none" /\ busy' = FALSE /\ sending' = FALSE
    BY <1>11 DEF TxComplete
  <2>2. wire' \subseteq {"own", "foreign"}
    BY <2>1
  <2> QED BY <1>11, <2>1, <2>2 DEF TxComplete
<1>12. CASE UartError
  <2>1. errors' \in 0..MaxErrors
    BY <1>12, BoundAssumption DEF UartError
  <2>2. busy' \in BOOLEAN
    BY <1>12 DEF UartError
  <2>3. UNCHANGED <<pending, valid, due, round_robin_index, device_ping_pending,
                    pc, frame, tx_buffer, sending, wire, started, watched,
                    overtaken, requests>>
    BY <1>12 DEF UartError
  <2> QED BY <2>1, <2>2, <2>3
<1>13. CASE UNCHANGED vars BY <1>13 DEF vars
<1> QED BY <1>1, <1>2, <1>3, <1>4, <1>5, <1>6, <1>7, <1>8, <1>9, <1>10, <1>11,
           <1>12, <1>13 DEF Next, MainLoop

\* TypeOK holds initially.
LEMMA InitTypes ==
  ASSUME Init
  PROVE  TypeOK
<1>1. {"heartbeat"} \subseteq Frames /\ {} \subseteq Values /\ {} \subseteq Slots
  BY DEF Slots, Frames
<1>2. 0 \in 0..MaxRequests /\ 0 \in 0..MaxErrors
  BY BoundAssumption
<1>3. {} \subseteq {"own", "foreign"}
  OBVIOUS
<1>4. pending \in SUBSET Frames /\ valid \in SUBSET Values /\ due \in SUBSET Slots
  BY <1>1 DEF Init
<1>5. /\ round_robin_index \in 0..2 /\ overtaken \in 0..3
      /\ requests \in 0..MaxRequests /\ errors \in 0..MaxErrors
  BY <1>2 DEF Init
<1>6. /\ device_ping_pending \in BOOLEAN /\ busy \in BOOLEAN /\ sending \in BOOLEAN
      /\ pc \in {"poll", "write", "start"}
      /\ frame \in Frames \union {"none"} /\ tx_buffer \in Frames \union {"none"}
      /\ started \in Frames \union {"none"} /\ watched \in Slots
  BY DEF Init
<1>7. wire \in SUBSET {"own", "foreign"}
  BY <1>3 DEF Init
<1> QED BY <1>4, <1>5, <1>6, <1>7 DEF TypeOK

\* Every variable of the service, the backend and the HAL keeps its type, for
\* every bound on requests and errors.
THEOREM TypeCorrect == Spec => []TypeOK
<1>1. Init => TypeOK
  BY InitTypes
<1>2. TypeOK /\ [Next]_vars => TypeOK'
  BY TypeStep, BoundAssumption
<1> QED BY <1>1, <1>2, PTL DEF Spec

-----------------------------------------------------------------------------
(* The inductive invariant, conjunct by conjunct                           *)

\* A busy backend outside try_write has a transmission that will end.
LEMMA BusyStep ==
  ASSUME TypeOK, BusyInv, [Next]_vars
  PROVE  BusyInv'
<1> USE DEF BusyInv, BusyEnds, service, loop, hal, history
<1>1. ASSUME NEW s \in Values, SetValue(s) PROVE BusyInv'
  BY <1>1 DEF SetValue
<1>2. CASE QueueCustom BY <1>2 DEF QueueCustom
<1>3. CASE ReceivePing BY <1>3 DEF ReceivePing
<1>4. CASE ForgetPing BY <1>4 DEF ForgetPing
<1>5. ASSUME NEW s \in Slots, Tick(s) PROVE BusyInv'
  BY <1>5 DEF Tick
<1>6. CASE ServiceProcess
  <2>1. CASE UNCHANGED loop BY <1>6, <2>1 DEF ServiceProcess
  <2>2. CASE ~UNCHANGED loop
    <3>1. ~busy /\ ~busy' /\ pc' = "write" /\ sending' = sending /\ wire' = wire
      BY <1>6, <2>2 DEF ServiceProcess
    <3>2. frame' # "none"
      BY <1>6, <2>2, ProcessChooses DEF Frames, Slots, Urgent
    <3> QED BY <3>1, <3>2
  <2> QED BY <2>1, <2>2
<1>7. CASE TryWrite BY <1>7 DEF TryWrite
<1>8. CASE HalStarts BY <1>8 DEF HalStarts
<1>9. CASE HalRefuses BY <1>9 DEF HalRefuses
<1>10. CASE SendBytes BY <1>10 DEF SendBytes
<1>11. CASE TxComplete BY <1>11 DEF TxComplete
<1>12. CASE UartError BY <1>12 DEF UartError
<1>13. CASE UNCHANGED vars BY <1>13 DEF vars
<1> QED BY <1>1, <1>2, <1>3, <1>4, <1>5, <1>6, <1>7, <1>8, <1>9, <1>10, <1>11,
           <1>12, <1>13 DEF Next, MainLoop

\* Busy and the HAL stay in step, unless an error strikes during a transmission.
LEMMA BufferKept ==
  ASSUME BufferInv, [Next]_vars, ~(UartError /\ busy)
  PROVE  BufferInv'
<1> USE DEF BufferInv, service, loop, hal, history
<1>1. ASSUME NEW s \in Values, SetValue(s) PROVE BufferInv'
  BY <1>1 DEF SetValue
<1>2. CASE QueueCustom BY <1>2 DEF QueueCustom
<1>3. CASE ReceivePing BY <1>3 DEF ReceivePing
<1>4. CASE ForgetPing BY <1>4 DEF ForgetPing
<1>5. ASSUME NEW s \in Slots, Tick(s) PROVE BufferInv'
  BY <1>5 DEF Tick
<1>6. CASE ServiceProcess
  <2>1. pc # "start" /\ pc' # "start"
    BY <1>6 DEF ServiceProcess
  <2>2. UNCHANGED <<busy, tx_buffer, sending, wire, started>>
    BY <1>6 DEF ServiceProcess
  <2> QED BY <2>1, <2>2
<1>7. CASE TryWrite BY <1>7 DEF TryWrite
<1>8. CASE HalStarts BY <1>8 DEF HalStarts
<1>9. CASE HalRefuses BY <1>9 DEF HalRefuses
<1>10. CASE SendBytes BY <1>10 DEF SendBytes
<1>11. CASE TxComplete BY <1>11 DEF TxComplete
<1>12. CASE UartError BY <1>12 DEF UartError
<1>13. CASE UNCHANGED vars BY <1>13 DEF vars
<1> QED BY <1>1, <1>2, <1>3, <1>4, <1>5, <1>6, <1>7, <1>8, <1>9, <1>10, <1>11,
           <1>12, <1>13 DEF Next, MainLoop

\* Until an error the buffer holds the frame being sent.
LEMMA BufferStep ==
  ASSUME TypeOK, BusyInv, errors = 0 => BufferInv, [Next]_vars, errors' = 0
  PROVE  BufferInv'
<1>1. errors \in Nat /\ (errors' = errors \/ errors' = errors + 1)
  BY BoundAssumption DEF TypeOK, Next, MainLoop, SetValue, QueueCustom, ReceivePing,
    ForgetPing, Tick, ServiceProcess, TryWrite, HalStarts, HalRefuses,
    SendBytes, TxComplete, UartError, service, vars
<1>2. errors = 0 /\ errors' # errors + 1
  BY <1>1
<1> QED BY <1>2, BufferKept DEF UartError

\* Until an error a slot that overtakes the watched one brings its turn nearer.
LEMMA TurnStep ==
  ASSUME TypeOK, BusyInv, errors = 0 => BufferInv /\ TurnInv, [Next]_vars,
         errors' = 0
  PROVE  TurnInv'
<1> USE DEF service, loop, hal, history
<1>0. errors = 0 /\ BufferInv /\ TurnInv
  <2>1. errors \in Nat /\ (errors' = errors \/ errors' = errors + 1)
    BY BoundAssumption DEF TypeOK, Next, MainLoop, SetValue, QueueCustom, ReceivePing,
      ForgetPing, Tick, ServiceProcess, TryWrite, HalStarts, HalRefuses,
      SendBytes, TxComplete, UartError, vars
  <2> QED BY <2>1
<1>a. /\ overtaken \in 0..3 /\ Ahead \in 0..2 /\ watched \in Slots
      /\ Slots \intersect Urgent = {}
  BY DEF TypeOK, Ahead, Slots, Urgent
<1>b. ASSUME UNCHANGED <<watched, overtaken, round_robin_index, pc, frame>>,
             pending \subseteq pending', pc # "poll" => pending' = pending
      PROVE  TurnInv'
  <2>1. Ahead' = Ahead
    BY <1>b DEF Ahead
  <2> QED BY <1>0, <1>a, <1>b, <2>1 DEF TurnInv
<1>1. ASSUME NEW s \in Values, SetValue(s) PROVE TurnInv'
  BY <1>1, <1>b DEF SetValue
<1>2. CASE QueueCustom BY <1>2, <1>b DEF QueueCustom
<1>3. CASE ReceivePing BY <1>3, <1>b DEF ReceivePing
<1>4. CASE ForgetPing BY <1>4, <1>b DEF ForgetPing
<1>5. ASSUME NEW s \in Slots, Tick(s) PROVE TurnInv'
  BY <1>5, <1>b DEF Tick
<1>6. CASE ServiceProcess
  <2>1. pc = "poll" /\ UNCHANGED <<watched, overtaken>>
    BY <1>6 DEF ServiceProcess
  <2>2. CASE UNCHANGED <<loop, round_robin_index>>
    BY <1>6, <1>b, <2>1, <2>2, ProcessChooses
  <2>3. CASE ~UNCHANGED <<loop, round_robin_index>>
    <3>1. /\ pc' = "write" /\ frame' \in pending' /\ pending \subseteq pending'
          /\ Ahead' \in 0..2
          /\ frame' \in Urgent => Ahead' = Ahead
          /\ frame' \in Slots /\ frame' # watched /\ watched \in pending'
               => Ahead' < Ahead
      BY <1>6, <2>3, ProcessChooses
    <3>2. overtaken' <= 2 /\ overtaken' = overtaken
      BY <1>0, <1>a, <2>1 DEF TurnInv
    <3>3. watched' \notin pending' => overtaken' = 0
      BY <1>0, <2>1, <3>1 DEF TurnInv
    <3>4. overtaken + Ahead <= 2
      BY <1>0, <2>1 DEF TurnInv
    <3>5. frame' \in Urgent => overtaken' + Ahead' <= 2
      BY <3>1, <3>2, <3>4
    <3>6. frame' \in Slots \ {watched} /\ watched \in pending'
            => overtaken' + Ahead' <= 1
      <4>1. \A x \in 0..3, y, z \in 0..2 : x + y <= 2 /\ z < y => x + z <= 1
        OBVIOUS
      <4> QED BY <1>a, <3>1, <3>2, <3>4, <4>1
    <3> QED BY <2>1, <3>1, <3>2, <3>3, <3>5, <3>6 DEF TurnInv
  <2> QED BY <2>2, <2>3
<1>7. CASE TryWrite
  <2>1. Ahead' = Ahead
    BY <1>7 DEF TryWrite, Ahead
  <2> QED BY <1>0, <1>7, <2>1 DEF TryWrite, TurnInv
<1>8. CASE HalStarts
  <2>1. Ahead' = Ahead
    BY <1>8 DEF HalStarts, Ahead
  <2>2. /\ pc = "start" /\ pc' = "poll"
        /\ pending' = pending \ {frame} /\ watched' = watched /\ Overtake
    BY <1>8 DEF HalStarts
  <2>3. frame \in Slots \union Urgent
    BY <2>2 DEF TypeOK, BusyInv, Frames
  <2>4. CASE watched = frame \/ watched \notin pending
    <3>1. overtaken' = 0
      BY <2>2, <2>4 DEF Overtake
    <3> QED BY <1>a, <2>1, <2>2, <3>1 DEF TurnInv
  <2>5. CASE watched # frame /\ watched \in pending
    <3>1. overtaken' + Ahead <= 2
      BY <1>0, <1>a, <2>2, <2>3, <2>5 DEF TurnInv, Overtake
    <3>2. overtaken' \in 0..3 /\ watched \in pending'
      BY <1>a, <2>2, <2>5 DEF Overtake
    <3>3. overtaken' + Ahead' <= 2 /\ overtaken' <= 2
      <4>1. \A x \in 0..3, y \in 0..2 : x + y <= 2 => x <= 2
        OBVIOUS
      <4> QED BY <1>a, <2>1, <3>1, <3>2, <4>1
    <3> QED BY <2>2, <3>2, <3>3 DEF TurnInv
  <2> QED BY <2>4, <2>5
<1>9. CASE HalRefuses
  BY <1>0, <1>9 DEF HalRefuses, BufferInv
<1>10. CASE SendBytes BY <1>10, <1>b DEF SendBytes
<1>11. CASE TxComplete BY <1>11, <1>b DEF TxComplete
<1>12. CASE UartError BY <1>0, <1>12 DEF UartError
<1>13. CASE UNCHANGED vars BY <1>13, <1>b DEF vars
<1> QED BY <1>1, <1>2, <1>3, <1>4, <1>5, <1>6, <1>7, <1>8, <1>9, <1>10, <1>11,
           <1>12, <1>13 DEF Next, MainLoop

-----------------------------------------------------------------------------
(* The theorems                                                            *)

\* The inductive invariant holds of every reachable state, whatever the requests,
\* the errors and the moments at which interrupts strike.
THEOREM Invariance == Spec => []IInv
<1>1. Init => IInv
  <2> SUFFICES ASSUME Init PROVE IInv
    OBVIOUS
  <2>1. TypeOK
    BY InitTypes
  <2>2. BusyInv
    BY DEF Init, BusyInv, BusyEnds
  <2>3. BufferInv
    BY DEF Init, BufferInv
  <2>4. TurnInv
    <3>1. Ahead \in 0..2
      BY DEF Init, Ahead, Slots
    <3> QED BY <3>1 DEF Init, TurnInv
  <2> QED BY <2>1, <2>2, <2>3, <2>4 DEF IInv
<1>2. IInv /\ [Next]_vars => IInv'
  <2> SUFFICES ASSUME IInv, [Next]_vars PROVE IInv'
    OBVIOUS
  <2>1. TypeOK /\ BusyInv /\ (errors = 0 => BufferInv /\ TurnInv)
    BY DEF IInv
  <2>2. TypeOK' /\ BusyInv'
    BY <2>1, TypeStep, BusyStep
  <2>3. errors' = 0 => BufferInv' /\ TurnInv'
    BY <2>1, BufferStep, TurnStep
  <2> QED BY <2>2, <2>3 DEF IInv
<1> QED BY <1>1, <1>2, PTL DEF Spec

\* A busy transmitter has a transmission that will end, also after UART errors
\* and refused starts: the telemetry is never silenced by its own flag.
THEOREM BusyBackendEnds == Spec => []BusyEnds
<1>1. IInv => BusyEnds
  BY DEF IInv, BusyInv
<1> QED BY <1>1, Invariance, PTL

\* Until the first UART error, what the HAL reads from the buffer while the main
\* loop runs is the frame it was started with.
THEOREM FramesAreWhole == Spec => []WholeUntilError
<1>1. IInv => WholeUntilError
  BY DEF IInv, BufferInv, WholeUntilError
<1> QED BY <1>1, Invariance, PTL

\* Neither the backend nor the HAL is at work.
AtRest == ~busy /\ ~sending /\ pc # "start"

\* What an error does to a transmission does not last: from any moment at which
\* the backend and the HAL are at rest, busy and the buffer agree with the HAL,
\* and so every frame is whole, until an error strikes a busy backend again.
ErrorHeals ==
  [][(AtRest \/ BufferInv) /\ ~(UartError /\ busy) => BufferInv']_vars

THEOREM ErrorsHeal == Spec => ErrorHeals
<1>1. ASSUME IInv, [Next]_vars, AtRest \/ BufferInv, ~(UartError /\ busy)
      PROVE  BufferInv'
  <2>1. BusyInv
    BY <1>1 DEF IInv
  <2>2. BufferInv
    BY <1>1, <2>1 DEF AtRest, BusyInv, BufferInv
  <2> QED BY <1>1, <2>2, BufferKept
<1>2. IInv /\ [Next]_vars =>
        [(AtRest \/ BufferInv) /\ ~(UartError /\ busy) => BufferInv']_vars
  BY <1>1
<1> QED BY <1>2, Invariance, PTL DEF Spec, ErrorHeals

\* Until the first UART error no slot waits for more than two others, however
\* often they fall due or the application sets their values.
THEOREM SlotsTakeTurns == Spec => []TurnsAreTaken
<1>1. IInv => TurnsAreTaken
  BY DEF IInv, TurnInv, TurnsAreTaken
<1> QED BY <1>1, Invariance, PTL

=============================================================================
