------------------------- MODULE UartReceive_proofs -------------------------
(***************************************************************************)
(* What UartReceive's run checks on a buffer of four bytes, for every size *)
(* of the buffer, width of the counts and number of bytes and errors,      *)
(* however long the main loop stalls: type correctness, that the producer  *)
(* count never runs ahead of the DMA nor lags it by more than the events   *)
(* still to come explain, that the reader never takes a byte the DMA has   *)
(* not written in the running reception, and that it takes each byte once  *)
(* and in order while none is overwritten unread.                          *)
(***************************************************************************)
EXTENDS UartReceive, Modular, TLAPS

H == BufferSize \div 2

-----------------------------------------------------------------------------
(* The inductive invariant.                                                *)

TypesInv == TypeOK /\ written <= line

\* Where the reception is up to: a reception that runs was started by the main
\* loop, which listens to it except while it is still starting it.
PhaseInv ==
  /\ initialized <=> pc \notin {"init", "init_check", "init_rest", "init_app", "off"}
  /\ receiving => pc \notin {"init", "off", "restart"}
  /\ receiving /\ pc \notin {"init_check", "check", "set_started"} => started
  /\ pc \in {"restart", "check", "set_started"} => ~started
  /\ pc = "restart" => last_dma_position = 0
  /\ pc = "init_app" => consumed_count = produced_count

\* A reception no event of which has counted: only one that is listened to has
\* been heard, of the others nothing is published, and no more than the lap the
\* DMA is in is remembered.
QuietInv ==
  receiving =>
    /\ heard => Listening
    /\ ~heard =>
         /\ produced_count = epoch.count /\ last_dma_position = 0
         /\ position = written \/ (position = 0 /\ written = BufferSize)
         /\ half => position \in {H, H + 1}
         /\ full => position \in {0, 1}

\* The main loop has met the count of the reception it listens to.
Loop == {"poll", "sync", "take"}

\* Until the first error there is one reception.
FirstInv ==
  errors = 0 =>
    /\ receiving <=> pc # "init"
    /\ ~recovery_requested
    /\ pc \in {"init", "init_check", "init_rest", "init_app"} \union Loop
    /\ epoch.count = 0
    /\ pc = "init" => produced_count = 0

\* The bytes of a reception are numbered with the line's, and until its first
\* byte is read the protocol has only bytes from before it.
StreamInv ==
  /\ receiving => line = epoch.byte + written /\ position = written % BufferSize
  /\ read <= line /\ \A i \in Indices : buffer[i] <= line
  /\ pc \notin ({"restart", "off"} \union Loop) => read <= epoch.byte
  /\ receiving /\ ~heard => read <= epoch.byte

\* The buffer holds the last bytes the DMA wrote.
BufferInv ==
  receiving =>
    \A n \in 0..(written - 1) :
      written <= n + BufferSize => buffer[n % BufferSize] = epoch.byte + n + 1

\* The DMA is lag bytes past the last position that was published: it has
\* passed the middle or the end of the buffer since only if the interrupt of
\* that is pending, and then by one byte at most.
Lag(lag) ==
  /\ half => /\ position \in {H, H + 1}
             /\ last_dma_position <= H
             /\ lag = position - last_dma_position
  /\ full => /\ position \in {0, 1}
             /\ \/ last_dma_position = 0 /\ lag = position
                \/ /\ last_dma_position >= H
                   /\ lag = BufferSize - last_dma_position + position
  /\ ~half /\ ~full => /\ position < H \/ last_dma_position >= H
                       /\ last_dma_position <= position
                       /\ lag = position - last_dma_position

\* The producer count shows pub bytes of the reception.
Shown(pub) ==
  /\ produced_count = Plus(epoch.count, pub)
  /\ heard => written - pub <= H + 1 /\ Lag(written - pub)
  /\ ~heard => pub = 0

\* The reader has passed k bytes of the reception.  Unless the DMA has lapped it,
\* they are still those the protocol was handed, once it was handed any.
Behind(pub, k) ==
  /\ consumed_count = Plus(epoch.count, k)
  /\ pc = "take" => k < pub
  /\ ~lapped /\ Aligned =>
       /\ written - k <= BufferSize
       /\ errors = 0 \/ read > epoch.byte => LastByte = epoch.byte + k

\* The counts are those of the bytes published and of the bytes passed.
ReaderInv ==
  Listening =>
    \E pub \in 0..written :
      Shown(pub) /\ (pc \in Loop => \E k \in 0..pub : Behind(pub, k))

ReadInv ==
  /\ TypesInv /\ PhaseInv /\ QuietInv /\ FirstInv /\ StreamInv /\ BufferInv
  /\ ReaderInv

-----------------------------------------------------------------------------
(* Constants and counts.                                                   *)

\* The middle of the buffer.
LEMMA Middle ==
  /\ H \in Nat \ {0} /\ BufferSize \in Nat \ {0} /\ BufferSize = 2 * H /\ H > 1
  /\ CountModulus \in Nat \ {0} /\ CountModulus > BufferSize
  /\ CountModulus % BufferSize = 0
  /\ MaxBytes \in Nat /\ MaxErrors \in Nat
BY BufferAssumption, CountAssumption, BoundAssumption DEF H

\* A sum of counts is a count.
LEMMA PlusType ==
  ASSUME NEW a \in Nat, NEW b \in Nat
  PROVE  Plus(a, b) \in Counts
<1>1. a + b \in Nat
  OBVIOUS
<1> QED BY <1>1, Middle, ModRange DEF Plus, Counts

\* Bytes are counted in any portions.
LEMMA PlusPlus ==
  ASSUME NEW a \in Nat, NEW b \in Nat, NEW c \in Nat
  PROVE  Plus(Plus(a, b), c) = Plus(a, b + c)
<1> DEFINE d == a + b
<1>1. d \in Int /\ c \in Int /\ CountModulus \in Nat \ {0}
  BY Middle
<1>2. ((d % CountModulus) + c) % CountModulus = (d + c) % CountModulus
  <2> HIDE DEF d
  <2> QED BY <1>1, ModAdd, Zenon
<1>3. d + c = a + (b + c)
  OBVIOUS
<1> QED BY <1>2, <1>3 DEF Plus

\* What a count has grown by, as long as that is less than a whole cycle.
LEMMA MinusPlus ==
  ASSUME NEW a \in Counts, NEW n \in 0..(CountModulus - 1)
  PROVE  Minus(Plus(a, n), a) = n
<1>1. a \in Int /\ a % CountModulus = a
  BY Middle, ModSmall DEF Counts
<1>2. (((a + n) % CountModulus) + CountModulus - (a % CountModulus)) % CountModulus
        = ((a + n) - a) % CountModulus
  BY <1>1, Middle, ModSub, a + n \in Int
<1>3. (a + n) - a = n /\ n % CountModulus = n
  BY <1>1, Middle, ModSmall
<1> QED BY <1>1, <1>2, <1>3 DEF Plus, Minus

\* Counting nothing.
LEMMA PlusZero ==
  ASSUME NEW a \in Counts
  PROVE  Plus(a, 0) = a
<1>1. a \in 0..(CountModulus - 1) /\ a + 0 = a
  BY Middle DEF Counts
<1> QED BY <1>1, Middle, ModSmall DEF Plus

\* The distance of two counts, and what lies a number of bytes before one.
LEMMA MinusCounts ==
  ASSUME NEW e \in Nat, NEW a \in Nat, NEW b \in Nat
  PROVE  /\ Minus(Plus(e, a), Plus(e, b)) = (a - b) % CountModulus
         /\ b < CountModulus /\ b <= a => Minus(Plus(e, a), b) = Plus(e, a - b)
<1> DEFINE x == e + a
           y == e + b
<1>1. x \in Int /\ y \in Int /\ x - y = a - b /\ CountModulus \in Nat \ {0}
  BY Middle
<1>2. Plus(e, a) = x % CountModulus /\ Plus(e, b) = y % CountModulus
  BY DEF Plus
<1>3. ASSUME b < CountModulus, b <= a
      PROVE  /\ b % CountModulus = b /\ x - b = e + (a - b)
             /\ Plus(e, a - b) = (e + (a - b)) % CountModulus
  BY <1>1, <1>3, ModSmall, b \in 0..(CountModulus - 1) DEF Plus
<1> HIDE DEF x, y
<1>4. ((x % CountModulus) + CountModulus - (y % CountModulus)) % CountModulus
        = (x - y) % CountModulus
  BY <1>1, ModSub, Zenon
<1>5. ((x % CountModulus) + CountModulus - (b % CountModulus)) % CountModulus
        = (x - b) % CountModulus
  BY <1>1, ModSub, b \in Int, Zenon
<1>6. Minus(Plus(e, a), Plus(e, b)) = (a - b) % CountModulus
  BY <1>1, <1>2, <1>4 DEF Minus
<1>7. ASSUME b < CountModulus, b <= a PROVE Minus(Plus(e, a), b) = Plus(e, a - b)
  <2>1. Minus(Plus(e, a), b) = ((x % CountModulus) + CountModulus - b) % CountModulus
    BY <1>2 DEF Minus
  <2> QED BY <1>3, <1>5, <1>7, <2>1
<1> QED BY <1>6, <1>7

\* A difference that is not negative is not made greater by wrapping.
LEMMA ModAtMost ==
  ASSUME NEW d \in Nat, NEW m \in Nat \ {0}
  PROVE  d % m <= d /\ d % m \in 0..(m - 1) /\ (d < m => d % m = d)
<1>1. d = m * (d \div m) + (d % m) /\ d % m \in 0..(m - 1)
  BY DivMod, d \in Int
<1>2. d % m <= d
  OBVIOUS
<1>3. d < m => d % m = d
  BY ModSmall
<1> QED BY <1>1, <1>2, <1>3

\* An index into the buffer.
LEMMA IndexType ==
  ASSUME NEW a \in Nat
  PROVE  a % BufferSize \in Indices
BY Middle, ModRange DEF Indices

-----------------------------------------------------------------------------
(* Types.                                                                  *)

\* What a handler does to the backend.
LEMMA EventTypes ==
  ASSUME TypeOK, NEW reported \in Nat, OnRxEvent(reported)
  PROVE  /\ last_dma_position' \in Indices /\ produced_count' \in Counts
         /\ started' = started /\ recovery_requested' = recovery_requested
<1>1. reported % BufferSize \in Indices
  BY IndexType
<1>2. Delta(last_dma_position, reported % BufferSize) \in Nat
  BY <1>1, Middle DEF Delta, Indices, TypeOK
<1>3. produced_count \in Nat
  BY Middle DEF TypeOK, Counts
<1>4. Plus(produced_count, Delta(last_dma_position, reported % BufferSize)) \in Counts
  BY <1>2, <1>3, PlusType
<1> QED BY <1>1, <1>4 DEF OnRxEvent, backend, TypeOK

LEMMA TypesStart == Init => TypesInv
<1> SUFFICES ASSUME Init PROVE TypesInv
  OBVIOUS
<1>1. 0 \in Indices /\ 0 \in Counts
  BY Middle DEF Indices, Counts
<1>2. 0 \in 0..MaxBytes /\ 0 \in 0..MaxErrors
  BY Middle
<1>3. buffer \in [Indices -> 0..MaxBytes]
  BY <1>2 DEF Init
<1>4. epoch \in [byte : 0..MaxBytes, count : Counts]
  BY <1>1, <1>2 DEF Init
<1>5. written <= line
  BY DEF Init
<1>6. /\ position \in Indices /\ last_dma_position \in Indices
      /\ produced_count \in Counts /\ consumed_count \in Counts
      /\ line \in 0..MaxBytes
      /\ errors \in 0..MaxErrors /\ read \in 0..MaxBytes
      /\ written \in 0..MaxBytes
  BY <1>1, <1>2 DEF Init
<1>7. /\ active \in BOOLEAN /\ receiving \in BOOLEAN /\ half \in BOOLEAN
      /\ full \in BOOLEAN /\ idle \in BOOLEAN /\ started \in BOOLEAN
      /\ recovery_requested \in BOOLEAN /\ initialized \in BOOLEAN
      /\ overflowed \in BOOLEAN /\ heard \in BOOLEAN /\ lapped \in BOOLEAN
      /\ pc = "init"
  BY DEF Init
<1> QED BY <1>3, <1>4, <1>5, <1>6, <1>7 DEF TypesInv, TypeOK

LEMMA TypesKept == TypesInv /\ [Next]_vars => TypesInv'
<1> SUFFICES ASSUME TypesInv, [Next]_vars
             PROVE  TypesInv'
  OBVIOUS
<1> USE DEF TypesInv
<1>1. CASE ByteArrives
  <2>1. (position + 1) % BufferSize \in Indices
    <3>1. position + 1 \in Nat
      BY Middle DEF TypeOK, Indices
    <3> QED BY <3>1, IndexType
  <2>2. line' \in 0..MaxBytes /\ line + 1 = line'
    BY <1>1, Middle DEF ByteArrives, TypeOK
  <2>3. CASE receiving
    <3>1. /\ buffer' = [buffer EXCEPT ![position] = line']
          /\ position' = (position + 1) % BufferSize
          /\ half' \in BOOLEAN /\ full' \in BOOLEAN /\ active' \in BOOLEAN
          /\ Remember
      BY <1>1, <2>2, <2>3 DEF ByteArrives, TypeOK
    <3>2. buffer' \in [Indices -> 0..MaxBytes]
      BY <3>1, <2>2 DEF TypeOK
    <3>3. /\ written' \in 0..MaxBytes /\ written' <= line'
          /\ epoch' \in [byte : 0..MaxBytes, count : Counts]
          /\ heard' \in BOOLEAN /\ lapped' \in BOOLEAN
      <4>1. CASE ~heard /\ position = 0
        BY <3>1, <4>1, <2>2, Middle DEF Remember, TypeOK
      <4>2. CASE ~(~heard /\ position = 0)
        <5>1. /\ written' = written + 1 /\ epoch' = epoch /\ heard' = heard
              /\ lapped' = (lapped \/ buffer[position] > LastByte)
          BY <3>1, <4>2 DEF Remember
        <5>2. lapped' \in BOOLEAN
          BY <5>1, Zenon DEF TypeOK
        <5> QED BY <5>1, <5>2, <2>2, Middle DEF TypeOK
      <4> QED BY <4>1, <4>2
    <3> QED BY <1>1, <2>1, <2>2, <3>1, <3>2, <3>3
            DEF ByteArrives, TypeOK, backend, reader
  <2>4. CASE ~receiving
    <3>1. written' = written /\ written' <= line'
      BY <1>1, <2>2, <2>4, Middle DEF ByteArrives, TypeOK, history
    <3> QED BY <1>1, <2>2, <2>4, <3>1 DEF ByteArrives, TypeOK, backend, reader, history
  <2> QED BY <2>3, <2>4
<1>2. CASE LineGoesIdle
  BY <1>2, ZenonT(30) DEF LineGoesIdle, TypeOK, history, backend, reader
<1>e. ASSUME NEW reported \in Nat, OnRxEvent(reported), Hear(reported),
             half' \in BOOLEAN, full' \in BOOLEAN, idle' \in BOOLEAN,
             UNCHANGED <<line, active, receiving, position, buffer, errors>>,
             UNCHANGED <<reader, pc, initialized>>
      PROVE  TypesInv'
  <2>1. /\ last_dma_position' \in Indices /\ produced_count' \in Counts
        /\ started' = started /\ recovery_requested' = recovery_requested
    BY <1>e, EventTypes
  <2>2. heard' \in BOOLEAN
    BY <1>e, Zenon DEF Hear, TypeOK
  <2>3. UNCHANGED <<epoch, written, lapped>>
    BY <1>e DEF Hear
  <2> QED BY <1>e, <2>1, <2>2, <2>3 DEF TypeOK, reader
<1>3. CASE HalfIrq
  <2>1. H \in Nat /\ OnRxEvent(H) /\ Hear(H)
    BY <1>3, Middle DEF HalfIrq, H
  <2> QED BY <1>3, <2>1, <1>e DEF HalfIrq, TypeOK
<1>4. CASE FullIrq
  <2>1. BufferSize \in Nat /\ OnRxEvent(BufferSize) /\ Hear(BufferSize)
    BY <1>4, Middle DEF FullIrq
  <2> QED BY <1>4, <2>1, <1>e DEF FullIrq, TypeOK
<1>5. CASE IdleIrq
  <2> DEFINE at == IF position = 0 THEN BufferSize ELSE position
  <2>1. at \in Nat
    BY Middle DEF TypeOK, Indices
  <2>2. OnRxEvent(at) /\ Hear(at)
    BY <1>5 DEF IdleIrq
  <2> HIDE DEF at
  <2> QED BY <1>5, <2>1, <2>2, <1>e DEF IdleIrq, TypeOK
<1>6. CASE UartError
  <2>1. errors' \in 0..MaxErrors
    BY <1>6, Middle DEF UartError, TypeOK
  <2> QED BY <1>6, <2>1 DEF UartError, OnError, TypeOK, history, backend, reader
<1>7. CASE BackendStart
  <2>1. 0 \in Indices /\ 0 \in 0..MaxBytes /\ 0 <= line
    BY Middle DEF Indices, TypeOK
  <2> QED BY <1>7, <2>1 DEF BackendStart, HalStart, Goto, TypeOK, reader
<1>8. CASE InitCheck
  BY <1>8 DEF InitCheck, Goto, TypeOK, hardware, history, reader
<1>9. CASE InitRest
  BY <1>9 DEF InitRest, Goto, TypeOK, hardware, history, backend
<1>19. CASE InitApp
  BY <1>19 DEF InitApp, TypeOK, hardware, history, backend, reader
<1>10. CASE Poll
  <2>1. 0 \in Indices
    BY Middle DEF Indices
  <2> QED BY <1>10, <2>1 DEF Poll, Goto, TypeOK, history, reader
<1>11. CASE Restart
  <2>1. 0 \in Indices /\ 0 \in 0..MaxBytes /\ 0 <= line
    BY Middle DEF Indices, TypeOK
  <2> QED BY <1>11, <2>1 DEF Restart, HalStart, Goto, TypeOK, backend, reader
<1>12. CASE Check
  BY <1>12 DEF Check, Goto, TypeOK, hardware, history, reader
<1>13. CASE SetStarted
  BY <1>13 DEF SetStarted, Goto, TypeOK, hardware, history, reader
<1>14. CASE ClearRequest
  BY <1>14 DEF ClearRequest, Goto, TypeOK, hardware, history, reader
<1>15. CASE Reset
  BY <1>15 DEF Reset, Goto, TypeOK, hardware, history, backend
<1>16. CASE Sync
  <2>1. Minus(produced_count, BufferSize) \in Counts
    <3>1. produced_count + CountModulus - BufferSize \in Nat
      BY Middle DEF TypeOK, Counts
    <3> QED BY <3>1, Middle, ModRange DEF Minus, Counts
  <2> QED BY <1>16, <2>1 DEF Sync, Goto, TypeOK, hardware, history, backend
<1>17. CASE Take
  <2>a. consumed_count \in Nat
    BY Middle DEF TypeOK, Counts
  <2>1. consumed_count % BufferSize \in Indices /\ Plus(consumed_count, 1) \in Counts
    BY <2>a, IndexType, PlusType
  <2>2. lapped' \in BOOLEAN
    BY <1>17, Zenon DEF Take, CatchUp, TypeOK
  <2> QED BY <1>17, <2>1, <2>2 DEF Take, CatchUp, Goto, TypeOK, hardware, backend
<1>18. CASE UNCHANGED vars
  BY <1>18 DEF vars, hardware, history, backend, reader, TypeOK
<1> QED
  BY <1>1, <1>2, <1>3, <1>4, <1>5, <1>6, <1>7, <1>8, <1>9, <1>10, <1>11,
     <1>12, <1>13, <1>14, <1>15, <1>16, <1>17, <1>18, <1>19
     DEF Next, Interrupt, MainLoop, MainStep

\* Every variable of the DMA, the backend, the transport and the main loop
\* keeps its type, however often the line fails.
THEOREM TypeCorrect == Spec => []TypeOK
<1>1. TypesInv => TypeOK
  BY DEF TypesInv
<1> QED BY <1>1, TypesStart, TypesKept, PTL DEF Spec

-----------------------------------------------------------------------------
(* The phases of a reception.                                              *)

\* Events that do not reach the backend leave it alone.
LEMMA EventIgnored ==
  ASSUME NEW reported, OnRxEvent(reported), ~(initialized /\ started)
  PROVE  UNCHANGED backend
BY DEF OnRxEvent

LEMMA PhaseKept == TypesInv /\ PhaseInv /\ [Next]_vars => PhaseInv'
<1> SUFFICES ASSUME TypesInv, PhaseInv, [Next]_vars
             PROVE  PhaseInv'
  OBVIOUS
<1> USE DEF PhaseInv
<1>e. ASSUME NEW reported \in Nat, OnRxEvent(reported), UNCHANGED <<initialized, pc>>,
             UNCHANGED <<receiving, reader>>
      PROVE  PhaseInv'
  <2>1. started' = started
    BY <1>e, EventTypes DEF TypesInv
  <2>2. ~(initialized /\ started) => UNCHANGED backend
    BY <1>e, EventIgnored
  <2> QED BY <1>e, <2>1, <2>2 DEF backend, reader
<1>1. CASE ByteArrives
  BY <1>1 DEF ByteArrives, backend, reader
<1>2. CASE LineGoesIdle
  BY <1>2 DEF LineGoesIdle, backend, reader
<1>3. CASE HalfIrq
  BY <1>3, <1>e, Middle DEF HalfIrq, H
<1>4. CASE FullIrq
  BY <1>4, <1>e, Middle DEF FullIrq
<1>5. CASE IdleIrq
  <2>1. (IF position = 0 THEN BufferSize ELSE position) \in Nat
    BY Middle DEF TypesInv, TypeOK, Indices
  <2> QED BY <1>5, <2>1, <1>e DEF IdleIrq
<1>6. CASE UartError
  BY <1>6 DEF UartError, OnError, backend, reader
<1>7. CASE BackendStart
  BY <1>7 DEF BackendStart, HalStart, Goto
<1>8. CASE InitCheck
  BY <1>8 DEF InitCheck, Goto, hardware
<1>9. CASE InitRest
  BY <1>9 DEF InitRest, Goto, hardware, backend
<1>19. CASE InitApp
  BY <1>19 DEF InitApp, hardware, backend
<1>10. CASE Poll
  BY <1>10 DEF Poll, Goto
<1>11. CASE Restart
  BY <1>11 DEF Restart, HalStart, Goto, backend
<1>12. CASE Check
  BY <1>12 DEF Check, Goto, hardware
<1>13. CASE SetStarted
  BY <1>13 DEF SetStarted, Goto, hardware
<1>14. CASE ClearRequest
  BY <1>14 DEF ClearRequest, Goto, hardware
<1>15. CASE Reset
  BY <1>15 DEF Reset, Goto, hardware, backend
<1>16. CASE Sync
  BY <1>16 DEF Sync, Goto, hardware, backend
<1>17. CASE Take
  BY <1>17 DEF Take, Goto, hardware, backend
<1>18. CASE UNCHANGED vars
  BY <1>18 DEF vars, hardware, backend, reader
<1> QED
  BY <1>1, <1>2, <1>3, <1>4, <1>5, <1>6, <1>7, <1>8, <1>9, <1>10, <1>11,
     <1>12, <1>13, <1>14, <1>15, <1>16, <1>17, <1>18, <1>19
     DEF Next, Interrupt, MainLoop, MainStep

\* A step of the DMA: where it writes next, and which interrupts are pending then.
LEMMA ByteNext ==
  ASSUME TypesInv, ByteArrives, receiving
  PROVE  /\ position' = IF position + 1 = BufferSize THEN 0 ELSE position + 1
         /\ half => position = H /\ half'
         /\ full => position = 0 /\ full'
         /\ half' => half \/ position + 1 = H
         /\ full' => full \/ position + 1 = BufferSize
         /\ position + 1 = H => half'
         /\ position + 1 = BufferSize => full'
         /\ UNCHANGED <<receiving, errors, backend, reader, pc, initialized>>
         /\ Remember
<1> DEFINE next == IF position + 1 = BufferSize THEN 0 ELSE position + 1
<1>1. next = (position + 1) % BufferSize
  BY Middle, WrapNext DEF TypesInv, TypeOK, Indices
<1>2. /\ position' = next
      /\ half' = (half \/ next = H) /\ full' = (full \/ next = 0)
      /\ half => position = H
      /\ full => position = 0
      /\ UNCHANGED <<receiving, errors, backend, reader, pc, initialized>> /\ Remember
  BY <1>1 DEF ByteArrives, Served, H
<1>3. /\ next = H <=> position + 1 = H
      /\ next = 0 <=> position + 1 = BufferSize
  BY Middle DEF TypesInv, TypeOK, Indices
<1>4. /\ half' <=> half \/ position + 1 = H
      /\ full' <=> full \/ position + 1 = BufferSize
  BY <1>2, <1>3, Zenon
<1> HIDE DEF next
<1> QED BY <1>2, <1>4 DEF next

\* What an event reports, and at which position.
LEMMA Reports ==
  ASSUME TypesInv, Interrupt
  PROVE  \E reported \in Nat, to \in Indices :
           /\ reported % BufferSize = to /\ OnRxEvent(reported) /\ Hear(reported)
           /\ HalfIrq => to = H
           /\ FullIrq => to = 0
           /\ IdleIrq => to = position
<1>1. /\ H \in Nat /\ H % BufferSize = H /\ H \in Indices /\ H > 0
      /\ BufferSize \in Nat /\ BufferSize % BufferSize = 0 /\ 0 \in Indices
  <2>1. 0 \in 0..(BufferSize - 1) /\ 0 + BufferSize = BufferSize
        /\ H \in 0..(BufferSize - 1) /\ BufferSize \in Nat \ {0}
    BY Middle
  <2> QED BY <2>1, Middle, ModSmall DEF Indices
<1>2. position \in 0..(BufferSize - 1) /\ position % BufferSize = position
      /\ position \in Indices
  BY Middle, ModSmall DEF TypesInv, TypeOK, Indices
<1>3. CASE HalfIrq /\ ~FullIrq /\ ~IdleIrq
  <2>1. OnRxEvent(H) /\ Hear(H)
    BY <1>3 DEF HalfIrq, H
  <2> QED BY <1>1, <1>3, <2>1
<1>4. CASE FullIrq /\ ~HalfIrq /\ ~IdleIrq
  <2>1. OnRxEvent(BufferSize) /\ Hear(BufferSize)
    BY <1>4 DEF FullIrq
  <2> QED BY <1>1, <1>4, <2>1
<1>5. CASE IdleIrq /\ ~HalfIrq /\ ~FullIrq
  <2> DEFINE at == IF position = 0 THEN BufferSize ELSE position
  <2>1. at \in Nat /\ at % BufferSize = position
    BY <1>1, <1>2
  <2>2. OnRxEvent(at) /\ Hear(at)
    BY <1>5 DEF IdleIrq
  <2> HIDE DEF at
  <2> QED BY <1>2, <1>5, <2>1, <2>2
<1>6. ~(HalfIrq /\ FullIrq) /\ ~(HalfIrq /\ IdleIrq) /\ ~(FullIrq /\ IdleIrq)
  BY DEF HalfIrq, FullIrq, IdleIrq
<1> QED BY <1>3, <1>4, <1>5, <1>6 DEF Interrupt

LEMMA QuietKept == TypesInv /\ PhaseInv /\ QuietInv /\ [Next]_vars => QuietInv'
<1> SUFFICES ASSUME TypesInv, PhaseInv, QuietInv, [Next]_vars, receiving'
             PROVE  QuietInv'
  BY DEF QuietInv
<1> USE DEF QuietInv, Listening, PhaseInv
<1>1. CASE ByteArrives
  <2>1. receiving
    BY <1>1 DEF ByteArrives
  <2>2. CASE heard
    BY <1>1, <2>1, <2>2, ByteNext DEF Remember, backend
  <2>3. CASE ~heard /\ position = 0
    <3>1. /\ epoch'.count = produced_count' /\ last_dma_position' = 0
          /\ written' = 1 /\ position' = 1 /\ ~heard' /\ ~half'
      BY <1>1, <2>1, <2>3, ByteNext, Middle DEF Remember, backend
    <3> QED BY <3>1
  <2>4. CASE ~heard /\ position # 0
    <3>1. /\ epoch'.count = produced_count' /\ last_dma_position' = 0 /\ ~heard'
          /\ written' = written + 1 /\ position = written
      BY <1>1, <2>1, <2>4, ByteNext DEF Remember, backend
    <3>2. position' = written' \/ (position' = 0 /\ written' = BufferSize)
      BY <1>1, <2>1, <3>1, ByteNext, Middle DEF TypesInv, TypeOK
    <3>3. half' => position' \in {H, H + 1}
      BY <1>1, <2>1, ByteNext, Middle
    <3>4. full' => position' \in {0, 1}
      BY <1>1, <2>1, <2>4, ByteNext, Middle
    <3> QED BY <3>1, <3>2, <3>3, <3>4
  <2> QED BY <2>2, <2>3, <2>4
<1>2. CASE LineGoesIdle
  BY <1>2 DEF LineGoesIdle, history, backend
<1>3. CASE Interrupt
  <2>1. /\ receiving' = receiving /\ position' = position /\ initialized' = initialized
        /\ half' => half
        /\ full' => full
    <3>1. CASE HalfIrq
      BY <3>1 DEF HalfIrq
    <3>2. CASE FullIrq
      BY <3>2 DEF FullIrq
    <3>3. CASE IdleIrq
      BY <3>3 DEF IdleIrq
    <3> QED BY <1>3, <3>1, <3>2, <3>3 DEF Interrupt
  <2>2. PICK reported \in Nat, to \in Indices :
          reported % BufferSize = to /\ OnRxEvent(reported) /\ Hear(reported)
    BY <1>3, Reports
  <2>3. started' = started
    BY <2>2, EventTypes DEF TypesInv
  <2>4. UNCHANGED <<epoch, written>>
    BY <2>2 DEF Hear
  <2>5. heard' <=> heard \/ (initialized /\ started /\ to # last_dma_position)
    BY <2>2, Zenon DEF Hear
  <2>6. CASE heard \/ heard'
    BY <1>3, <2>1, <2>3, <2>5, <2>6
  <2>7. CASE ~heard /\ ~heard'
    <3>1. produced_count' = produced_count /\ last_dma_position' = last_dma_position
      <4>1. CASE ~(initialized /\ started)
        BY <2>2, <4>1, EventIgnored DEF backend
      <4>2. CASE initialized /\ started
        <5>1. to = last_dma_position
          BY <2>5, <2>7, <4>2
        <5>2. Delta(last_dma_position, to) = 0
          BY <5>1 DEF Delta, TypesInv, TypeOK, Indices
        <5>3. Plus(produced_count, 0) = produced_count
          BY PlusZero DEF TypesInv, TypeOK
        <5> QED BY <2>2, <4>2, <5>1, <5>2, <5>3 DEF OnRxEvent
      <4> QED BY <4>1, <4>2
    <3> QED BY <2>1, <2>4, <2>7, <3>1
  <2> QED BY <2>6, <2>7
<1>4. CASE UartError
  BY <1>4 DEF UartError
<1>5. CASE BackendStart \/ Restart
  <2>1. /\ position' = 0 /\ ~half' /\ ~full' /\ ~heard' /\ written' = 0
        /\ epoch'.count = produced_count' /\ last_dma_position' = 0
    BY <1>5 DEF BackendStart, Restart, HalStart, backend
  <2> QED BY <2>1
<1>6. CASE InitCheck
  BY <1>6 DEF InitCheck, Goto, hardware, history
<1>7. CASE InitRest
  BY <1>7 DEF InitRest, Goto, hardware, history, backend
<1>8. CASE InitApp
  BY <1>8 DEF InitApp, hardware, history, backend
<1>9. CASE Poll
  BY <1>9 DEF Poll, Goto, history
<1>10. CASE Check
  BY <1>10 DEF Check, Goto, hardware, history
<1>11. CASE SetStarted
  BY <1>11 DEF SetStarted, Goto, hardware, history
<1>12. CASE ClearRequest
  BY <1>12 DEF ClearRequest, Goto, hardware, history
<1>13. CASE Reset
  BY <1>13 DEF Reset, Goto, hardware, history, backend
<1>14. CASE Sync
  BY <1>14 DEF Sync, Goto, hardware, history, backend
<1>15. CASE Take
  BY <1>15 DEF Take, CatchUp, Goto, hardware, backend
<1>16. CASE UNCHANGED vars
  BY <1>16 DEF vars, hardware, history, backend
<1> QED
  BY <1>1, <1>2, <1>3, <1>4, <1>5, <1>6, <1>7, <1>8, <1>9, <1>10, <1>11,
     <1>12, <1>13, <1>14, <1>15, <1>16 DEF Next, MainLoop, MainStep

-----------------------------------------------------------------------------
(* The bytes of a reception.                                               *)

\* Errors are not forgotten.
LEMMA FirstError ==
  ASSUME TypesInv, [Next]_vars, errors' = 0
  PROVE  errors = 0 /\ ~UartError
<1>1. errors \in Nat
  BY Middle DEF TypesInv, TypeOK
<1>2. ~UartError
  BY <1>1 DEF UartError
<1>3. errors' = errors
  BY <1>2 DEF Next, Interrupt, MainLoop, MainStep, ByteArrives, LineGoesIdle,
        HalfIrq, FullIrq, IdleIrq, BackendStart, HalStart, InitCheck, InitRest, InitApp,
        Poll, Restart, Check, SetStarted, ClearRequest, Reset, Sync, Take,
        vars, hardware
<1> QED BY <1>2, <1>3

\* The steps there are before the first error.
LEMMA FirstSteps ==
  ASSUME TypesInv, FirstInv, [Next]_vars, errors' = 0
  PROVE  \/ ByteArrives \/ LineGoesIdle \/ Interrupt
         \/ BackendStart \/ InitCheck \/ InitRest \/ InitApp
         \/ Poll \/ Sync \/ Take
         \/ UNCHANGED vars
<1>1. errors = 0 /\ ~UartError
  BY FirstError
<1>2. pc \in {"init", "init_check", "init_rest", "init_app", "poll", "sync", "take"}
  BY <1>1 DEF FirstInv, Loop
<1>3. ~Restart /\ ~Check /\ ~SetStarted /\ ~ClearRequest /\ ~Reset
  BY <1>2 DEF Restart, Check, SetStarted, ClearRequest, Reset
<1> QED BY <1>1, <1>3 DEF Next, MainLoop, MainStep

\* An interrupt moves no byte and nothing of the main loop's.
LEMMA InterruptFrame ==
  ASSUME TypesInv, Interrupt
  PROVE  /\ UNCHANGED <<line, receiving, position, buffer, errors, epoch,
                        written, lapped, reader, pc, initialized, started>>
         /\ recovery_requested' = recovery_requested
         /\ heard => heard'
         /\ ~(initialized /\ started) => produced_count' = produced_count
<1>1. PICK reported \in Nat, to \in Indices : OnRxEvent(reported) /\ Hear(reported)
  BY Reports
<1>2. /\ started' = started /\ recovery_requested' = recovery_requested
      /\ ~(initialized /\ started) => produced_count' = produced_count
  BY <1>1, EventTypes, EventIgnored DEF TypesInv, backend
<1>3. UNCHANGED <<epoch, written, lapped>>
  BY <1>1 DEF Hear
<1>4. heard => heard'
  BY <1>1, Zenon DEF Hear
<1>5. UNCHANGED <<line, receiving, position, buffer, errors, reader, pc, initialized>>
  BY DEF Interrupt, HalfIrq, FullIrq, IdleIrq
<1> QED BY <1>2, <1>3, <1>4, <1>5

LEMMA FirstKept ==
  TypesInv /\ PhaseInv /\ QuietInv /\ FirstInv /\ [Next]_vars => FirstInv'
<1> SUFFICES ASSUME TypesInv, PhaseInv, QuietInv, FirstInv, [Next]_vars, errors' = 0
             PROVE  FirstInv'
  BY DEF FirstInv
<1> USE DEF Loop
<1>0. errors = 0
  BY FirstError
<1>1. CASE ByteArrives
  <2>1. UNCHANGED <<receiving, backend, pc>>
    BY <1>1 DEF ByteArrives
  <2>2. CASE receiving
    <3>1. epoch'.count = epoch.count
      BY <1>1, <2>2, ByteNext DEF Remember, QuietInv
    <3> QED BY <1>0, <2>1, <3>1 DEF FirstInv, backend
  <2>3. CASE ~receiving
    BY <1>0, <1>1, <2>1, <2>3 DEF ByteArrives, FirstInv, history, backend
  <2> QED BY <2>2, <2>3
<1>2. CASE LineGoesIdle
  BY <1>0, <1>2 DEF LineGoesIdle, FirstInv, history, backend
<1>3. CASE Interrupt
  <2>1. pc = "init" => ~initialized
    BY DEF PhaseInv
  <2> QED BY <1>0, <1>3, <2>1, InterruptFrame DEF FirstInv
<1>4. CASE BackendStart
  <2>1. /\ receiving' /\ pc' = "init_check" /\ recovery_requested' = FALSE
        /\ epoch' = [byte |-> line, count |-> produced_count]
    BY <1>4 DEF BackendStart, HalStart, Goto
  <2>2. produced_count = 0
    BY <1>0, <1>4 DEF BackendStart, FirstInv
  <2> QED BY <2>1, <2>2 DEF FirstInv
<1>5. CASE InitCheck
  BY <1>0, <1>5 DEF InitCheck, Goto, FirstInv, hardware, history
<1>6. CASE InitRest
  BY <1>0, <1>6 DEF InitRest, Goto, FirstInv, hardware, history, backend
<1>11. CASE InitApp
  BY <1>0, <1>11 DEF InitApp, FirstInv, hardware, history, backend
<1>7. CASE Poll
  BY <1>0, <1>7 DEF Poll, Goto, FirstInv, history
<1>8. CASE Sync
  BY <1>0, <1>8 DEF Sync, Goto, FirstInv, hardware, history, backend
<1>9. CASE Take
  BY <1>0, <1>9 DEF Take, CatchUp, Goto, FirstInv, hardware, backend
<1>10. CASE UNCHANGED vars
  BY <1>0, <1>10 DEF vars, FirstInv, hardware, history, backend
<1> QED BY <1>1, <1>2, <1>3, <1>4, <1>5, <1>6, <1>7, <1>8, <1>9, <1>10, <1>11,
       FirstSteps

\* Where the DMA begins.
LEMMA StreamStarts ==
  ASSUME TypesInv, StreamInv, HalStart, UNCHANGED read
  PROVE  /\ receiving' /\ written' = 0 /\ line' = line /\ buffer' = buffer
         /\ line' = epoch'.byte + written' /\ position' = written' % BufferSize
         /\ read' <= line' /\ read' <= epoch'.byte /\ ~heard'
<1>1. 0 % BufferSize = 0
  BY Middle, ModSmall, 0 \in 0..(BufferSize - 1)
<1>2. line = line + 0
  BY Middle DEF TypesInv, TypeOK
<1> QED BY <1>1, <1>2 DEF HalStart, StreamInv

\* Nothing is read of a reception before an event of it has counted.
LEMMA TakeHeard ==
  ASSUME TypesInv, PhaseInv, ReaderInv, Take, receiving
  PROVE  Listening /\ heard
<1>1. Listening /\ pc = "take"
  BY DEF Take, PhaseInv, Listening
<1>p. PICK pub \in 0..written : Shown(pub) /\ \E k \in 0..pub : Behind(pub, k)
  BY <1>1 DEF ReaderInv, Loop
<1>2. PICK k \in 0..pub : Behind(pub, k)
  BY <1>p
<1>3. k < pub /\ written \in Nat
  BY <1>1, <1>2, Middle DEF Behind, TypesInv, TypeOK
<1>4. pub # 0
  BY <1>3
<1> QED BY <1>1, <1>p, <1>4 DEF Shown

LEMMA StreamKept ==
  TypesInv /\ PhaseInv /\ StreamInv /\ ReaderInv /\ [Next]_vars => StreamInv'
<1> SUFFICES ASSUME TypesInv, PhaseInv, StreamInv, ReaderInv, [Next]_vars
             PROVE  StreamInv'
  OBVIOUS
<1> USE DEF Loop
<1>0. /\ line \in Nat /\ read \in Nat /\ written \in Nat /\ epoch.byte \in Nat
      /\ \A i \in Indices : buffer[i] \in Nat
  BY Middle DEF TypesInv, TypeOK
<1>1. CASE ByteArrives
  <2>1. line' = line + 1 /\ UNCHANGED <<receiving, read, pc>>
    BY <1>1 DEF ByteArrives, reader
  <2>2. CASE ~receiving
    BY <1>0, <1>1, <2>1, <2>2 DEF ByteArrives, StreamInv, history
  <2>3. CASE receiving
    <3>1. \A i \in Indices : buffer'[i] <= line'
      BY <1>0, <1>1, <2>1, <2>3 DEF ByteArrives, StreamInv, TypesInv, TypeOK
    <3>2. position' = (position + 1) % BufferSize /\ Remember
      BY <1>1, <2>3 DEF ByteArrives
    <3>3. position = written % BufferSize /\ line = epoch.byte + written /\ read <= line
      BY <2>3 DEF StreamInv
    <3>4. CASE ~heard /\ position = 0
      <4>1. epoch'.byte = line /\ written' = 1 /\ position' = 1 % BufferSize
        BY <3>2, <3>4 DEF Remember
      <4> QED BY <1>0, <2>1, <2>3, <3>1, <3>3, <4>1 DEF StreamInv
    <3>5. CASE ~(~heard /\ position = 0)
      <4>1. epoch' = epoch /\ written' = written + 1 /\ heard' = heard
        BY <3>2, <3>5 DEF Remember
      <4>2. (position + 1) % BufferSize = (written + 1) % BufferSize
        BY <1>0, <3>3, Middle, ModSucc, written \in Int
      <4> QED BY <1>0, <2>1, <2>3, <3>1, <3>2, <3>3, <4>1, <4>2 DEF StreamInv
    <3> QED BY <3>4, <3>5
  <2> QED BY <2>2, <2>3
<1>2. CASE LineGoesIdle
  BY <1>2 DEF LineGoesIdle, StreamInv, history, reader
<1>3. CASE Interrupt
  BY <1>3, InterruptFrame DEF StreamInv, reader
<1>4. CASE UartError
  BY <1>4 DEF UartError, StreamInv, history, reader
<1>5. CASE BackendStart \/ Restart
  <2>1. HalStart /\ UNCHANGED read
    BY <1>5 DEF BackendStart, Restart, reader
  <2> QED BY <2>1, StreamStarts DEF StreamInv
<1>6. CASE \/ InitCheck \/ InitRest \/ InitApp \/ Check \/ SetStarted \/ ClearRequest
           \/ Reset \/ Sync
  BY <1>6 DEF InitCheck, InitRest, InitApp, Check, SetStarted, ClearRequest, Reset,
        Sync, Goto, StreamInv, hardware, history, reader
<1>7. CASE Poll
  BY <1>7 DEF Poll, Goto, StreamInv, history, reader
<1>8. CASE Take
  <2>a. consumed_count \in Nat
    BY Middle DEF TypesInv, TypeOK, Counts
  <2>1. consumed_count % BufferSize \in Indices
    BY <2>a, IndexType
  <2>2. UNCHANGED <<hardware, epoch, written, heard>> /\ pc' = "sync"
        /\ read' = buffer[consumed_count % BufferSize]
    BY <1>8 DEF Take, CatchUp, Goto
  <2>3. receiving => heard
    BY <1>8, TakeHeard
  <2> QED BY <2>1, <2>2, <2>3 DEF StreamInv, hardware
<1>9. CASE UNCHANGED vars
  BY <1>9 DEF vars, StreamInv, hardware, history, reader
<1> QED BY <1>1, <1>2, <1>3, <1>4, <1>5, <1>6, <1>7, <1>8, <1>9
        DEF Next, MainLoop, MainStep

LEMMA BufferKept ==
  TypesInv /\ StreamInv /\ BufferInv /\ [Next]_vars => BufferInv'
<1> SUFFICES ASSUME TypesInv, StreamInv, BufferInv, [Next]_vars, receiving',
                    NEW n \in 0..(written' - 1), written' <= n + BufferSize
             PROVE  buffer'[n % BufferSize] = epoch'.byte + n + 1
  BY DEF BufferInv
<1>0. written \in Nat /\ BufferSize \in Nat \ {0}
  BY Middle DEF TypesInv, TypeOK
<1>1. ASSUME receiving, UNCHANGED <<buffer, written, epoch>>
      PROVE  buffer'[n % BufferSize] = epoch'.byte + n + 1
  BY <1>1 DEF BufferInv
<1>2. CASE ByteArrives
  <2>1. receiving /\ Remember /\ buffer' = [buffer EXCEPT ![position] = line + 1]
    BY <1>2 DEF ByteArrives
  <2>a. CASE ~heard /\ position = 0
    <3>1. epoch'.byte = line /\ written' = 1 /\ n = 0
      BY <2>1, <2>a DEF Remember
    <3>2. buffer'[0] = line + 1 /\ n % BufferSize = 0
      BY <2>1, <2>a, <3>1, Middle, ModSmall, 0 \in 0..(BufferSize - 1)
         DEF TypesInv, TypeOK, Indices
    <3> QED BY <3>1, <3>2, Middle DEF TypesInv, TypeOK
  <2>b. CASE ~(~heard /\ position = 0)
    <3>1. receiving /\ written' = written + 1 /\ epoch' = epoch
          /\ buffer' = [buffer EXCEPT ![position] = line + 1]
      BY <2>1, <2>b DEF Remember
    <3>2. position = written % BufferSize /\ line = epoch.byte + written
      BY <3>1 DEF StreamInv
    <3>3. n \in 0..written /\ n \in Nat /\ n % BufferSize \in Indices
      BY <1>0, <3>1, IndexType
    <3>4. CASE n = written
      <4>1. buffer'[n % BufferSize] = line + 1
        BY <3>1, <3>2, <3>3, <3>4 DEF TypesInv, TypeOK
      <4>2. line + 1 = epoch.byte + n + 1
        BY <3>2, <3>4
      <4> QED BY <3>1, <4>1, <4>2
    <3>5. CASE n # written
      <4>1. n \in 0..(written - 1) /\ n < written /\ written - n < BufferSize
            /\ written <= n + BufferSize /\ n \in Int /\ written \in Int
        BY <1>0, <3>1, <3>3, <3>5
      <4>2. n % BufferSize # written % BufferSize
        BY <1>0, <4>1, ModWindow
      <4>3. buffer'[n % BufferSize] = buffer[n % BufferSize]
        BY <3>1, <3>2, <3>3, <4>2 DEF TypesInv, TypeOK
      <4>4. buffer[n % BufferSize] = epoch.byte + n + 1
        BY <3>1, <4>1 DEF BufferInv
      <4> QED BY <3>1, <4>3, <4>4
    <3> QED BY <3>4, <3>5
  <2> QED BY <2>a, <2>b
<1>3. CASE LineGoesIdle
  BY <1>1, <1>3 DEF LineGoesIdle, history
<1>4. CASE Interrupt
  BY <1>1, <1>4, InterruptFrame
<1>5. CASE UartError
  BY <1>5 DEF UartError
<1>6. CASE BackendStart \/ Restart
  BY <1>6 DEF BackendStart, Restart, HalStart
<1>7. CASE \/ InitCheck \/ InitRest \/ InitApp \/ Check \/ SetStarted \/ ClearRequest
           \/ Reset \/ Sync \/ Take \/ UNCHANGED vars
  BY <1>1, <1>7 DEF InitCheck, InitRest, InitApp, Check, SetStarted, ClearRequest, Reset,
        Sync, Take, CatchUp, vars, hardware, history
<1>8. CASE Poll
  <2>1. receiving
    BY <1>8 DEF Poll
  <2> QED BY <1>1, <1>8, <2>1 DEF Poll, history
<1> QED BY <1>2, <1>3, <1>4, <1>5, <1>6, <1>7, <1>8 DEF Next, MainLoop, MainStep

-----------------------------------------------------------------------------
(* What is published of a reception.                                       *)

\* A byte the DMA writes adds one to the lag.
LEMMA LagByte ==
  ASSUME TypesInv, ByteArrives, receiving, NEW lag \in 0..(H + 1), Lag(lag)
  PROVE  lag + 1 \in 0..(H + 1) /\ Lag(lag + 1)'
<1>1. H > 1 /\ BufferSize = 2 * H /\ H \in Nat
  BY Middle
<1>2. position \in 0..(BufferSize - 1) /\ last_dma_position \in 0..(BufferSize - 1)
  BY DEF TypesInv, TypeOK, Indices
<1> DEFINE next == IF position + 1 = BufferSize THEN 0 ELSE position + 1
<1>3. next = (position + 1) % BufferSize
  BY <1>2, Middle, WrapNext
<1>4. /\ position' = next /\ last_dma_position' = last_dma_position
      /\ half' = (half \/ next = H) /\ full' = (full \/ next = 0)
      /\ half => position = H
      /\ full => position = 0
  BY <1>3 DEF ByteArrives, Served, backend, H
<1>5. CASE half
  <2>1. position = H /\ lag = H - last_dma_position /\ last_dma_position <= H
    BY <1>4, <1>5 DEF Lag
  <2>2. next = H + 1 /\ next # 0 /\ ~full
    BY <1>1, <1>4, <2>1
  <2>3. half' /\ ~full'
    BY <1>4, <1>5, <2>2, Zenon
  <2> QED BY <1>1, <1>2, <1>4, <2>1, <2>2, <2>3 DEF Lag
<1>6. CASE full
  <2>1. /\ position = 0
        /\ \/ last_dma_position = 0 /\ lag = 0
           \/ last_dma_position >= H /\ lag = BufferSize - last_dma_position
    BY <1>1, <1>2, <1>4, <1>6 DEF Lag
  <2>2. next = 1 /\ next # H /\ ~half
    BY <1>1, <1>4, <2>1
  <2>3. ~half' /\ full'
    BY <1>4, <1>6, <2>2, Zenon
  <2> QED BY <1>1, <1>2, <1>4, <2>1, <2>2, <2>3 DEF Lag
<1>7. CASE ~half /\ ~full
  <2>1. /\ position < H \/ last_dma_position >= H
        /\ last_dma_position <= position /\ lag = position - last_dma_position
    BY <1>7 DEF Lag
  <2>2. (half' <=> next = H) /\ (full' <=> next = 0)
    BY <1>4, <1>7, Zenon
  <2>3. CASE next = 0
    <3>1. ~half' /\ full'
      <4>1. next # H
        BY <1>1, <2>3
      <4> QED BY <2>2, <2>3, <4>1, Zenon
    <3>2. /\ last_dma_position >= H /\ lag + 1 = BufferSize - last_dma_position
          /\ position' = 0
      BY <1>1, <1>2, <1>4, <2>1, <2>3
    <3> QED BY <1>1, <1>2, <1>4, <3>1, <3>2 DEF Lag
  <2>4. CASE next = H
    <3>1. half' /\ ~full'
      <4>1. next # 0
        BY <1>1, <2>4
      <4> QED BY <2>2, <2>4, <4>1, Zenon
    <3>2. /\ last_dma_position <= H /\ lag + 1 = H - last_dma_position
          /\ position' = H
      BY <1>1, <1>2, <1>4, <2>1, <2>4
    <3> QED BY <1>1, <1>2, <1>4, <3>1, <3>2 DEF Lag
  <2>5. CASE next # 0 /\ next # H
    <3>1. ~half' /\ ~full'
      BY <2>2, <2>5
    <3>2. /\ position' = position + 1
          /\ position + 1 < H \/ last_dma_position >= H
          /\ position + 1 < BufferSize
      BY <1>1, <1>2, <1>4, <2>1, <2>5
    <3> QED BY <1>1, <1>2, <1>4, <2>1, <3>1, <3>2 DEF Lag
  <2> QED BY <2>3, <2>4, <2>5
<1> QED BY <1>5, <1>6, <1>7

\* An interrupt takes from the lag what it publishes.
LEMMA LagHalf ==
  ASSUME TypesInv, HalfIrq, last_dma_position' = H,
         NEW lag \in 0..(H + 1), Lag(lag),
         NEW rest \in Int, rest = lag - Delta(last_dma_position, H)
  PROVE  rest \in 0..lag /\ Lag(rest)'
<1>1. H > 1 /\ BufferSize = 2 * H /\ H \in Nat
  BY Middle
<1>2. position \in 0..(BufferSize - 1) /\ last_dma_position \in 0..(BufferSize - 1)
  BY DEF TypesInv, TypeOK, Indices
<1>3. /\ position \in {H, H + 1} /\ last_dma_position <= H
      /\ lag = position - last_dma_position /\ ~full
  BY <1>1, <1>2 DEF HalfIrq, Lag
<1>4. ~half' /\ ~full' /\ position' = position
  BY <1>3 DEF HalfIrq
<1>5. Delta(last_dma_position, H) = H - last_dma_position
  BY <1>2, <1>3 DEF Delta
<1>6. rest = position - H
  BY <1>1, <1>2, <1>3, <1>5
<1> QED BY <1>1, <1>2, <1>3, <1>4, <1>6 DEF Lag

LEMMA LagFull ==
  ASSUME TypesInv, FullIrq, last_dma_position' = 0,
         NEW lag \in 0..(H + 1), Lag(lag),
         NEW rest \in Int, rest = lag - Delta(last_dma_position, 0)
  PROVE  rest \in 0..lag /\ Lag(rest)'
<1>1. H > 1 /\ BufferSize = 2 * H /\ H \in Nat
  BY Middle
<1>2. position \in 0..(BufferSize - 1) /\ last_dma_position \in 0..(BufferSize - 1)
  BY DEF TypesInv, TypeOK, Indices
<1>3. /\ position \in {0, 1} /\ ~half
      /\ \/ last_dma_position = 0 /\ lag = position
         \/ /\ last_dma_position >= H
            /\ lag = BufferSize - last_dma_position + position
  BY <1>1, <1>2 DEF FullIrq, Lag
<1>4. ~half' /\ ~full' /\ position' = position
  BY <1>3 DEF FullIrq
<1>5. rest = position
  BY <1>1, <1>2, <1>3 DEF Delta
<1> QED BY <1>1, <1>2, <1>3, <1>4, <1>5 DEF Lag

LEMMA LagIdle ==
  ASSUME TypesInv, IdleIrq, last_dma_position' = position,
         NEW lag \in 0..(H + 1), Lag(lag),
         NEW rest \in Int, rest = lag - Delta(last_dma_position, position)
  PROVE  rest \in 0..lag /\ Lag(rest)'
<1>1. H > 1 /\ BufferSize = 2 * H /\ H \in Nat
  BY Middle
<1>2. position \in 0..(BufferSize - 1) /\ last_dma_position \in 0..(BufferSize - 1)
  BY DEF TypesInv, TypeOK, Indices
<1>3. /\ half' = half /\ full' = full /\ position' = position
      /\ half => position = H
      /\ full => position = 0
  BY DEF IdleIrq, Served, H
<1>4. rest = 0
  <2>1. CASE half
    BY <1>1, <1>2, <1>3, <2>1 DEF Lag, Delta
  <2>2. CASE full
    BY <1>1, <1>2, <1>3, <2>2 DEF Lag, Delta
  <2>3. CASE ~half /\ ~full
    BY <1>1, <1>2, <2>3 DEF Lag, Delta
  <2> QED BY <2>1, <2>2, <2>3
<1> QED BY <1>1, <1>2, <1>3, <1>4 DEF Lag

\* An event that counts, once one has counted.
LEMMA LagEvent ==
  ASSUME TypesInv, Interrupt, Listening, NEW lag \in 0..(H + 1), Lag(lag)
  PROVE  \E d \in 0..lag : produced_count' = Plus(produced_count, d) /\ Lag(lag - d)'
<1>1. PICK reported \in Nat, to \in Indices :
        /\ reported % BufferSize = to /\ OnRxEvent(reported)
        /\ HalfIrq => to = H
        /\ FullIrq => to = 0
        /\ IdleIrq => to = position
  BY Reports
<1>2. /\ last_dma_position' = to
      /\ produced_count' = Plus(produced_count, Delta(last_dma_position, to))
  BY <1>1 DEF OnRxEvent, Listening
<1>3. lag \in Int /\ Delta(last_dma_position, to) \in Int
  BY Middle DEF Delta, Indices, TypesInv, TypeOK
<1>4. PICK rest \in Int : rest = lag - Delta(last_dma_position, to)
  BY <1>3
<1>5. rest \in 0..lag /\ Lag(rest)'
  <2>1. CASE HalfIrq
    BY <1>1, <1>2, <1>4, <2>1, LagHalf
  <2>2. CASE FullIrq
    BY <1>1, <1>2, <1>4, <2>2, LagFull
  <2>3. CASE IdleIrq
    BY <1>1, <1>2, <1>4, <2>3, LagIdle
  <2> QED BY <2>1, <2>2, <2>3 DEF Interrupt
<1>6. PICK d \in 0..lag : d = lag - rest
  BY <1>3, <1>5
<1>7. d = Delta(last_dma_position, to) /\ lag - d = rest
  BY <1>3, <1>4, <1>5, <1>6
<1> QED BY <1>2, <1>5, <1>7

\* The first event that counts.
LEMMA FirstEvent ==
  ASSUME TypesInv, QuietInv, Interrupt, Listening, ~heard
  PROVE  \/ ~heard' /\ produced_count' = produced_count
         \/ heard' /\ \E d \in 0..written :
              /\ produced_count' = Plus(produced_count, d)
              /\ written - d <= H + 1 /\ Lag(written - d)'
<1>1. PICK reported \in Nat, to \in Indices :
        /\ reported % BufferSize = to /\ OnRxEvent(reported) /\ Hear(reported)
        /\ HalfIrq => to = H
        /\ FullIrq => to = 0
        /\ IdleIrq => to = position
  BY Reports
<1>2. /\ last_dma_position' = to
      /\ produced_count' = Plus(produced_count, Delta(last_dma_position, to))
      /\ heard' <=> to # last_dma_position
  BY <1>1, Zenon DEF OnRxEvent, Hear, Listening
<1>3. /\ last_dma_position = 0
      /\ position = written \/ (position = 0 /\ written = BufferSize)
      /\ half => position \in {H, H + 1}
      /\ full => position \in {0, 1}
  BY DEF QuietInv, Listening
<1>4. Delta(last_dma_position, to) = to
  BY <1>3, Middle DEF Delta, Indices
<1>5. /\ H \in Nat /\ H > 1 /\ BufferSize = 2 * H /\ written \in Nat
      /\ position \in 0..(BufferSize - 1)
  BY Middle DEF TypesInv, TypeOK, Indices
<1>0. written' = written
  BY InterruptFrame
<1>6. CASE to = 0
  <2>1. Plus(produced_count, 0) = produced_count
    BY PlusZero DEF TypesInv, TypeOK
  <2> QED BY <1>2, <1>3, <1>4, <1>6, <2>1
<1>7. CASE to # 0 /\ HalfIrq
  <2>1. to = H /\ position \in {H, H + 1} /\ position = written /\ ~full
    BY <1>1, <1>3, <1>5, <1>7 DEF HalfIrq
  <2>2. ~half' /\ ~full' /\ position' = position
    BY <1>7, <2>1 DEF HalfIrq
  <2>3. H \in 0..written /\ written - H <= H + 1
    BY <1>5, <2>1
  <2>4. /\ last_dma_position' = H /\ written - H = position' - last_dma_position'
        /\ last_dma_position' >= H /\ last_dma_position' <= position'
    BY <1>2, <1>5, <2>1, <2>2
  <2>5. Lag(written - H)'
    BY <1>0, <2>2, <2>4 DEF Lag
  <2> QED BY <1>2, <1>3, <1>4, <1>7, <2>1, <2>3, <2>5
<1>8. CASE to # 0 /\ IdleIrq
  <2>1. to = position /\ position = written
    BY <1>1, <1>3, <1>8
  <2>2. /\ half' = half /\ full' = full /\ position' = position
        /\ half => position = H
        /\ full => position = 0
    BY <1>8 DEF IdleIrq, Served, H
  <2>3. written \in 0..written /\ written - written = 0
    BY <1>5
  <2>4. Lag(0)'
    BY <1>2, <1>5, <1>8, <2>1, <2>2 DEF Lag
  <2>5. heard' /\ produced_count' = Plus(produced_count, written)
    BY <1>2, <1>3, <1>4, <1>8, <2>1
  <2>6. PICK d \in 0..written : d = written
    BY <2>3
  <2>7. /\ heard' /\ produced_count' = Plus(produced_count, d)
        /\ written - d <= H + 1 /\ Lag(written - d)'
    BY <1>0, <1>5, <2>4, <2>5, <2>6
  <2> QED BY <2>6, <2>7
<1>9. CASE to # 0 /\ FullIrq
  BY <1>1, <1>9
<1> QED BY <1>6, <1>7, <1>8, <1>9 DEF Interrupt

\* A byte the DMA writes leaves the producer count, and an event advances it to no
\* more than is written.
LEMMA ShownByte ==
  ASSUME TypesInv, QuietInv, ByteArrives, Listening, NEW pub \in 0..written, Shown(pub)
  PROVE  pub \in 0..written' /\ Shown(pub)'
<1>1. Remember /\ produced_count' = produced_count /\ receiving
  BY ByteNext DEF backend, Listening
<1>2. written \in Nat /\ epoch.count \in Counts /\ pub \in Nat /\ H \in Nat
  BY Middle DEF TypesInv, TypeOK
<1>3. CASE heard
  <2>1. written' = written + 1 /\ epoch' = epoch /\ heard'
    BY <1>1, <1>3 DEF Remember
  <2>2. PICK lag \in 0..(H + 1) : lag = written - pub
    BY <1>2, <1>3 DEF Shown
  <2>3. lag + 1 \in 0..(H + 1) /\ Lag(lag + 1)'
    BY <1>1, <1>3, <2>2, LagByte DEF Shown
  <2>4. written' - pub = lag + 1
    BY <1>2, <2>1, <2>2
  <2>5. pub \in 0..written'
    BY <1>2, <2>1
  <2>6. written' - pub <= H + 1 /\ Lag(written - pub)'
    BY <2>2, <2>3, <2>4, <1>2
  <2> QED BY <1>1, <2>1, <2>5, <2>6 DEF Shown, Plus
<1>4. CASE ~heard
  <2>1. produced_count = epoch.count /\ pub = 0
    BY <1>4 DEF Shown, QuietInv, Listening
  <2>2. epoch'.count = produced_count' /\ written' \in Nat /\ ~heard'
    BY <1>1, <1>2, <1>4, <2>1 DEF Remember
  <2>3. Plus(epoch.count, 0) = epoch.count
    BY <1>2, PlusZero
  <2> QED BY <1>1, <2>1, <2>2, <2>3 DEF Shown, Plus
<1> QED BY <1>3, <1>4

LEMMA ShownEvent ==
  ASSUME TypesInv, QuietInv, Interrupt, Listening, NEW pub \in 0..written, Shown(pub)
  PROVE  \E more \in pub..written' : Shown(more)'
<1>1. /\ written \in Nat /\ epoch.count \in Nat /\ pub \in Nat /\ H \in Nat
      /\ written' = written /\ epoch' = epoch /\ (heard => heard')
  BY Middle, InterruptFrame DEF TypesInv, TypeOK, Counts
<1>2. ASSUME NEW d \in 0..(written - pub), produced_count' = Plus(produced_count, d),
             written - (pub + d) <= H + 1, Lag(written - (pub + d))',
             heard \/ pub = 0, heard'
      PROVE  \E more \in pub..written' : Shown(more)'
  <2> DEFINE more == pub + d
  <2>1. more \in pub..written' /\ d \in Nat
    BY <1>1
  <2>2. produced_count' = Plus(epoch.count, more)
    BY <1>1, <1>2, <2>1, PlusPlus DEF Shown
  <2>3. Shown(more)'
    <3> HIDE DEF more
    <3> USE DEF Plus
    <3>1. written' - more <= H + 1 /\ Lag(written - more)'
      BY <1>1, <1>2 DEF more
    <3> QED BY <1>1, <1>2, <2>2, <3>1 DEF Shown
  <2> QED BY <2>1, <2>3
<1>3. CASE heard
  <2>1. PICK lag \in 0..(H + 1) : lag = written - pub
    BY <1>1, <1>3 DEF Shown
  <2>2. PICK d \in 0..lag : produced_count' = Plus(produced_count, d) /\ Lag(lag - d)'
    BY <1>3, <2>1, LagEvent DEF Shown
  <2>3. d \in 0..(written - pub) /\ lag - d = written - (pub + d)
        /\ written - (pub + d) <= H + 1
    BY <1>1, <2>1, <2>2
  <2>4. Lag(written - (pub + d))'
    BY <1>1, <2>2, <2>3
  <2> QED BY <1>1, <1>2, <1>3, <2>2, <2>3, <2>4
<1>4. CASE ~heard
  <2>1. pub = 0
    BY <1>4 DEF Shown
  <2>2. CASE ~heard' /\ produced_count' = produced_count
    <3>1. Shown(0)' /\ 0 \in pub..written'
      BY <1>1, <2>1, <2>2 DEF Shown, Plus
    <3> QED BY <3>1
  <2>3. ASSUME heard', NEW d \in 0..written,
               produced_count' = Plus(produced_count, d),
               written - d <= H + 1, Lag(written - d)'
        PROVE  \E more \in pub..written' : Shown(more)'
    <3>1. d \in 0..(written - pub) /\ pub + d = d
      BY <1>1, <2>1
    <3> QED BY <1>2, <2>1, <2>3, <3>1
  <2> QED BY <1>4, <2>2, <2>3, FirstEvent
<1> QED BY <1>3, <1>4

-----------------------------------------------------------------------------
(* The reader.                                                             *)

\* What a step has to show that may leave the composition listening.
LEMMA ReaderRests ==
  ASSUME Listening' => \E pub \in 0..written' :
                         /\ Shown(pub)'
                         /\ pc' \in Loop => \E k \in 0..pub : Behind(pub, k)'
  PROVE  ReaderInv'
BY DEF ReaderInv

\* Unless a byte arrives, or an interrupt counts, only the main loop moves.
LEMMA ShownFrame ==
  ASSUME NEW pub, Shown(pub),
         UNCHANGED <<position, half, full, epoch, written, heard, produced_count,
                     last_dma_position>>
  PROVE  Shown(pub)'
BY DEF Shown, Lag, Plus

\* A reception no event of which has counted shows nothing, and has lost nothing.
LEMMA QuietShown ==
  ASSUME TypesInv, QuietInv, receiving, ~heard
  PROVE  /\ Shown(0) /\ written <= BufferSize /\ 0 \in 0..written
         /\ produced_count = Plus(epoch.count, 0)
<1>1. produced_count = epoch.count /\ epoch.count \in Counts
  BY DEF QuietInv, TypesInv, TypeOK
<1>2. Plus(epoch.count, 0) = epoch.count
  BY <1>1, PlusZero
<1>3. written <= BufferSize /\ 0 \in 0..written
  BY Middle DEF QuietInv, TypesInv, TypeOK, Indices
<1> QED BY <1>1, <1>2, <1>3 DEF Shown

\* How far the DMA may be past what is published.
LEMMA ShownLag ==
  ASSUME TypesInv, QuietInv, Listening, NEW pub \in 0..written, Shown(pub)
  PROVE  written - pub <= BufferSize /\ (heard => written - pub < BufferSize)
<1>1. written \in Nat /\ H \in Nat /\ H > 1 /\ BufferSize = 2 * H
  BY Middle DEF TypesInv, TypeOK
<1>2. CASE heard
  BY <1>1, <1>2 DEF Shown
<1>3. CASE ~heard
  BY <1>1, <1>3, QuietShown DEF Shown, Listening
<1> QED BY <1>2, <1>3

\* The place in the buffer that the DMA comes to holds the byte it wrote there last.
LEMMA Overwritten ==
  ASSUME TypesInv, StreamInv, BufferInv, receiving, written >= BufferSize
  PROVE  buffer[position] = epoch.byte + (written - BufferSize) + 1
<1> DEFINE n == written - BufferSize
<1>1. written \in Int /\ BufferSize \in Nat \ {0} /\ n \in 0..(written - 1)
      /\ written <= n + BufferSize /\ n = written + BufferSize * (-1)
  BY Middle DEF TypesInv, TypeOK
<1>2. n % BufferSize = position
  BY <1>1, ModPlusMultiple, -1 \in Int DEF StreamInv
<1> HIDE DEF n
<1>3. buffer[n % BufferSize] = epoch.byte + n + 1
  BY <1>1 DEF BufferInv
<1> QED BY <1>2, <1>3 DEF n

LEMMA BehindByte ==
  ASSUME TypesInv, StreamInv, BufferInv, ByteArrives, Listening,
         NEW pub \in 0..written, Shown(pub), NEW k \in 0..pub, Behind(pub, k),
         epoch' = epoch, written' = written + 1,
         lapped' = (lapped \/ buffer[position] > LastByte)
  PROVE  Behind(pub, k)'
<1>1. receiving /\ UNCHANGED <<reader, pc, errors>>
  BY ByteNext DEF Listening
<1>2. /\ written \in Nat /\ k \in Nat /\ epoch.byte \in Nat /\ read \in Nat
      /\ BufferSize \in Nat
  BY Middle DEF TypesInv, TypeOK
<1>3. ASSUME ~lapped', Aligned'
      PROVE  /\ written' - k <= BufferSize
             /\ (errors = 0 \/ read > epoch.byte => LastByte = epoch.byte + k)'
  <2>1. ~lapped /\ Aligned /\ ~(buffer[position] > LastByte)
    BY <1>3 DEF Aligned
  <2>2. errors = 0 \/ read > epoch.byte => LastByte = epoch.byte + k
    BY <2>1 DEF Behind
  <2>3. written + 1 - k <= BufferSize
    <3>1. CASE written < BufferSize
      BY <1>2, <3>1
    <3>2. CASE written >= BufferSize
      <4>1. buffer[position] = epoch.byte + (written - BufferSize) + 1
        BY <1>1, <3>2, Overwritten
      <4>2. epoch.byte + (written - BufferSize) + 1 <= LastByte
        BY <1>2, <2>1, <4>1 DEF LastByte
      <4>3. CASE read > epoch.byte
        BY <1>2, <2>2, <4>2, <4>3
      <4>4. CASE ~(read > epoch.byte)
        BY <1>2, <3>2, <4>2, <4>4 DEF LastByte
      <4> QED BY <4>3, <4>4
    <3> QED BY <1>2, <3>1, <3>2
  <2>4. LastByte' = LastByte /\ read' = read
    BY <1>1 DEF LastByte, reader
  <2>5. (errors = 0 \/ read > epoch.byte => LastByte = epoch.byte + k)'
    BY <1>1, <2>2, <2>4
  <2>6. written' - k <= BufferSize
    BY <1>2, <2>3
  <2> QED BY <2>5, <2>6
<1> QED BY <1>1, <1>3 DEF Behind, reader, Plus

\* A byte that opens a lap no event has been heard before.
LEMMA BehindLap ==
  ASSUME TypesInv, QuietInv, StreamInv, ByteArrives, Listening, ~heard, position = 0,
         NEW k, k = 0, Behind(0, k)
  PROVE  Behind(0, k)'
<1>1. /\ epoch'.byte = line /\ epoch'.count = produced_count /\ written' = 1
      /\ UNCHANGED <<reader, pc, errors>>
  BY ByteNext DEF Remember, Listening
<1>2. produced_count = epoch.count
  BY DEF QuietInv, Listening
<1>3. read <= line /\ read \in Nat /\ line \in Nat /\ BufferSize \in Nat /\ BufferSize > 1
  BY Middle DEF StreamInv, TypesInv, TypeOK
<1>4. LastByte' = epoch'.byte
  BY <1>1, <1>3 DEF LastByte, reader
<1>5. written' - k <= BufferSize /\ epoch'.byte = epoch'.byte + k
  BY <1>1, <1>3
<1> QED BY <1>1, <1>2, <1>4, <1>5 DEF Behind, reader, Plus

LEMMA ReaderByte ==
  ASSUME TypesInv, QuietInv, StreamInv, BufferInv, ReaderInv, ByteArrives
  PROVE  ReaderInv'
<1> SUFFICES ASSUME Listening'
             PROVE  \E pub \in 0..written' :
                      /\ Shown(pub)'
                      /\ pc' \in Loop => \E k \in 0..pub : Behind(pub, k)'
  BY ReaderRests
<1>1. receiving
  BY DEF ByteArrives, Listening
<1>2. Listening /\ Remember /\ pc' = pc
  BY <1>1, ByteNext DEF Listening, backend
<1>3. PICK pub \in 0..written :
        Shown(pub) /\ (pc \in Loop => \E k \in 0..pub : Behind(pub, k))
  BY <1>2 DEF ReaderInv
<1>4. pub \in 0..written' /\ Shown(pub)'
  BY <1>2, <1>3, ShownByte
<1>5. ASSUME NEW k \in 0..pub, Behind(pub, k)
      PROVE  Behind(pub, k)'
  <2>1. CASE ~heard /\ position = 0
    <3>1. pub = 0 /\ k = 0
      BY <1>3, <1>5, <2>1 DEF Shown
    <3> QED BY <1>2, <1>5, <2>1, <3>1, BehindLap
  <2>2. CASE ~(~heard /\ position = 0)
    BY <1>2, <1>3, <1>5, <2>2, BehindByte DEF Remember
  <2> QED BY <2>1, <2>2
<1> QED BY <1>2, <1>3, <1>4, <1>5

LEMMA ReaderInterrupt ==
  ASSUME TypesInv, QuietInv, ReaderInv, Interrupt
  PROVE  ReaderInv'
<1> SUFFICES ASSUME Listening'
             PROVE  \E pub \in 0..written' :
                      /\ Shown(pub)'
                      /\ pc' \in Loop => \E k \in 0..pub : Behind(pub, k)'
  BY ReaderRests
<1>1. UNCHANGED <<reader, epoch, pc, written, lapped, initialized, started, receiving,
                  errors>>
  BY InterruptFrame
<1>2. Listening
  BY <1>1 DEF Listening
<1>3. PICK pub \in 0..written :
        Shown(pub) /\ (pc \in Loop => \E k \in 0..pub : Behind(pub, k))
  BY <1>2 DEF ReaderInv
<1>4. PICK more \in pub..written' : Shown(more)'
  BY <1>2, <1>3, ShownEvent
<1>5. pub \in Int /\ more \in Int /\ pub <= more /\ more \in 0..written'
  BY <1>1, <1>4, Middle DEF TypesInv, TypeOK
<1>6. ASSUME NEW k \in 0..pub, Behind(pub, k)
      PROVE  k \in 0..more /\ Behind(more, k)'
  <2>1. k \in 0..more /\ (pc = "take" => k < more)
    BY <1>5, <1>6 DEF Behind
  <2>2. LastByte' = LastByte /\ Aligned' = Aligned
    BY <1>1 DEF LastByte, Aligned, reader
  <2> QED BY <1>1, <1>6, <2>1, <2>2 DEF Behind, Plus, reader
<1> QED BY <1>1, <1>3, <1>4, <1>5, <1>6

\* The reader starts at the reception's first byte, or at the first of the lap in
\* which the application begins to listen.
LEMMA ReaderInit ==
  ASSUME TypesInv, PhaseInv, QuietInv, StreamInv, InitApp
  PROVE  ReaderInv'
<1> SUFFICES ASSUME Listening'
             PROVE  \E pub \in 0..written' :
                      /\ Shown(pub)'
                      /\ pc' \in Loop => \E k \in 0..pub : Behind(pub, k)'
  BY ReaderRests
<1>1. /\ receiving /\ ~Listening /\ UNCHANGED <<hardware, history, backend, reader>>
      /\ pc = "init_app" /\ pc' = "poll" /\ consumed_count = produced_count
  BY DEF InitApp, PhaseInv, Listening, hardware
<1>2. ~heard
  BY <1>1 DEF QuietInv
<1>3. /\ Shown(0) /\ written <= BufferSize /\ 0 \in 0..written
      /\ produced_count = Plus(epoch.count, 0)
  BY <1>1, <1>2, QuietShown
<1>4. Shown(0)' /\ written' = written
  BY <1>1, <1>3, ShownFrame DEF hardware, history, backend
<1>5. LastByte = epoch.byte /\ epoch.byte = epoch.byte + 0 /\ written - 0 = written
  <2>1. read \in Nat /\ epoch.byte \in Nat /\ read <= epoch.byte /\ written \in Nat
    BY <1>1, Middle DEF StreamInv, TypesInv, TypeOK, Loop
  <2> QED BY <2>1 DEF LastByte
<1>6. Behind(0, 0)'
  <2>1. LastByte' = LastByte /\ epoch' = epoch
    BY <1>1 DEF LastByte, reader, history
  <2> QED BY <1>1, <1>3, <1>4, <1>5, <2>1 DEF Behind, Plus, reader
<1> QED BY <1>3, <1>4, <1>6

\* A recovery listens before the reader meets the reception's count.
LEMMA ReaderStarted ==
  ASSUME TypesInv, PhaseInv, QuietInv, SetStarted
  PROVE  ReaderInv'
<1> SUFFICES ASSUME Listening'
             PROVE  \E pub \in 0..written' :
                      /\ Shown(pub)'
                      /\ pc' \in Loop => \E k \in 0..pub : Behind(pub, k)'
  BY ReaderRests
<1>1. /\ receiving /\ ~Listening
      /\ UNCHANGED <<hardware, history, last_dma_position, produced_count>>
      /\ pc' = "clear_request"
  BY DEF SetStarted, Goto, PhaseInv, Listening, hardware
<1>2. ~heard
  BY <1>1 DEF QuietInv
<1>3. Shown(0) /\ 0 \in 0..written
  BY <1>1, <1>2, QuietShown
<1>4. Shown(0)' /\ written' = written /\ pc' \notin Loop
  BY <1>1, <1>3, ShownFrame DEF hardware, history, Loop
<1> QED BY <1>3, <1>4

\* Then it meets it: what was published by then is passed unread.
LEMMA ReaderReset ==
  ASSUME TypesInv, QuietInv, FirstInv, StreamInv, ReaderInv, Reset
  PROVE  ReaderInv'
<1> SUFFICES ASSUME Listening'
             PROVE  \E pub \in 0..written' :
                      /\ Shown(pub)'
                      /\ pc' \in Loop => \E k \in 0..pub : Behind(pub, k)'
  BY ReaderRests
<1>1. /\ UNCHANGED <<hardware, history, backend, read, initialized>>
      /\ pc = "reset" /\ pc' = "sync" /\ consumed_count' = produced_count
  BY DEF Reset, Goto
<1>2. Listening
  BY <1>1 DEF Listening, hardware, backend
<1>3. PICK pub \in 0..written : Shown(pub)
  BY <1>2 DEF ReaderInv
<1>4. Shown(pub)' /\ written' = written
  BY <1>1, <1>3, ShownFrame DEF hardware, history, backend
<1>5. consumed_count' = Plus(epoch'.count, pub)
  BY <1>1, <1>3 DEF Shown, history, Plus
<1>6. ~(errors' = 0 \/ (read > epoch.byte)')
  <2>1. errors # 0 /\ read <= epoch.byte
    BY <1>1 DEF FirstInv, StreamInv, Loop
  <2>2. read \in Nat /\ epoch.byte \in Nat
    BY Middle DEF TypesInv, TypeOK
  <2> QED BY <1>1, <2>1, <2>2 DEF hardware, history
<1>7. written' - pub <= BufferSize
  BY <1>2, <1>3, <1>4, ShownLag
<1>8. Behind(pub, pub)' /\ pub \in 0..pub
  BY <1>1, <1>5, <1>6, <1>7 DEF Behind, Plus
<1> QED BY <1>4, <1>8

LEMMA ReaderPoll ==
  ASSUME TypesInv, ReaderInv, Poll
  PROVE  ReaderInv'
<1> SUFFICES ASSUME Listening'
             PROVE  \E pub \in 0..written' :
                      /\ Shown(pub)'
                      /\ pc' \in Loop => \E k \in 0..pub : Behind(pub, k)'
  BY ReaderRests
<1>1. /\ UNCHANGED <<receiving, position, half, full, errors, history, started,
                     last_dma_position, produced_count, reader, initialized>>
      /\ pc = "poll" /\ pc' = "sync"
  BY DEF Poll, Goto, Listening
<1>2. Listening
  BY <1>1 DEF Listening
<1>3. PICK pub \in 0..written : Shown(pub) /\ \E k \in 0..pub : Behind(pub, k)
  BY <1>1, <1>2 DEF ReaderInv, Loop
<1>4. PICK k \in 0..pub : Behind(pub, k)
  BY <1>3
<1>5. Shown(pub)'
  BY <1>1, <1>3, ShownFrame DEF history
<1>6. Behind(pub, k)'
  <2>1. LastByte' = LastByte /\ Aligned' = Aligned
    BY <1>1 DEF LastByte, Aligned, reader, history
  <2> QED BY <1>1, <1>4, <2>1 DEF Behind, Plus, reader, history
<1> QED BY <1>1, <1>4, <1>5, <1>6 DEF history

\* How many bytes sync_available takes to be unread: not more than there are.
LEMMA Backlog ==
  ASSUME TypesInv, NEW pub \in 0..written, NEW k \in 0..pub, Shown(pub), Behind(pub, k)
  PROVE  LET unread == Minus(produced_count, consumed_count)
         IN  unread \in Nat /\ unread <= pub - k
<1>1. /\ written \in Nat /\ pub \in Nat /\ k \in Nat /\ k <= pub
      /\ CountModulus \in Nat \ {0} /\ epoch.count \in Nat
  BY Middle DEF TypesInv, TypeOK, Counts
<1>2. produced_count = Plus(epoch.count, pub) /\ consumed_count = Plus(epoch.count, k)
  BY DEF Shown, Behind
<1>3. Minus(produced_count, consumed_count) = (pub - k) % CountModulus
  BY <1>1, <1>2, MinusCounts
<1> DEFINE d == pub - k
<1>4. d \in Nat
  BY <1>1
<1> HIDE DEF d
<1>5. d % CountModulus <= d /\ d % CountModulus \in 0..(CountModulus - 1)
  BY <1>1, <1>4, ModAtMost, Zenon
<1> QED BY <1>1, <1>3, <1>5 DEF d

\* Where that is more than the buffer holds the DMA has lapped the reader.
LEMMA ReaderSync ==
  ASSUME TypesInv, ReaderInv, Sync
  PROVE  ReaderInv'
<1> SUFFICES ASSUME Listening'
             PROVE  \E pub \in 0..written' :
                      /\ Shown(pub)'
                      /\ pc' \in Loop => \E k \in 0..pub : Behind(pub, k)'
  BY ReaderRests
<1>1. UNCHANGED <<hardware, history, backend, read, initialized>> /\ pc = "sync"
  BY DEF Sync, Goto
<1>2. Listening
  BY <1>1 DEF Listening, hardware, backend
<1>3. PICK pub \in 0..written : Shown(pub) /\ \E k \in 0..pub : Behind(pub, k)
  BY <1>1, <1>2 DEF ReaderInv, Loop
<1>4. PICK k \in 0..pub : Behind(pub, k)
  BY <1>3
<1>5. Shown(pub)' /\ written' = written /\ epoch' = epoch
  BY <1>1, <1>3, ShownFrame DEF hardware, history, backend
<1>6. /\ written \in Nat /\ pub \in Nat /\ k \in Nat /\ pub <= written /\ k <= pub
      /\ BufferSize \in Nat \ {0} /\ BufferSize < CountModulus
      /\ CountModulus \in Nat \ {0} /\ epoch.count \in Nat
  BY Middle DEF TypesInv, TypeOK, Counts
<1>7. produced_count = Plus(epoch.count, pub) /\ consumed_count = Plus(epoch.count, k)
  BY <1>3, <1>4 DEF Shown, Behind
<1> DEFINE u == Minus(produced_count, consumed_count)
<1>8. u = Minus(produced_count, consumed_count)
  OBVIOUS
<1>9. u \in Nat /\ u <= pub - k
  BY <1>3, <1>4, Backlog
<1> HIDE DEF u
<1>10. LastByte' = LastByte /\ Aligned' = Aligned /\ errors' = errors /\ lapped' = lapped
       /\ read' = read
  BY <1>1 DEF LastByte, Aligned, hardware, history
<1>11. CASE u > BufferSize
  <2>1. consumed_count' = Minus(produced_count, BufferSize) /\ pc' = "take"
    BY <1>6, <1>8, <1>9, <1>11 DEF Sync, Goto
  <2>2. Minus(produced_count, BufferSize) = Plus(epoch.count, pub - BufferSize)
    <3>1. BufferSize \in Nat /\ BufferSize <= pub
      BY <1>6, <1>9, <1>11
    <3>2. Minus(Plus(epoch.count, pub), BufferSize) = Plus(epoch.count, pub - BufferSize)
      BY <1>6, <3>1, MinusCounts
    <3> QED BY <1>7, <3>2
  <2>3. ~(~lapped /\ Aligned)
    BY <1>4, <1>6, <1>9, <1>11 DEF Behind
  <2>4. PICK next \in 0..pub : next = pub - BufferSize
    BY <1>6, <1>9, <1>11
  <2>5. next < pub
    BY <1>6, <2>4
  <2>6. Behind(pub, next)'
    BY <1>5, <1>10, <2>1, <2>2, <2>3, <2>4, <2>5 DEF Behind, Plus
  <2> QED BY <1>5, <2>6
<1>12. CASE ~(u > BufferSize)
  <2>1. consumed_count' = consumed_count /\ pc' = IF u = 0 THEN "poll" ELSE "take"
    BY <1>8, <1>12 DEF Sync, Goto
  <2>2. pc' = "take" => k < pub
    BY <1>6, <1>9, <2>1
  <2>3. Behind(pub, k)'
    BY <1>4, <1>5, <1>10, <2>1, <2>2 DEF Behind, Plus
  <2> QED BY <1>5, <2>3
<1> QED BY <1>11, <1>12

\* The byte at an index is the last one written there.
LEMMA LastWritten ==
  ASSUME TypesInv, BufferInv, receiving, NEW k \in 0..(written - 1)
  PROVE  \E n \in k..(written - 1) :
           /\ n % BufferSize = k % BufferSize
           /\ written <= n + BufferSize
           /\ buffer[k % BufferSize] = epoch.byte + n + 1
<1> DEFINE d == written - 1 - k
           q == d \div BufferSize
           r == d % BufferSize
           n == k + BufferSize * q
<1>1. /\ written \in Nat /\ k \in Nat /\ k <= written - 1 /\ d \in Nat
      /\ BufferSize \in Nat \ {0}
  BY Middle DEF TypesInv, TypeOK
<1> HIDE DEF d
<1>2. d = BufferSize * q + r /\ r \in 0..(BufferSize - 1) /\ q \in Int
  BY <1>1, DivMod
<1>3. 0 \div BufferSize = 0
  BY <1>1
<1>4. q >= 0
  BY <1>1, <1>3, DivMono, 0 \in Int, d \in Int
<1> DEFINE p == BufferSize * q
<1>5. p \in Nat
  BY <1>1, <1>2, <1>4
<1>6. n % BufferSize = k % BufferSize
  BY <1>1, <1>2, ModPlusMultiple, k \in Int
<1> HIDE DEF q, r
<1>7. n = k + p /\ d = p + r
  BY <1>2
<1> HIDE DEF n, p
<1>8. /\ n \in k..(written - 1) /\ n \in 0..(written - 1)
      /\ written <= n + BufferSize
  BY <1>1, <1>2, <1>5, <1>7 DEF d
<1>9. buffer[n % BufferSize] = epoch.byte + n + 1
  BY <1>8 DEF BufferInv
<1> QED BY <1>6, <1>8, <1>9

\* Where the indices are the reader's, read_byte's is the one the DMA wrote at.
LEMMA SameIndex ==
  ASSUME TypesInv, Aligned, NEW k \in Nat
  PROVE  Plus(epoch.count, k) % BufferSize = k % BufferSize
<1> DEFINE e == epoch.count
           a == e + k
<1>1. /\ e \in Int /\ k \in Int /\ a \in Int /\ BufferSize \in Nat \ {0}
      /\ CountModulus \in Nat \ {0} /\ CountModulus % BufferSize = 0
  BY Middle DEF TypesInv, TypeOK, Counts
<1>2. Plus(epoch.count, k) = a % CountModulus /\ e % BufferSize = 0
  BY DEF Plus, Aligned
<1> HIDE DEF e
<1>3. ((e % BufferSize) + k) % BufferSize = a % BufferSize
  BY <1>1, ModAdd
<1>4. k % BufferSize = a % BufferSize
  <2>1. 0 + k = k
    BY <1>1
  <2> QED BY <1>2, <1>3, <2>1
<1> HIDE DEF a
<1>5. (a % CountModulus) % BufferSize = a % BufferSize
  BY <1>1, ModMod, Zenon
<1> QED BY <1>2, <1>4, <1>5

\* A reader whose count is the producer's has read at the index the last published
\* byte has.
LEMMA CaughtUp ==
  ASSUME TypesInv, Aligned, NEW k \in Nat, NEW pub \in Nat,
         Plus(epoch.count, k + 1) = Plus(epoch.count, pub)
  PROVE  (pub - 1) % BufferSize = k % BufferSize
<1> DEFINE a == k + 1
<1>1. /\ a \in Nat /\ a \in Int /\ pub \in Int /\ 1 \in Int /\ a - 1 = k
      /\ BufferSize \in Nat \ {0}
  BY Middle
<1>2. a % BufferSize = pub % BufferSize
  <2>1. Plus(epoch.count, a) % BufferSize = a % BufferSize
    BY <1>1, SameIndex
  <2>2. Plus(epoch.count, pub) % BufferSize = pub % BufferSize
    BY SameIndex
  <2> QED BY <2>1, <2>2
<1> HIDE DEF a
<1>3. ((a % BufferSize) + BufferSize - (1 % BufferSize)) % BufferSize
        = (a - 1) % BufferSize
  BY <1>1, ModSub, Zenon
<1>4. ((pub % BufferSize) + BufferSize - (1 % BufferSize)) % BufferSize
        = (pub - 1) % BufferSize
  BY <1>1, ModSub, Zenon
<1> QED BY <1>1, <1>2, <1>3, <1>4

\* Of the byte due.
LEMMA TakeNext ==
  ASSUME TypesInv, BufferInv, ReaderInv, Listening, pc = "take"
  PROVE  \E pub \in 0..written : \E k \in 0..(written - 1) :
           /\ Shown(pub) /\ Behind(pub, k) /\ k < pub
           /\ Aligned => consumed_count % BufferSize = k % BufferSize
<1>1. PICK pub \in 0..written : Shown(pub) /\ \E k \in 0..pub : Behind(pub, k)
  BY DEF ReaderInv, Loop
<1>2. PICK k \in 0..pub : Behind(pub, k)
  BY <1>1
<1>3. written \in Nat /\ k \in Nat /\ k < pub /\ pub <= written
  BY <1>2, Middle DEF Behind, TypesInv, TypeOK
<1>4. k \in 0..(written - 1)
  BY <1>3
<1>5. Aligned => consumed_count % BufferSize = k % BufferSize
  BY <1>2, <1>3, SameIndex DEF Behind
<1> QED BY <1>1, <1>2, <1>3, <1>4, <1>5

\* What is read: nothing but bytes of the reception, and the one due unless the DMA
\* has lapped the reader.
LEMMA TakeReads ==
  ASSUME TypesInv, BufferInv, Listening, Aligned, Take,
         NEW pub \in 0..written, NEW k \in 0..(written - 1), Behind(pub, k),
         consumed_count % BufferSize = k % BufferSize
  PROVE  /\ read' > epoch.byte
         /\ ~lapped => read' = epoch.byte + k + 1
<1>1. read' = buffer[k % BufferSize] /\ receiving
  BY DEF Take, Listening
<1>2. written \in Nat /\ epoch.byte \in Nat /\ k \in Nat /\ BufferSize \in Nat
  BY Middle DEF TypesInv, TypeOK
<1>3. read' > epoch.byte
  <2>1. PICK n \in k..(written - 1) : buffer[k % BufferSize] = epoch.byte + n + 1
    BY <1>1, LastWritten
  <2> QED BY <1>1, <1>2, <2>1
<1>4. ASSUME ~lapped PROVE read' = epoch.byte + k + 1
  <2>1. written <= k + BufferSize
    BY <1>2, <1>4 DEF Behind
  <2> QED BY <1>1, <2>1 DEF BufferInv
<1> QED BY <1>3, <1>4

LEMMA ReaderTake ==
  ASSUME TypesInv, PhaseInv, QuietInv, FirstInv, BufferInv, ReaderInv, Take
  PROVE  ReaderInv'
<1> SUFFICES ASSUME Listening'
             PROVE  \E pub \in 0..written' :
                      /\ Shown(pub)'
                      /\ pc' \in Loop => \E k \in 0..pub : Behind(pub, k)'
  BY ReaderRests
<1>1. /\ UNCHANGED <<hardware, backend, initialized>> /\ pc = "take" /\ pc' = "sync"
      /\ consumed_count' = Plus(consumed_count, 1)
      /\ read' = buffer[consumed_count % BufferSize]
      /\ lapped' = (lapped /\ consumed_count' # produced_count)
      /\ UNCHANGED <<epoch, written, heard>>
  BY DEF Take, CatchUp, Goto
<1>2. Listening /\ receiving
  BY <1>1 DEF Listening, hardware, backend
<1>3. PICK pub \in 0..written : \E k \in 0..(written - 1) :
        /\ Shown(pub) /\ Behind(pub, k) /\ k < pub
        /\ Aligned => consumed_count % BufferSize = k % BufferSize
  BY <1>1, <1>2, TakeNext
<1>4. PICK k \in 0..(written - 1) :
        /\ Shown(pub) /\ Behind(pub, k) /\ k < pub
        /\ Aligned => consumed_count % BufferSize = k % BufferSize
  BY <1>3
<1>5. Shown(pub)'
  BY <1>1, <1>4, ShownFrame DEF hardware, backend
<1>6. /\ written \in Nat /\ pub \in Nat /\ k \in Nat /\ pub <= written
      /\ epoch.count \in Nat /\ epoch.byte \in Nat
  BY Middle DEF TypesInv, TypeOK, Counts
<1> DEFINE next == k + 1
<1>7. consumed_count' = Plus(epoch.count, next)
  <2>1. Plus(Plus(epoch.count, k), 1) = Plus(epoch.count, k + 1)
    BY <1>6, PlusPlus, 1 \in Nat, Zenon
  <2> QED BY <1>1, <1>4, <2>1 DEF Behind
<1>8. next \in 0..pub
  BY <1>4, <1>6
<1>9. Aligned' = Aligned /\ errors' = errors
  BY <1>1 DEF Aligned, hardware
<1>10. CASE ~lapped
  <2>1. ASSUME Aligned
        PROVE  written - next <= BufferSize /\ LastByte' = epoch.byte + next
    <3>1. read' = epoch.byte + k + 1
      BY <1>2, <1>4, <1>10, <2>1, TakeReads
    <3>2. written - k <= BufferSize
      BY <1>4, <1>10, <2>1 DEF Behind
    <3>3. LastByte' = read'
      BY <1>1, <1>6, <3>1 DEF LastByte
    <3> QED BY <1>6, <3>1, <3>2, <3>3, Middle
  <2> HIDE DEF next
  <2>2. Behind(pub, next)'
    BY <1>1, <1>7, <1>9, <2>1 DEF Behind, Plus
  <2> QED BY <1>1, <1>5, <1>8, <2>2
<1>11. CASE lapped /\ consumed_count' # produced_count
  <2> HIDE DEF next
  <2>1. lapped'
    BY <1>1, <1>11, Zenon
  <2>2. Behind(pub, next)'
    BY <1>1, <1>7, <2>1 DEF Behind, Plus
  <2> QED BY <1>1, <1>5, <1>8, <2>2
<1>12. CASE lapped /\ consumed_count' = produced_count
  <2>1. consumed_count' = Plus(epoch.count, pub)
    BY <1>4, <1>12 DEF Shown
  <2>2. ASSUME Aligned
        PROVE  written - pub <= BufferSize /\ LastByte' = epoch.byte + pub
    <3>1. (pub - 1) % BufferSize = k % BufferSize
      BY <1>6, <1>7, <2>1, <2>2, CaughtUp
    <3>2. written - pub < BufferSize
      <4>1. heard
        BY <1>2, TakeHeard
      <4> QED BY <1>2, <1>4, <4>1, ShownLag
    <3>3. PICK n \in 0..(written - 1) : n = pub - 1
      BY <1>4, <1>6
    <3>4. written <= n + BufferSize
      BY <1>6, <3>2, <3>3, Middle
    <3>5. buffer[n % BufferSize] = epoch.byte + n + 1
      BY <1>2, <3>4 DEF BufferInv
    <3>6. read' = epoch.byte + pub
      BY <1>1, <1>4, <1>6, <2>2, <3>1, <3>3, <3>5
    <3>7. pub > 0
      BY <1>4, <1>6
    <3> QED BY <1>1, <1>6, <3>2, <3>6, <3>7, Middle DEF LastByte
  <2>3. Behind(pub, pub)' /\ pub \in 0..pub
    BY <1>1, <1>6, <1>9, <2>1, <2>2 DEF Behind, Plus
  <2> QED BY <1>1, <1>5, <2>3
<1> QED BY <1>10, <1>11, <1>12

LEMMA ReaderKept ==
  ASSUME ReadInv, [Next]_vars
  PROVE  ReaderInv'
<1> USE DEF ReadInv
<1>a. ASSUME Listening' => Listening, pc' \in Loop => pc \in Loop /\ pc' = pc,
             UNCHANGED <<position, half, full, history, produced_count,
                         last_dma_position, reader, errors>>
      PROVE  ReaderInv'
  <2> SUFFICES ASSUME Listening'
               PROVE  \E pub \in 0..written' :
                        /\ Shown(pub)'
                        /\ pc' \in Loop => \E k \in 0..pub : Behind(pub, k)'
    BY ReaderRests
  <2>1. PICK pub \in 0..written :
          Shown(pub) /\ (pc \in Loop => \E k \in 0..pub : Behind(pub, k))
    BY <1>a DEF ReaderInv
  <2>2. Shown(pub)'
    BY <1>a, <2>1, ShownFrame DEF history
  <2>3. ASSUME pc' \in Loop PROVE \E k \in 0..pub : Behind(pub, k)'
    <3>1. PICK k \in 0..pub : Behind(pub, k)
      BY <1>a, <2>1, <2>3
    <3>2. LastByte' = LastByte /\ Aligned' = Aligned
      BY <1>a DEF LastByte, Aligned, reader, history
    <3>3. Behind(pub, k)'
      BY <1>a, <2>3, <3>1, <3>2 DEF Behind, reader, history, Plus
    <3> QED BY <3>1, <3>3
  <2> QED BY <1>a, <2>2, <2>3 DEF history
<1>1. CASE ByteArrives
  BY <1>1, ReaderByte
<1>2. CASE LineGoesIdle
  BY <1>a, <1>2 DEF LineGoesIdle, Listening, backend
<1>3. CASE Interrupt
  BY <1>3, ReaderInterrupt
<1>4. CASE UartError
  BY <1>4 DEF UartError, ReaderInv, Listening
<1>5. CASE BackendStart \/ InitCheck \/ InitRest
  BY <1>5 DEF BackendStart, InitCheck, InitRest, Goto, ReaderInv, PhaseInv, Listening
<1>6. CASE InitApp
  BY <1>6, ReaderInit
<1>7. CASE Poll
  BY <1>7, ReaderPoll
<1>8. CASE Restart
  BY <1>8 DEF Restart, Goto, ReaderInv, PhaseInv, Listening, backend
<1>9. CASE Check
  BY <1>9 DEF Check, Goto, ReaderInv, PhaseInv, Listening, hardware
<1>10. CASE SetStarted
  BY <1>10, ReaderStarted
<1>11. CASE ClearRequest
  BY <1>a, <1>11 DEF ClearRequest, Goto, Listening, hardware, Loop
<1>12. CASE Reset
  BY <1>12, ReaderReset
<1>13. CASE Sync
  BY <1>13, ReaderSync
<1>14. CASE Take
  BY <1>14, ReaderTake
<1>15. CASE UNCHANGED vars
  BY <1>a, <1>15 DEF vars, Listening, hardware, backend
<1> QED
  BY <1>1, <1>2, <1>3, <1>4, <1>5, <1>6, <1>7, <1>8, <1>9, <1>10, <1>11, <1>12,
     <1>13, <1>14, <1>15 DEF Next, MainLoop, MainStep

LEMMA ReadStart == Init => ReadInv
<1> SUFFICES ASSUME Init PROVE ReadInv
  OBVIOUS
<1>1. TypesInv
  BY TypesStart
<1>2. PhaseInv /\ QuietInv
  BY DEF Init, PhaseInv, QuietInv
<1>3. FirstInv /\ StreamInv
  BY DEF Init, FirstInv, StreamInv
<1>4. BufferInv /\ ReaderInv
  BY DEF Init, BufferInv, ReaderInv, Listening
<1> QED BY <1>1, <1>2, <1>3, <1>4 DEF ReadInv

LEMMA ReadKept == ReadInv /\ [Next]_vars => ReadInv'
BY TypesKept, PhaseKept, QuietKept, FirstKept, StreamKept, BufferKept, ReaderKept
   DEF ReadInv

LEMMA ReadHolds == Spec => []ReadInv
BY ReadStart, ReadKept, PTL DEF Spec

-----------------------------------------------------------------------------
(* What follows.                                                           *)

\* What PublishedWasWritten calls unpublished is the lag.
LEMMA LagUnpublished ==
  ASSUME TypesInv, NEW pub \in 0..written, Shown(pub), heard
  PROVE  /\ Unpublished = written - pub
         /\ Unpublished <= H + 1
         /\ Unpublished >= H => half \/ full
         /\ position = (last_dma_position + Unpublished) % BufferSize
<1>1. /\ H > 1 /\ BufferSize = 2 * H /\ H \in Nat /\ CountModulus \in Nat \ {0}
      /\ CountModulus > BufferSize /\ written \in Nat /\ epoch.count \in Nat
  BY Middle DEF TypesInv, TypeOK, Counts
<1>2. position \in 0..(BufferSize - 1) /\ last_dma_position \in 0..(BufferSize - 1)
  BY DEF TypesInv, TypeOK, Indices
<1>3. PICK lag \in 0..(H + 1) : lag = written - pub /\ Lag(lag)
  BY <1>1 DEF Shown
<1>4. Unpublished = lag
  <2>1. Minus(Plus(epoch.count, written), Plus(epoch.count, pub)) = lag % CountModulus
    <3>1. pub \in Nat
      BY <1>1
    <3>2. Minus(Plus(epoch.count, written), Plus(epoch.count, pub))
            = (written - pub) % CountModulus
      BY <1>1, <3>1, MinusCounts
    <3> QED BY <1>3, <3>2
  <2>2. lag % CountModulus = lag
    BY <1>1, ModSmall, lag \in 0..(CountModulus - 1)
  <2> QED BY <2>1, <2>2 DEF Unpublished, Shown
<1>5. lag >= H => half \/ full
  BY <1>1, <1>2, <1>3 DEF Lag
<1>6. \/ last_dma_position + lag = position
      \/ last_dma_position + lag = position + BufferSize
  <2>1. CASE half
    BY <1>1, <1>2, <1>3, <2>1 DEF Lag
  <2>2. CASE full
    BY <1>1, <1>2, <1>3, <2>2 DEF Lag
  <2>3. CASE ~half /\ ~full
    BY <1>1, <1>2, <1>3, <2>3 DEF Lag
  <2> QED BY <2>1, <2>2, <2>3
<1>7. position % BufferSize = position /\ (position + BufferSize) % BufferSize = position
  BY <1>2, Middle, ModSmall
<1> QED BY <1>1, <1>3, <1>4, <1>5, <1>6, <1>7

\* Of a reception that has not been heard everything is.
LEMMA QuietUnpublished ==
  ASSUME TypesInv, QuietInv, receiving, ~heard
  PROVE  /\ produced_count = epoch.count /\ Unpublished = written
         /\ written <= BufferSize
         /\ position = (last_dma_position + Unpublished) % BufferSize
<1>1. /\ BufferSize \in Nat \ {0} /\ CountModulus \in Nat \ {0}
      /\ CountModulus > BufferSize /\ written \in Nat
      /\ epoch.count \in Counts /\ position \in 0..(BufferSize - 1)
  BY Middle DEF TypesInv, TypeOK, Indices
<1>2. /\ produced_count = epoch.count /\ last_dma_position = 0
      /\ position = written \/ (position = 0 /\ written = BufferSize)
  BY DEF QuietInv
<1>3. written <= BufferSize /\ written \in 0..(CountModulus - 1)
  BY <1>1, <1>2
<1>4. Unpublished = written
  BY <1>1, <1>2, <1>3, MinusPlus DEF Unpublished
<1>5. written % BufferSize = position
  BY <1>1, <1>2, ModSmall, 0 \in 0..(BufferSize - 1), 0 + BufferSize = BufferSize
<1>6. last_dma_position + Unpublished = written
  BY <1>1, <1>2, <1>4
<1> QED BY <1>2, <1>3, <1>4, <1>5, <1>6

\* Whatever mixture of half, full and idle events there is, from whenever on the
\* application hears them and however long its main loop stalls, the count that
\* on_rx_event keeps shows bytes the DMA has written, all but those the events still
\* to come account for.
THEOREM PublishedCorrect == Spec => []PublishedWasWritten
<1>1. ASSUME ReadInv PROVE PublishedWasWritten
  <2> SUFFICES ASSUME Listening PROVE PublishedWasWritten
    BY DEF PublishedWasWritten
  <2>1. PICK pub \in 0..written : Shown(pub)
    BY <1>1 DEF ReadInv, ReaderInv
  <2>2. CASE heard
    BY <1>1, <2>1, <2>2, LagUnpublished DEF ReadInv, PublishedWasWritten, H
  <2>3. CASE ~heard
    BY <1>1, <2>3, QuietUnpublished DEF ReadInv, Listening, PublishedWasWritten
  <2> QED BY <2>2, <2>3
<1>2. ReadInv => PublishedWasWritten
  BY <1>1
<1> QED BY <1>2, ReadHolds, PTL

\* Only read_byte hands over bytes.
LEMMA OnlyTakeReads ==
  ASSUME TypesInv, Next, read' # read
  PROVE  Take
<1>1. ~Interrupt
  BY InterruptFrame DEF reader
<1>2. ~ByteArrives /\ ~LineGoesIdle /\ ~UartError
  BY DEF ByteArrives, LineGoesIdle, UartError, reader
<1>3. /\ ~BackendStart /\ ~InitCheck /\ ~InitRest /\ ~InitApp /\ ~Poll /\ ~Restart
      /\ ~Check /\ ~SetStarted /\ ~ClearRequest /\ ~Reset /\ ~Sync
  BY DEF BackendStart, InitCheck, InitRest, InitApp, Poll, Restart, Check, SetStarted,
         ClearRequest, Reset, Sync, reader
<1> QED BY <1>1, <1>2, <1>3 DEF Next, MainLoop, MainStep

\* sync_available alone counts overruns.
LEMMA OnlySyncCounts ==
  ASSUME TypesInv, Next, ~overflowed, overflowed'
  PROVE  Sync
<1>1. overflowed' # overflowed
  BY DEF TypesInv, TypeOK
<1>2. ~UNCHANGED reader
  BY <1>1 DEF reader
<1>3. ~Interrupt
  BY <1>2, InterruptFrame
<1>4. ~ByteArrives /\ ~LineGoesIdle /\ ~UartError
  BY <1>2 DEF ByteArrives, LineGoesIdle, UartError
<1>5. /\ ~BackendStart /\ ~InitCheck /\ ~Poll /\ ~Restart /\ ~Check /\ ~SetStarted
      /\ ~ClearRequest /\ ~InitApp
  BY <1>2 DEF BackendStart, InitCheck, InitApp, Poll, Restart, Check, SetStarted,
              ClearRequest
<1>6. ~InitRest /\ ~Reset /\ ~Take
  BY <1>1 DEF InitRest, Reset, Take
<1> QED BY <1>3, <1>4, <1>5, <1>6 DEF Next, MainLoop, MainStep

\* It counts one only where the DMA has overwritten a byte before it was read.
LEMMA OverrunIsReal ==
  ASSUME ReadInv, Next, Listening, Aligned, ~overflowed, overflowed'
  PROVE  lapped
<1> USE DEF ReadInv
<1>1. Sync
  BY OnlySyncCounts
<1>2. PICK pub \in 0..written : Shown(pub) /\ \E k \in 0..pub : Behind(pub, k)
  BY <1>1 DEF ReaderInv, Loop, Sync
<1>3. PICK k \in 0..pub : Behind(pub, k)
  BY <1>2
<1> DEFINE unread == Minus(produced_count, consumed_count)
<1>4. unread > BufferSize
  BY <1>1 DEF Sync
<1>5. unread \in Nat /\ unread <= pub - k
  BY <1>2, <1>3, Backlog
<1> HIDE DEF unread
<1>6. /\ written \in Nat /\ pub \in Nat /\ k \in Nat /\ pub <= written
      /\ BufferSize \in Nat
  BY Middle DEF TypesInv, TypeOK
<1>7. ~lapped => written - k <= BufferSize
  BY <1>3 DEF Behind
<1> QED BY <1>4, <1>5, <1>6, <1>7

\* However long the main loop stalls, the protocol is handed every byte once and in
\* order, except from when the DMA overwrites one it has not read until it has caught
\* up: until the first UART error always, and after it in every reception at whose
\* start the producer count is a multiple of the buffer's size.  There it is never
\* handed a byte from before the reception, and no overrun is counted for nothing.
THEOREM ReadsInOrder == Spec => ReadsNextByte
<1> DEFINE Right == /\ errors = 0 /\ ~lapped => read' = LastByte + 1
                    /\ Listening /\ Aligned =>
                         /\ read' > epoch.byte
                         /\ read > epoch.byte /\ ~lapped => read' = read + 1
<1>1. ASSUME ReadInv, Next, read' # read
      PROVE  Right
  <2> USE <1>1 DEF ReadInv
  <2>1. Take
    BY OnlyTakeReads
  <2>2. errors = 0 => Listening /\ Aligned
    <3>1. 0 % BufferSize = 0
      BY Middle, ModSmall, 0 \in 0..(BufferSize - 1)
    <3> QED BY <2>1, <3>1 DEF FirstInv, Aligned, PhaseInv, Listening, Take
  <2>3. ASSUME Listening, Aligned
        PROVE  /\ errors = 0 /\ ~lapped => read' = LastByte + 1
               /\ read' > epoch.byte
               /\ read > epoch.byte /\ ~lapped => read' = read + 1
    <3>p. PICK pub \in 0..written : \E k \in 0..(written - 1) :
            Behind(pub, k) /\ consumed_count % BufferSize = k % BufferSize
      BY <2>1, <2>3, TakeNext DEF Take
    <3>1. PICK k \in 0..(written - 1) :
            Behind(pub, k) /\ consumed_count % BufferSize = k % BufferSize
      BY <3>p
    <3>2. read' > epoch.byte /\ (~lapped => read' = epoch.byte + k + 1)
      BY <2>1, <2>3, <3>1, TakeReads
    <3>3. ~lapped => (errors = 0 \/ read > epoch.byte => LastByte = epoch.byte + k)
      BY <2>3, <3>1 DEF Behind
    <3>4. read > epoch.byte => LastByte = read
      BY DEF LastByte
    <3>5. k \in Nat /\ epoch.byte \in Nat /\ read \in Nat
      BY Middle DEF TypesInv, TypeOK
    <3> QED BY <3>2, <3>3, <3>4, <3>5
  <2> QED BY <2>2, <2>3
<1> DEFINE Real == Listening /\ Aligned /\ ~lapped /\ overflowed' => overflowed
<1>2. ASSUME ReadInv, Next PROVE Real
  BY <1>2, OverrunIsReal
<1>3. ReadInv /\ [Next]_vars => [(read' # read => Right) /\ Real]_vars
  BY <1>1, <1>2
<1> QED BY <1>3, ReadHolds, PTL DEF Spec, ReadsNextByte

\* After any number of UART errors, stalls and overruns the reader is behind the DMA:
\* of what read_byte needs in order to return a byte of the running reception only the
\* index can be wrong, by what the producer count was when the reception started, and
\* only where that is not a multiple of the buffer's size.
THEOREM DueIsWritten == Spec => []DueWritten
<1>1. ASSUME ReadInv PROVE DueWritten
  <2> SUFFICES ASSUME Listening, pc = "take" PROVE DueWritten
    BY DEF DueWritten
  <2>p. PICK pub \in 0..written : \E k \in 0..(written - 1) : Behind(pub, k)
    BY <1>1, TakeNext DEF ReadInv
  <2>1. PICK k \in 0..(written - 1) : Behind(pub, k)
    BY <2>p
  <2>2. consumed_count = Plus(epoch.count, k)
    BY <2>1 DEF Behind
  <2> QED BY <1>1, <2>2, LastWritten DEF ReadInv, Listening, DueWritten
<1>2. ReadInv => DueWritten
  BY <1>1
<1> QED BY <1>2, ReadHolds, PTL
=============================================================================
