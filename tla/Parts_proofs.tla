---------------------------- MODULE Parts_proofs ----------------------------
(***************************************************************************)
(* The parts of the two images that share no state, for every value of     *)
(* their constants: the receiver task, the channel mapper and the packet   *)
(* of the link each on its own, and all five within Parts.  What is proved *)
(* of the parsers is in Parsers_proofs.                                    *)
(***************************************************************************)
EXTENDS Parts, Parsers_proofs

-----------------------------------------------------------------------------
(* The receiver task.                                                      *)

\* While there is no task nothing is published and nobody is told of a frame;
\* and a valid frame in the mailbox was no older than the timeout when the
\* task last judged it, which was when it last woke.
FreshWithin(frames, limit) == \A f \in frames : f.valid => f.age <= limit

TaskInv ==
  /\ TaskTypeOK
  /\ SignalServed
  /\ task_handle <=> task_pc # "none"
  /\ task_handle => task_initialized
  /\ ~task_handle => mailbox = Nothing /\ ~task_signalled
  /\ latest_frame = Nothing => mailbox = Nothing
  /\ task_pc # "wait" => task_wait = 0
  /\ task_pc = "publish" => FreshWithin(latest_frame, FailsafeTimeout)
  /\ FreshWithin(mailbox, FailsafeTimeout + Period)
  /\ task_pc = "wait" => FreshWithin(mailbox, FailsafeTimeout + task_wait)

\* A tick makes frames older by one, and no other.
LEMMA OlderFrames ==
  ASSUME NEW frames \in SUBSET Frame
  PROVE  /\ Older(frames) \in SUBSET Frame
         /\ Older(frames) = Nothing <=> frames = Nothing
         /\ \A limit \in Nat : FreshWithin(frames, limit)
                                => FreshWithin(Older(frames), limit + 1)
<1>1. MaxAge \in Nat
  BY TaskAssumption DEF MaxAge
<1>2. ASSUME NEW f \in Frame
      PROVE  /\ [f EXCEPT !.age = IF @ < MaxAge THEN @ + 1 ELSE @] \in Frame
             /\ [f EXCEPT !.age = IF @ < MaxAge THEN @ + 1 ELSE @].valid = f.valid
             /\ [f EXCEPT !.age = IF @ < MaxAge THEN @ + 1 ELSE @].age <= f.age + 1
  BY <1>1 DEF Frame
<1>3. Older(frames) \in SUBSET Frame
  BY <1>2 DEF Older
<1>4. Older(frames) = Nothing <=> frames = Nothing
  BY DEF Older, Nothing
<1>5. ASSUME NEW limit \in Nat, FreshWithin(frames, limit)
      PROVE  FreshWithin(Older(frames), limit + 1)
  <2> SUFFICES ASSUME NEW g \in Older(frames), g.valid
               PROVE  g.age <= limit + 1
    BY DEF FreshWithin
  <2>1. PICK f \in frames : g = [f EXCEPT !.age = IF @ < MaxAge THEN @ + 1 ELSE @]
    BY DEF Older
  <2>2. f \in Frame /\ f.valid /\ g.age <= f.age + 1
    BY <1>2, <2>1
  <2>3. f.age <= limit /\ f.age \in Nat
    BY <1>1, <1>5, <2>2 DEF FreshWithin, Frame
  <2>4. g.age \in Nat
    BY <1>1, <1>3 DEF Frame
  <2> QED BY <2>2, <2>3, <2>4
<1> QED BY <1>3, <1>4, <1>5

\* No frame is no stale frame.
LEMMA NothingFresh ==
  Nothing \in SUBSET Frame /\ \A limit : FreshWithin(Nothing, limit)
BY DEF Nothing, FreshWithin

LEMMA TaskStart == TaskInit => TaskInv
<1> SUFFICES ASSUME TaskInit PROVE TaskInv
  OBVIOUS
<1>1. 0 \in 0..Period /\ 0 \in 0..MaxNotified
  BY TaskAssumption
<1>2. TaskTypeOK
  BY <1>1, NothingFresh DEF TaskInit, TaskTypeOK
<1> QED BY <1>2, NothingFresh DEF TaskInit, TaskInv, SignalServed

LEMMA TaskKept == TaskInv /\ [TaskNext]_taskVars => TaskInv'
<1> SUFFICES ASSUME TaskInv, [TaskNext]_taskVars
             PROVE  TaskInv'
  OBVIOUS
<1> USE DEF TaskInv, TaskTypeOK, SignalServed
<1>0. /\ FailsafeTimeout \in Nat /\ Period \in Nat \ {0}
      /\ MaxNotified \in Nat \ {0} /\ MaxAge \in Nat
      /\ task_notified \in Nat /\ task_wait \in Nat
  BY TaskAssumption DEF MaxAge
<1>1. CASE InitQueue
  BY <1>0, <1>1 DEF InitQueue, FreshWithin, Nothing
<1>2. CASE CreateTask
  BY <1>0, <1>2 DEF CreateTask, FreshWithin, Nothing
<1>3. CASE CreateFails \/ Deinit
  <2>1. 0 \in 0..Period /\ 0 \in 0..MaxNotified
    BY <1>0
  <2> QED BY <1>3, <2>1, NothingFresh DEF CreateFails, Deinit, Cleared
<1>4. CASE FrameArrives
  <2>a. IF task_notified < MaxNotified
          THEN task_notified + 1 \in 1..MaxNotified
          ELSE MaxNotified \in 1..MaxNotified
    BY <1>0
  <2>1. /\ task_notified' \in 0..MaxNotified
        /\ task_signalled' => task_notified' > 0 \/ task_pc' = "process"
        /\ task_signalled' \in BOOLEAN
        /\ ~task_handle => ~task_signalled'
    <3>1. CASE task_initialized /\ task_handle
      <4>1. task_notified' \in 1..MaxNotified
        BY <1>4, <2>a, <3>1 DEF FrameArrives
      <4> QED BY <1>0, <1>4, <3>1, <4>1 DEF FrameArrives
    <3>2. CASE ~(task_initialized /\ task_handle)
      BY <1>4, <3>2 DEF FrameArrives
    <3> QED BY <3>1, <3>2
  <2> QED BY <1>4, <2>1 DEF FrameArrives
<1>5. CASE Wake
  BY <1>0, <1>5 DEF Wake
<1>6. CASE Process
  <2>1. ASSUME NEW f \in Frame
        PROVE  /\ [f EXCEPT !.valid = @ /\ f.age <= FailsafeTimeout] \in Frame
               /\ [f EXCEPT !.valid = @ /\ f.age <= FailsafeTimeout].age = f.age
               /\ [f EXCEPT !.valid = @ /\ f.age <= FailsafeTimeout].valid
                    => f.age <= FailsafeTimeout
    BY DEF Frame
  <2> DEFINE judged == IF uart_unread THEN {NewFrame} ELSE latest_frame
  <2>2. judged \subseteq Frame
    <3>1. 0 \in 0..MaxAge
      BY <1>0
    <3>2. NewFrame \in Frame
      BY <3>1 DEF NewFrame, Frame
    <3>3. CASE uart_unread
      BY <3>2, <3>3
    <3>4. CASE ~uart_unread
      BY <3>4
    <3> QED BY <3>3, <3>4
  <2>3. latest_frame' =
          {[f EXCEPT !.valid = @ /\ f.age <= FailsafeTimeout] : f \in judged}
    BY <1>6 DEF Process
  <2>4. latest_frame' = Nothing => latest_frame = Nothing
    BY <2>3 DEF Nothing
  <2> HIDE DEF judged
  <2>5. latest_frame' \subseteq Frame /\ FreshWithin(latest_frame', FailsafeTimeout)
    BY <2>1, <2>2, <2>3 DEF FreshWithin
  <2> QED BY <1>6, <2>4, <2>5 DEF Process, FreshWithin
<1>7. CASE Publish
  <2>1. CASE latest_frame = Nothing
    <3>1. mailbox = Nothing /\ mailbox' = Nothing
      BY <1>7, <2>1 DEF Publish, Published
    <3> QED BY <1>0, <1>7, <2>1, <3>1 DEF Publish, Published, FreshWithin, Nothing
  <2>2. CASE latest_frame # Nothing
    <3>1. mailbox' = latest_frame /\ task_wait = 0 /\ task_pc = "publish"
      BY <1>7, <2>2 DEF Publish, Published
    <3>2. /\ FreshWithin(mailbox', FailsafeTimeout)
          /\ FreshWithin(mailbox', FailsafeTimeout + Period)
          /\ FreshWithin(mailbox', FailsafeTimeout + 0)
      <4>1. \A f \in latest_frame : f.valid => f.age <= FailsafeTimeout /\ f.age \in Nat
        BY <1>0, <3>1 DEF FreshWithin, Frame
      <4> QED BY <1>0, <3>1, <4>1 DEF FreshWithin
    <3> QED BY <1>7, <2>2, <3>1, <3>2 DEF Publish, Published, FreshWithin
  <2> QED BY <2>1, <2>2
<1>8. CASE TaskTick
  <2>1. /\ latest_frame' \in SUBSET Frame /\ mailbox' \in SUBSET Frame
        /\ latest_frame' = Nothing => latest_frame = Nothing
        /\ mailbox = Nothing => mailbox' = Nothing
    BY <1>8, OlderFrames DEF TaskTick
  <2>2. CASE task_pc = "wait"
    <3>1. task_wait < Period /\ task_wait' = task_wait + 1
          /\ task_wait + 1 \in 0..Period
      BY <1>0, <1>8, <2>2 DEF TaskTick
    <3>2. FailsafeTimeout + task_wait \in Nat
      BY <1>0
    <3>3. FreshWithin(mailbox', (FailsafeTimeout + task_wait) + 1)
      BY <1>8, <2>2, <3>2, OlderFrames DEF TaskTick
    <3>4. FreshWithin(mailbox', FailsafeTimeout + task_wait')
      BY <1>0, <3>1, <3>3 DEF FreshWithin
    <3>5. FreshWithin(mailbox', FailsafeTimeout + Period)
      BY <1>0, <2>1, <3>1, <3>4 DEF FreshWithin, Frame
    <3> QED BY <1>8, <2>1, <2>2, <3>1, <3>4, <3>5 DEF TaskTick, FreshWithin
  <2>3. CASE task_pc # "wait"
    <3>1. task_pc = "none" /\ task_wait' = task_wait /\ mailbox' = Nothing
      BY <1>8, <2>1, <2>3 DEF TaskTick
    <3> QED BY <1>8, <2>1, <3>1 DEF TaskTick, FreshWithin, Nothing
  <2> QED BY <2>2, <2>3
<1>9. CASE UNCHANGED taskVars
  BY <1>9 DEF taskVars, FreshWithin
<1> QED BY <1>1, <1>2, <1>3, <1>4, <1>5, <1>6, <1>7, <1>8, <1>9 DEF TaskNext

LEMMA TaskShows == TaskInv => TaskTypeOK /\ SignalServed /\ MailboxFresh
BY DEF TaskInv, MailboxFresh, FreshWithin

-----------------------------------------------------------------------------
(* The channel mapper.                                                     *)

Within(n, low, high) == n \in Int /\ low <= n /\ n <= high

\* A distance within a span is scaled to the range, and in order.
LEMMA ScaledRange ==
  ASSUME NEW span \in Nat \ {0}, NEW distance \in 0..span
  PROVE  Within(Scaled(distance, span), 0, 1000)
<1> USE DEF Within
<1>1. (span * 0) \div span = 0 /\ (span * 1000) \div span = 1000
  BY DivMultiple
<1>3. span * 0 \in Int /\ distance * 1000 \in Int /\ span * 1000 \in Int
      /\ span * 0 <= distance * 1000 /\ distance * 1000 <= span * 1000
  OBVIOUS
<1>4. (span * 0) \div span <= (distance * 1000) \div span
      /\ (distance * 1000) \div span <= (span * 1000) \div span
  <2> DEFINE x == span * 0
             y == distance * 1000
             z == span * 1000
  <2>1. x \in Int /\ y \in Int /\ z \in Int /\ x <= y /\ y <= z
    BY <1>3
  <2> HIDE DEF x, y, z
  <2>2. x \div span <= y \div span /\ y \div span <= z \div span
    BY <2>1, DivMono
  <2> QED BY <2>2 DEF x, y, z
<1>5. (distance * 1000) \div span \in Int
  BY <1>3, DivMod
<1> QED BY <1>1, <1>4, <1>5 DEF Scaled

LEMMA ScaledEnd ==
  ASSUME NEW span \in Nat \ {0}
  PROVE  Scaled(span, span) = 1000
BY DivMultiple DEF Scaled

LEMMA ScaledOrder ==
  ASSUME NEW span \in Nat \ {0}, NEW near \in Nat, NEW far \in Nat, near <= far
  PROVE  Scaled(near, span) <= Scaled(far, span)
<1>1. near * 1000 \in Int /\ far * 1000 \in Int /\ near * 1000 <= far * 1000
  OBVIOUS
<1> QED BY <1>1, DivMono DEF Scaled

\* What a mode makes of the values of an entry: values between two ends, which
\* the ends of the stick give, and in the order of the stick.
LEMMA CenteredFollows ==
  ASSUME NEW e \in Entry, EntryIsValid(e), NEW value \in Nat
  PROVE  /\ Within(Centered(value, e), -1000, 1000)
         /\ value >= e.raw_max => Centered(value, e) = 1000
         /\ value <= e.raw_min => Centered(value, e) = -1000
         /\ \A other \in Nat :
              value <= other => Centered(value, e) <= Centered(other, e)
<1> USE DEF Within
<1> DEFINE low == e.raw_min
           high == e.raw_max
           lower == e.raw_center - e.deadband
           upper == e.raw_center + e.deadband
           below == lower - low
           above == high - upper
           Raw(v) == Clamp(v, low, high)
<1>1. /\ low \in Nat /\ high \in Nat /\ lower \in Nat /\ upper \in Nat
      /\ low < lower /\ lower <= upper /\ upper < high
  BY DEF Entry, EntryIsValid
<1>2. below \in Nat \ {0} /\ above \in Nat \ {0}
  BY <1>1
<1>3. \A v \in Nat : Raw(v) \in low..high
  BY <1>1 DEF Clamp
<1>4. \A v, w \in Nat : v <= w => Raw(v) <= Raw(w)
  BY <1>1 DEF Clamp
<1>5. \A v \in Nat :
        Centered(v, e) = IF Raw(v) < lower THEN -Scaled(lower - Raw(v), below)
                         ELSE IF Raw(v) > upper THEN Scaled(Raw(v) - upper, above)
                         ELSE 0
  BY DEF Centered
<1>a. (value >= high => Raw(value) = high) /\ (value <= low => Raw(value) = low)
  BY <1>1 DEF Clamp
<1> HIDE DEF low, high, lower, upper, Raw
<1>6. ASSUME NEW v \in Nat
      PROVE  /\ Raw(v) < lower => Within(Scaled(lower - Raw(v), below), 0, 1000)
             /\ Raw(v) > upper => Within(Scaled(Raw(v) - upper, above), 0, 1000)
  <2>1. ASSUME Raw(v) < lower PROVE Within(Scaled(lower - Raw(v), below), 0, 1000)
    <3>1. lower - Raw(v) \in 0..below
      BY <1>1, <1>3, <2>1
    <3>2. PICK d \in 0..below : d = lower - Raw(v)
      BY <3>1
    <3>3. below \in Nat \ {0}
      BY <1>2
    <3> HIDE DEF below, above
    <3>4. Within(Scaled(d, below), 0, 1000)
      BY <3>3, ScaledRange
    <3> QED BY <3>2, <3>4
  <2>2. ASSUME Raw(v) > upper PROVE Within(Scaled(Raw(v) - upper, above), 0, 1000)
    <3>1. Raw(v) - upper \in 0..above
      BY <1>1, <1>3, <2>2
    <3>2. PICK d \in 0..above : d = Raw(v) - upper
      BY <3>1
    <3>3. above \in Nat \ {0}
      BY <1>2
    <3> HIDE DEF below, above
    <3>4. Within(Scaled(d, above), 0, 1000)
      BY <3>3, ScaledRange
    <3> QED BY <3>2, <3>4
  <2> QED BY <2>1, <2>2
<1>7. ASSUME NEW v \in Nat
      PROVE  /\ Within(Centered(v, e), -1000, 1000)
             /\ Centered(v, e) \in Int
             /\ Raw(v) < lower => Centered(v, e) <= 0
             /\ Raw(v) > upper => Centered(v, e) >= 0
             /\ Raw(v) >= lower /\ Raw(v) <= upper => Centered(v, e) = 0
  <2>1. Raw(v) \in Int /\ lower \in Int /\ upper \in Int /\ lower <= upper
    BY <1>1, <1>3
  <2>2. CASE Raw(v) < lower
    <3>1. Centered(v, e) = -Scaled(lower - Raw(v), below)
          /\ Within(Scaled(lower - Raw(v), below), 0, 1000)
      BY <1>5, <1>6, <2>2
    <3> HIDE DEF below
    <3> QED BY <2>1, <2>2, <3>1
  <2>3. CASE Raw(v) > upper
    <3>1. Centered(v, e) = Scaled(Raw(v) - upper, above)
          /\ Within(Scaled(Raw(v) - upper, above), 0, 1000)
      BY <1>5, <1>6, <2>1, <2>3
    <3> HIDE DEF above
    <3> QED BY <2>1, <2>3, <3>1
  <2>4. CASE Raw(v) >= lower /\ Raw(v) <= upper
    <3>1. Centered(v, e) = 0
      BY <1>5, <2>1, <2>4
    <3> QED BY <2>1, <2>4, <3>1
  <2> QED BY <2>1, <2>2, <2>3, <2>4
<1>8. value >= high => Centered(value, e) = 1000
  <2> SUFFICES ASSUME value >= high PROVE Centered(value, e) = 1000
    OBVIOUS
  <2>1. Raw(value) = high /\ high > upper /\ ~(high < lower)
    BY <1>1, <1>a
  <2>2. Scaled(above, above) = 1000
    <3> HIDE DEF above
    <3> QED BY <1>2, ScaledEnd
  <2> QED BY <1>5, <2>1, <2>2
<1>9. value <= low => Centered(value, e) = -1000
  <2> SUFFICES ASSUME value <= low PROVE Centered(value, e) = -1000
    OBVIOUS
  <2>1. Raw(value) = low /\ low < lower
    BY <1>1, <1>a
  <2>2. Scaled(below, below) = 1000
    <3> HIDE DEF below
    <3> QED BY <1>2, ScaledEnd
  <2> QED BY <1>5, <2>1, <2>2
<1>10. ASSUME NEW other \in Nat, value <= other
       PROVE  Centered(value, e) <= Centered(other, e)
  <2>a. Centered(value, e) \in Int /\ Centered(other, e) \in Int
    BY <1>7
  <2>1. /\ Raw(value) \in Int /\ Raw(other) \in Int /\ Raw(value) <= Raw(other)
        /\ lower \in Int /\ upper \in Int /\ lower <= upper
    BY <1>1, <1>3, <1>4, <1>10
  <2>2. CASE Raw(other) < lower
    <3> DEFINE near == lower - Raw(other)
               far == lower - Raw(value)
    <3>1. near \in Nat /\ far \in Nat /\ near <= far /\ Raw(value) < lower
      BY <2>1, <2>2
    <3>2. Scaled(near, below) <= Scaled(far, below)
      <4> HIDE DEF near, far, below
      <4> QED BY <1>2, <3>1, ScaledOrder
    <3>3. Within(Scaled(near, below), 0, 1000) /\ Within(Scaled(far, below), 0, 1000)
      BY <1>6, <2>2, <3>1
    <3>4. Centered(value, e) = -Scaled(far, below)
          /\ Centered(other, e) = -Scaled(near, below)
      BY <1>5, <2>2, <3>1
    <3> HIDE DEF near, far, below
    <3> QED BY <3>2, <3>3, <3>4
  <2>3. CASE Raw(value) > upper
    <3> DEFINE near == Raw(value) - upper
               far == Raw(other) - upper
    <3>1. near \in Nat /\ far \in Nat /\ near <= far /\ Raw(other) > upper
          /\ ~(Raw(value) < lower) /\ ~(Raw(other) < lower)
      BY <2>1, <2>3
    <3>2. Scaled(near, above) <= Scaled(far, above)
      <4> HIDE DEF near, far, above
      <4> QED BY <1>2, <3>1, ScaledOrder
    <3>4. Centered(value, e) = Scaled(near, above)
          /\ Centered(other, e) = Scaled(far, above)
      BY <1>5, <2>3, <3>1
    <3> QED BY <3>2, <3>4
  <2>4. CASE Raw(other) >= lower /\ Raw(value) <= upper
    <3>1. Centered(value, e) <= 0
      BY <1>7, <2>1, <2>4
    <3>2. Centered(other, e) >= 0
      BY <1>7, <2>1, <2>4
    <3> QED BY <2>a, <3>1, <3>2
  <2> QED BY <2>1, <2>2, <2>3, <2>4
<1>11. Within(Centered(value, e), -1000, 1000)
  BY <1>7
<1> QED BY <1>8, <1>9, <1>10, <1>11 DEF low, high

LEMMA UnipolarFollows ==
  ASSUME NEW e \in Entry, EntryIsValid(e), NEW value \in Nat
  PROVE  /\ Within(Unipolar(value, e), 0, 1000)
         /\ value >= e.raw_max => Unipolar(value, e) = 1000
         /\ value <= e.raw_min => Unipolar(value, e) = 0
         /\ \A other \in Nat :
              value <= other => Unipolar(value, e) <= Unipolar(other, e)
<1> USE DEF Within
<1> DEFINE low == e.raw_min
           high == e.raw_max
           lower == e.raw_min + e.deadband
           span == high - lower
           Raw(v) == Clamp(v, low, high)
<1>1. /\ low \in Nat /\ high \in Nat /\ lower \in Nat
      /\ low <= lower /\ lower < high
  BY DEF Entry, EntryIsValid
<1>2. span \in Nat \ {0}
  BY <1>1
<1>3. \A v \in Nat : Raw(v) \in low..high
  BY <1>1 DEF Clamp
<1>4. \A v, w \in Nat : v <= w => Raw(v) <= Raw(w)
  BY <1>1 DEF Clamp
<1>5. \A v \in Nat :
        Unipolar(v, e) = IF Raw(v) <= lower THEN 0 ELSE Scaled(Raw(v) - lower, span)
  BY DEF Unipolar
<1>6. (value >= high => Raw(value) = high) /\ (value <= low => Raw(value) = low)
  BY <1>1 DEF Clamp
<1> HIDE DEF low, high, lower, Raw
<1>7. ASSUME NEW v \in Nat
      PROVE  Within(Unipolar(v, e), 0, 1000)
  <2>1. Raw(v) \in Int /\ lower \in Int
    BY <1>1, <1>3
  <2>2. CASE Raw(v) <= lower
    BY <1>5, <2>2
  <2>3. CASE ~(Raw(v) <= lower)
    <3>1. PICK d \in 0..span : d = Raw(v) - lower
      BY <1>1, <1>3, <2>1, <2>3
    <3>2. Within(Scaled(d, span), 0, 1000)
      <4> HIDE DEF span
      <4> QED BY <1>2, ScaledRange
    <3> QED BY <1>5, <2>3, <3>1, <3>2
  <2> QED BY <2>2, <2>3
<1>8. value >= high => Unipolar(value, e) = 1000
  <2> SUFFICES ASSUME value >= high PROVE Unipolar(value, e) = 1000
    OBVIOUS
  <2>1. Raw(value) = high /\ ~(high <= lower)
    BY <1>1, <1>6
  <2>2. Scaled(span, span) = 1000
    <3> HIDE DEF span
    <3> QED BY <1>2, ScaledEnd
  <2> QED BY <1>5, <2>1, <2>2
<1>9. value <= low => Unipolar(value, e) = 0
  BY <1>1, <1>5, <1>6
<1>10. ASSUME NEW other \in Nat, value <= other
       PROVE  Unipolar(value, e) <= Unipolar(other, e)
  <2>1. /\ Raw(value) \in Int /\ Raw(other) \in Int /\ Raw(value) <= Raw(other)
        /\ lower \in Int
    BY <1>1, <1>3, <1>4, <1>10
  <2>2. Within(Unipolar(other, e), 0, 1000)
    BY <1>7
  <2>3. CASE Raw(value) <= lower
    <3>1. Unipolar(value, e) = 0
      BY <1>5, <2>3
    <3> QED BY <2>2, <3>1
  <2>4. CASE ~(Raw(value) <= lower)
    <3> DEFINE near == Raw(value) - lower
               far == Raw(other) - lower
    <3>1. near \in Nat /\ far \in Nat /\ near <= far /\ ~(Raw(other) <= lower)
      BY <2>1, <2>4
    <3>2. Scaled(near, span) <= Scaled(far, span)
      <4> HIDE DEF near, far, span
      <4> QED BY <1>2, <3>1, ScaledOrder
    <3>3. Unipolar(value, e) = Scaled(near, span) /\ Unipolar(other, e) = Scaled(far, span)
      BY <1>5, <2>4, <3>1
    <3> QED BY <3>2, <3>3
  <2> QED BY <2>3, <2>4
<1>11. Within(Unipolar(value, e), 0, 1000)
  BY <1>7
<1> QED BY <1>8, <1>9, <1>10, <1>11 DEF low, high

LEMMA SwitchesFollow ==
  ASSUME NEW e \in Entry, EntryIsValid(e), NEW value \in Nat
  PROVE  /\ Within(TwoPositions(value, e), 0, 1000)
         /\ value >= e.raw_max => TwoPositions(value, e) = 1000
         /\ value <= e.raw_min => TwoPositions(value, e) = 0
         /\ \A other \in Nat :
              value <= other => TwoPositions(value, e) <= TwoPositions(other, e)
         /\ Within(ThreePositions(value, e), -1000, 1000)
         /\ value >= e.raw_max => ThreePositions(value, e) = 1000
         /\ value <= e.raw_min => ThreePositions(value, e) = -1000
         /\ \A other \in Nat :
              value <= other => ThreePositions(value, e) <= ThreePositions(other, e)
<1> USE DEF Within
<1>1. /\ e.raw_min \in Nat /\ e.raw_center \in Nat /\ e.raw_max \in Nat
      /\ e.deadband \in Nat
      /\ e.raw_min < e.raw_center - e.deadband
      /\ e.raw_center + e.deadband < e.raw_max
  BY DEF Entry, EntryIsValid
<1>3. Within(TwoPositions(value, e), 0, 1000) /\ Within(ThreePositions(value, e), -1000, 1000)
  <2>1. TwoPositions(value, e) \in {0, 1000}
        /\ ThreePositions(value, e) \in {-1000, 0, 1000}
    BY DEF TwoPositions, ThreePositions
  <2> QED BY <2>1
<1>4. /\ value >= e.raw_max => TwoPositions(value, e) = 1000
      /\ value <= e.raw_min => TwoPositions(value, e) = 0
      /\ \A other \in Nat :
           value <= other => TwoPositions(value, e) <= TwoPositions(other, e)
  BY <1>1 DEF TwoPositions
<1>5. /\ value >= e.raw_max => ThreePositions(value, e) = 1000
      /\ value <= e.raw_min => ThreePositions(value, e) = -1000
      /\ \A other \in Nat :
           value <= other => ThreePositions(value, e) <= ThreePositions(other, e)
  BY <1>1 DEF ThreePositions
<1> QED BY <1>3, <1>4, <1>5

LEMMA NormalizeFollows ==
  ASSUME NEW e \in Entry, EntryIsValid(e), NEW value \in Nat
  PROVE  /\ Within(Normalize(value, e), Low(e), 1000)
         /\ value >= e.raw_max => Normalize(value, e) = 1000
         /\ value <= e.raw_min => Normalize(value, e) = Low(e)
         /\ \A other \in Nat :
              value <= other => Normalize(value, e) <= Normalize(other, e)
<1> USE DEF Within
<1>1. CASE e.mode = "CENTERED"
  <2>1. Low(e) = -1000 /\ \A v : Normalize(v, e) = Centered(v, e)
    BY <1>1 DEF Low, OneSided, Normalize
  <2>2. /\ Within(Centered(value, e), -1000, 1000)
        /\ value >= e.raw_max => Centered(value, e) = 1000
        /\ value <= e.raw_min => Centered(value, e) = -1000
    BY CenteredFollows
  <2>3. \A other \in Nat : value <= other => Centered(value, e) <= Centered(other, e)
    BY CenteredFollows
  <2>4. \A other \in Nat : value <= other => Normalize(value, e) <= Normalize(other, e)
    BY <2>1, <2>3
  <2>5. /\ value >= e.raw_max => Normalize(value, e) = 1000
        /\ value <= e.raw_min => Normalize(value, e) = Low(e)
    BY <2>1, <2>2
  <2>6. Within(Normalize(value, e), Low(e), 1000)
    BY <2>1, <2>2
  <2> QED BY <2>4, <2>5, <2>6
<1>2. CASE e.mode = "UNIPOLAR"
  <2>1. Low(e) = 0 /\ \A v : Normalize(v, e) = Unipolar(v, e)
    BY <1>2 DEF Low, OneSided, Normalize
  <2>2. /\ Within(Unipolar(value, e), 0, 1000)
        /\ value >= e.raw_max => Unipolar(value, e) = 1000
        /\ value <= e.raw_min => Unipolar(value, e) = 0
    BY UnipolarFollows
  <2>3. \A other \in Nat : value <= other => Unipolar(value, e) <= Unipolar(other, e)
    BY UnipolarFollows
  <2>4. \A other \in Nat : value <= other => Normalize(value, e) <= Normalize(other, e)
    BY <2>1, <2>3
  <2>5. /\ value >= e.raw_max => Normalize(value, e) = 1000
        /\ value <= e.raw_min => Normalize(value, e) = Low(e)
    BY <2>1, <2>2
  <2>6. Within(Normalize(value, e), Low(e), 1000)
    BY <2>1, <2>2
  <2> QED BY <2>4, <2>5, <2>6
<1>3. CASE e.mode = "SWITCH_2POS"
  <2>1. Low(e) = 0 /\ \A v : Normalize(v, e) = TwoPositions(v, e)
    BY <1>3 DEF Low, OneSided, Normalize
  <2>2. /\ Within(TwoPositions(value, e), 0, 1000)
        /\ value >= e.raw_max => TwoPositions(value, e) = 1000
        /\ value <= e.raw_min => TwoPositions(value, e) = 0
    BY SwitchesFollow
  <2>3. \A other \in Nat : value <= other => TwoPositions(value, e) <= TwoPositions(other, e)
    BY SwitchesFollow
  <2>4. \A other \in Nat : value <= other => Normalize(value, e) <= Normalize(other, e)
    BY <2>1, <2>3
  <2>5. /\ value >= e.raw_max => Normalize(value, e) = 1000
        /\ value <= e.raw_min => Normalize(value, e) = Low(e)
    BY <2>1, <2>2
  <2>6. Within(Normalize(value, e), Low(e), 1000)
    BY <2>1, <2>2
  <2> QED BY <2>4, <2>5, <2>6
<1>4. CASE e.mode = "SWITCH_3POS"
  <2>1. Low(e) = -1000 /\ \A v : Normalize(v, e) = ThreePositions(v, e)
    BY <1>4 DEF Low, OneSided, Normalize
  <2>2. /\ Within(ThreePositions(value, e), -1000, 1000)
        /\ value >= e.raw_max => ThreePositions(value, e) = 1000
        /\ value <= e.raw_min => ThreePositions(value, e) = -1000
    BY SwitchesFollow
  <2>3. \A other \in Nat : value <= other => ThreePositions(value, e) <= ThreePositions(other, e)
    BY SwitchesFollow
  <2>4. \A other \in Nat : value <= other => Normalize(value, e) <= Normalize(other, e)
    BY <2>1, <2>3
  <2>5. /\ value >= e.raw_max => Normalize(value, e) = 1000
        /\ value <= e.raw_min => Normalize(value, e) = Low(e)
    BY <2>1, <2>2
  <2>6. Within(Normalize(value, e), Low(e), 1000)
    BY <2>1, <2>2
  <2> QED BY <2>4, <2>5, <2>6
<1> QED BY <1>1, <1>2, <1>3, <1>4 DEF Entry, Modes

\* Reversing turns the range and the order round.
LEMMA MappedFollows ==
  ASSUME NEW e \in Entry, EntryIsValid(e), NEW value \in Nat
  PROVE  /\ Within(Mapped(value, e), Low(e), 1000)
         /\ EndsReached(value, e)
         /\ \A other \in Nat : InOrder(value, other, e)
<1> USE DEF Within
<1>1. \/ OneSided(e) /\ Low(e) = 0
      \/ ~OneSided(e) /\ Low(e) = -1000
  BY DEF Low
<1>2. \A v \in Nat : Normalize(v, e) \in Int
  BY <1>1, NormalizeFollows
<1>3. CASE ~e.reversed
  <2>1. \A v : Mapped(v, e) = Normalize(v, e)
    BY <1>3 DEF Mapped, ApplyReverse
  <2> QED BY <1>3, <2>1, NormalizeFollows DEF EndsReached, InOrder
<1>4. CASE e.reversed
  <2>1. \A v : Mapped(v, e) = IF OneSided(e) THEN 1000 - Normalize(v, e)
                              ELSE -Normalize(v, e)
    BY <1>4 DEF Mapped, ApplyReverse
  <2>2. CASE OneSided(e)
    <3>1. Within(Mapped(value, e), Low(e), 1000)
      BY <1>1, <2>1, <2>2, NormalizeFollows
    <3>2. EndsReached(value, e)
      BY <1>1, <1>4, <2>1, <2>2, NormalizeFollows DEF EndsReached
    <3>3. \A other \in Nat : InOrder(value, other, e)
      BY <1>2, <1>4, <2>1, <2>2, NormalizeFollows DEF InOrder
    <3> QED BY <3>1, <3>2, <3>3
  <2>3. CASE ~OneSided(e)
    <3>1. Within(Mapped(value, e), Low(e), 1000)
      BY <1>1, <2>1, <2>3, NormalizeFollows
    <3>2. EndsReached(value, e)
      BY <1>1, <1>4, <2>1, <2>3, NormalizeFollows DEF EndsReached
    <3>3. \A other \in Nat : InOrder(value, other, e)
      BY <1>2, <1>4, <2>1, <2>3, NormalizeFollows DEF InOrder
    <3> QED BY <3>1, <3>2, <3>3
  <2> QED BY <2>2, <2>3
<1> QED BY <1>3, <1>4

\* The pulse is clamped.
LEMMA PulseInRange ==
  ASSUME NEW e, NEW n \in Int
  PROVE  PulseUs(n, e) \in Pulses
<1>1. ASSUME NEW p \in Int PROVE Clamp(p, 1000, 2000) \in Pulses
  BY DEF Clamp, Pulses
<1>2. Half(n) \in Int
  <2>1. n \div 2 \in Int /\ (-n) \div 2 \in Int
    OBVIOUS
  <2> QED BY <2>1 DEF Half
<1>3. 1000 + n \in Int /\ 1500 + Half(n) \in Int
  BY <1>2
<1> QED BY <1>1, <1>3 DEF PulseUs

MapInv == MapTypeOK

LEMMA MapStart == MapInit => MapInv
BY DEF MapInit, MapInv, MapTypeOK

LEMMA MapKept == MapInv /\ [Move]_mapVars => MapInv'
BY DEF MapInv, MapTypeOK, Move, mapVars

LEMMA MapShows == MapInv => MapTypeOK /\ StickFollowed
<1> SUFFICES ASSUME MapInv, map_raw # NoRaw
             PROVE  /\ InRange(map_raw, map_entry)
                    /\ EndsReached(map_raw, map_entry)
                    /\ \A other \in RawValues : InOrder(map_raw, other, map_entry)
  BY DEF MapInv, StickFollowed
<1>1. map_entry \in Entry /\ EntryIsValid(map_entry) /\ map_raw \in Nat
      /\ RawValues \subseteq Nat
  BY EntriesAssumption DEF MapInv, MapTypeOK
<1>2. /\ Within(Mapped(map_raw, map_entry), Low(map_entry), 1000)
      /\ EndsReached(map_raw, map_entry)
      /\ \A other \in Nat : InOrder(map_raw, other, map_entry)
  BY <1>1, MappedFollows
<1>3. Mapped(map_raw, map_entry) \in Int
  BY <1>2 DEF Within
<1>4. PulseUs(Mapped(map_raw, map_entry), map_entry) \in Pulses
  BY <1>3, PulseInRange
<1>5. Low(map_entry) \in Int
  BY DEF Low
<1>6. Mapped(map_raw, map_entry) \in Low(map_entry)..1000
  BY <1>2, <1>5 DEF Within
<1> QED BY <1>1, <1>2, <1>4, <1>6 DEF InRange

-----------------------------------------------------------------------------
(* The checksum of the link.                                               *)

Register == [1..16 -> Bit]

LEMMA XorBits ==
  \A a, b, d \in Bit : Xor(a, b) \in Bit /\ (Xor(a, b) = Xor(d, b) => a = d)
                       /\ (Xor(a, b) = Xor(a, d) => b = d)
BY DEF Bit, Xor

LEMMA XorBack ==
  ASSUME NEW a \in Bit, NEW b \in Bit, NEW d \in Bit, Xor(a, d) = Xor(b, d)
  PROVE  a = b
BY XorBits

\* Sixteen bits are a register, and make it.
LEMMA Bits ==
  ASSUME NEW c \in Register
  PROVE  /\ c[1] \in Bit /\ c[2] \in Bit /\ c[3] \in Bit /\ c[4] \in Bit
         /\ c[5] \in Bit /\ c[6] \in Bit /\ c[7] \in Bit /\ c[8] \in Bit
         /\ c[9] \in Bit /\ c[10] \in Bit /\ c[11] \in Bit /\ c[12] \in Bit
         /\ c[13] \in Bit /\ c[14] \in Bit /\ c[15] \in Bit /\ c[16] \in Bit
BY DEF Register

LEMMA TupleOfBits ==
  ASSUME NEW a1 \in Bit, NEW a2 \in Bit, NEW a3 \in Bit, NEW a4 \in Bit,
         NEW a5 \in Bit, NEW a6 \in Bit, NEW a7 \in Bit, NEW a8 \in Bit,
         NEW a9 \in Bit, NEW a10 \in Bit, NEW a11 \in Bit, NEW a12 \in Bit,
         NEW a13 \in Bit, NEW a14 \in Bit, NEW a15 \in Bit, NEW a16 \in Bit
  PROVE  <<a1, a2, a3, a4, a5, a6, a7, a8,
           a9, a10, a11, a12, a13, a14, a15, a16>> \in Register
BY DEF Register

LowerHalf(c, d) ==
  /\ c[1] = d[1] /\ c[2] = d[2] /\ c[3] = d[3] /\ c[4] = d[4]
  /\ c[5] = d[5] /\ c[6] = d[6] /\ c[7] = d[7] /\ c[8] = d[8]

UpperHalf(c, d) ==
  /\ c[9] = d[9] /\ c[10] = d[10] /\ c[11] = d[11] /\ c[12] = d[12]
  /\ c[13] = d[13] /\ c[14] = d[14] /\ c[15] = d[15] /\ c[16] = d[16]

LEMMA Halves ==
  ASSUME NEW c \in Register, NEW d \in Register, LowerHalf(c, d), UpperHalf(c, d)
  PROVE  c = d
<1>1. \A k \in 1..16 : c[k] = d[k]
  BY DEF LowerHalf, UpperHalf
<1> QED BY <1>1 DEF Register

LEMMA ShiftedBit ==
  ASSUME NEW c \in Register
  PROVE  LET s == ShiftBit(c) IN
         /\ s \in Register
         /\ s[1] = c[16] /\ s[2] = c[1] /\ s[3] = c[2] /\ s[4] = c[3]
         /\ s[5] = c[4] /\ s[6] = Xor(c[5], c[16]) /\ s[7] = c[6] /\ s[8] = c[7]
         /\ s[9] = c[8] /\ s[10] = c[9] /\ s[11] = c[10] /\ s[12] = c[11]
         /\ s[13] = Xor(c[12], c[16])
         /\ s[14] = c[13] /\ s[15] = c[14] /\ s[16] = c[15]
<1>1. Xor(c[5], c[16]) \in Bit /\ Xor(c[12], c[16]) \in Bit
  BY Bits, XorBits
<1>2. ShiftBit(c) \in Register
  BY <1>1, Bits, TupleOfBits DEF ShiftBit
<1> QED BY <1>2 DEF ShiftBit

LEMMA ShiftedTwo ==
  ASSUME NEW c \in Register
  PROVE  LET s == ShiftTwo(c) IN
         /\ s \in Register
         /\ s[1] = c[15] /\ s[2] = c[16] /\ s[3] = c[1] /\ s[4] = c[2]
         /\ s[5] = c[3] /\ s[6] = Xor(c[4], c[15]) /\ s[7] = Xor(c[5], c[16])
         /\ s[8] = c[6] /\ s[9] = c[7] /\ s[10] = c[8] /\ s[11] = c[9]
         /\ s[12] = c[10] /\ s[13] = Xor(c[11], c[15])
         /\ s[14] = Xor(c[12], c[16]) /\ s[15] = c[13] /\ s[16] = c[14]
<1> DEFINE s == ShiftBit(c)
<1>1. s \in Register
  BY ShiftedBit
<1> HIDE DEF s
<1>2. ShiftTwo(c) = ShiftBit(s)
  BY DEF ShiftTwo, s
<1> QED BY <1>1, <1>2, ShiftedBit DEF s

LEMMA ShiftedFour ==
  ASSUME NEW c \in Register
  PROVE  LET s == ShiftFour(c) IN
         /\ s \in Register
         /\ s[1] = c[13] /\ s[2] = c[14] /\ s[3] = c[15] /\ s[4] = c[16]
         /\ s[5] = c[1] /\ s[6] = Xor(c[2], c[13]) /\ s[7] = Xor(c[3], c[14])
         /\ s[8] = Xor(c[4], c[15]) /\ s[9] = Xor(c[5], c[16])
         /\ s[10] = c[6] /\ s[11] = c[7] /\ s[12] = c[8]
         /\ s[13] = Xor(c[9], c[13]) /\ s[14] = Xor(c[10], c[14])
         /\ s[15] = Xor(c[11], c[15]) /\ s[16] = Xor(c[12], c[16])
<1> DEFINE s == ShiftTwo(c)
<1>1. s \in Register
  BY ShiftedTwo
<1> HIDE DEF s
<1>2. ShiftFour(c) = ShiftTwo(s)
  BY DEF ShiftFour, s
<1> QED BY <1>1, <1>2, ShiftedTwo DEF s

LEMMA ShiftFourBack ==
  ASSUME NEW c \in Register, NEW d \in Register, ShiftFour(c) = ShiftFour(d)
  PROVE  c = d
<1>1. c[13] = d[13] /\ c[14] = d[14] /\ c[15] = d[15] /\ c[16] = d[16]
  BY ShiftedFour
<1>2. c[1] = d[1] /\ c[6] = d[6] /\ c[7] = d[7] /\ c[8] = d[8]
  BY ShiftedFour
<1>3. /\ Xor(c[2], c[13]) = Xor(d[2], c[13]) /\ Xor(c[3], c[14]) = Xor(d[3], c[14])
      /\ Xor(c[4], c[15]) = Xor(d[4], c[15]) /\ Xor(c[5], c[16]) = Xor(d[5], c[16])
      /\ Xor(c[9], c[13]) = Xor(d[9], c[13]) /\ Xor(c[10], c[14]) = Xor(d[10], c[14])
      /\ Xor(c[11], c[15]) = Xor(d[11], c[15]) /\ Xor(c[12], c[16]) = Xor(d[12], c[16])
  BY <1>1, ShiftedFour
<1>4. c[2] = d[2] /\ c[3] = d[3] /\ c[4] = d[4] /\ c[5] = d[5]
  <2>1. /\ c[2] \in Bit /\ c[3] \in Bit /\ c[4] \in Bit /\ c[5] \in Bit
        /\ d[2] \in Bit /\ d[3] \in Bit /\ d[4] \in Bit /\ d[5] \in Bit
        /\ c[13] \in Bit /\ c[14] \in Bit /\ c[15] \in Bit /\ c[16] \in Bit
    BY Bits
  <2>2. c[2] = d[2]
    BY <2>1, <1>3, XorBack
  <2>3. c[3] = d[3]
    BY <2>1, <1>3, XorBack
  <2>4. c[4] = d[4]
    BY <2>1, <1>3, XorBack
  <2>5. c[5] = d[5]
    BY <2>1, <1>3, XorBack
  <2> QED BY <2>2, <2>3, <2>4, <2>5
<1>5. c[9] = d[9] /\ c[10] = d[10] /\ c[11] = d[11] /\ c[12] = d[12]
  <2>1. /\ c[9] \in Bit /\ c[10] \in Bit /\ c[11] \in Bit /\ c[12] \in Bit
        /\ d[9] \in Bit /\ d[10] \in Bit /\ d[11] \in Bit /\ d[12] \in Bit
        /\ c[13] \in Bit /\ c[14] \in Bit /\ c[15] \in Bit /\ c[16] \in Bit
    BY Bits
  <2>2. c[9] = d[9]
    BY <2>1, <1>3, XorBack
  <2>3. c[10] = d[10]
    BY <2>1, <1>3, XorBack
  <2>4. c[11] = d[11]
    BY <2>1, <1>3, XorBack
  <2>5. c[12] = d[12]
    BY <2>1, <1>3, XorBack
  <2> QED BY <2>2, <2>3, <2>4, <2>5
<1> QED BY <1>1, <1>2, <1>4, <1>5, Halves DEF LowerHalf, UpperHalf

LEMMA ShiftByteFour ==
  ASSUME NEW c \in Register
  PROVE  ShiftByte(c) = ShiftFour(ShiftFour(c)) /\ ShiftByte(c) \in Register
<1>1. ShiftFour(ShiftFour(c)) \in Register
  BY ShiftedFour
<1>2. CASE c = Zero
  <2>1. /\ c[1] = 0 /\ c[2] = 0 /\ c[3] = 0 /\ c[4] = 0
        /\ c[5] = 0 /\ c[6] = 0 /\ c[7] = 0 /\ c[8] = 0
        /\ c[9] = 0 /\ c[10] = 0 /\ c[11] = 0 /\ c[12] = 0
        /\ c[13] = 0 /\ c[14] = 0 /\ c[15] = 0 /\ c[16] = 0
    BY <1>2 DEF Zero
  <2>2. Xor(0, 0) = 0
    BY DEF Xor
  <2>3. LowerHalf(ShiftFour(c), c) /\ UpperHalf(ShiftFour(c), c)
    BY <2>1, <2>2, ShiftedFour DEF LowerHalf, UpperHalf
  <2>4. ShiftFour(c) = c
    BY <2>3, Halves, ShiftedFour
  <2> QED BY <1>2, <2>4 DEF ShiftByte
<1> QED BY <1>1, <1>2 DEF ShiftByte

\* Nothing is lost in a shift ...
LEMMA ShiftByteBack ==
  ASSUME NEW c \in Register, NEW d \in Register, ShiftByte(c) = ShiftByte(d)
  PROVE  c = d
<1>1. ShiftFour(c) \in Register /\ ShiftFour(d) \in Register
  BY ShiftedFour
<1>2. ShiftFour(ShiftFour(c)) = ShiftFour(ShiftFour(d))
  BY ShiftByteFour
<1>3. ShiftFour(c) = ShiftFour(d)
  BY <1>1, <1>2, ShiftFourBack
<1> QED BY <1>3, ShiftFourBack

\* ... and what was in the upper half shows in the lower one.
LEMMA LowerHalfTells ==
  ASSUME NEW c \in Register, NEW d \in Register, LowerHalf(c, d),
         LowerHalf(ShiftByte(c), ShiftByte(d))
  PROVE  c = d
<1> DEFINE s == ShiftFour(c)
           t == ShiftFour(d)
<1>1. s \in Register /\ t \in Register
  BY ShiftedFour
<1>2. LowerHalf(ShiftFour(s), ShiftFour(t))
  BY ShiftByteFour
<1> HIDE DEF s, t
<1>3. /\ s[13] = t[13] /\ s[14] = t[14] /\ s[15] = t[15] /\ s[16] = t[16]
      /\ s[1] = t[1] /\ Xor(s[2], s[13]) = Xor(t[2], t[13])
      /\ Xor(s[3], s[14]) = Xor(t[3], t[14]) /\ Xor(s[4], s[15]) = Xor(t[4], t[15])
  BY <1>1, <1>2, ShiftedFour DEF LowerHalf
<1>4. /\ Xor(s[2], s[13]) = Xor(t[2], s[13]) /\ Xor(s[3], s[14]) = Xor(t[3], s[14])
      /\ Xor(s[4], s[15]) = Xor(t[4], s[15])
  BY <1>3
<1>5. s[2] = t[2] /\ s[3] = t[3] /\ s[4] = t[4]
  <2>1. /\ s[2] \in Bit /\ s[3] \in Bit /\ s[4] \in Bit
        /\ t[2] \in Bit /\ t[3] \in Bit /\ t[4] \in Bit
        /\ s[13] \in Bit /\ s[14] \in Bit /\ s[15] \in Bit
    BY <1>1, Bits
  <2>2. s[2] = t[2]
    BY <2>1, <1>4, XorBack
  <2>3. s[3] = t[3]
    BY <2>1, <1>4, XorBack
  <2>4. s[4] = t[4]
    BY <2>1, <1>4, XorBack
  <2> QED BY <2>2, <2>3, <2>4
<1>6. c[13] = d[13] /\ c[14] = d[14] /\ c[15] = d[15] /\ c[16] = d[16]
  BY <1>3, <1>5, ShiftedFour DEF s, t
<1>7. /\ Xor(c[9], c[13]) = Xor(d[9], c[13]) /\ Xor(c[10], c[14]) = Xor(d[10], c[14])
      /\ Xor(c[11], c[15]) = Xor(d[11], c[15]) /\ Xor(c[12], c[16]) = Xor(d[12], c[16])
  BY <1>3, <1>6, ShiftedFour DEF s, t
<1>8. c[9] = d[9] /\ c[10] = d[10] /\ c[11] = d[11] /\ c[12] = d[12]
  <2>1. /\ c[9] \in Bit /\ c[10] \in Bit /\ c[11] \in Bit /\ c[12] \in Bit
        /\ d[9] \in Bit /\ d[10] \in Bit /\ d[11] \in Bit /\ d[12] \in Bit
        /\ c[13] \in Bit /\ c[14] \in Bit /\ c[15] \in Bit /\ c[16] \in Bit
    BY Bits
  <2>2. c[9] = d[9]
    BY <2>1, <1>7, XorBack
  <2>3. c[10] = d[10]
    BY <2>1, <1>7, XorBack
  <2>4. c[11] = d[11]
    BY <2>1, <1>7, XorBack
  <2>5. c[12] = d[12]
    BY <2>1, <1>7, XorBack
  <2> QED BY <2>2, <2>3, <2>4, <2>5
<1> QED BY <1>6, <1>8, Halves DEF UpperHalf

\* The eight bits of a byte make it.
LEMMA ByteBits ==
  ASSUME NEW b \in 0..255
  PROVE  /\ b = 2 * (b \div 2) + BitOf(b, 1)
         /\ b \div 2 = 2 * (b \div 4) + BitOf(b, 2)
         /\ b \div 4 = 2 * (b \div 8) + BitOf(b, 4)
         /\ b \div 8 = 2 * (b \div 16) + BitOf(b, 8)
         /\ b \div 16 = 2 * (b \div 32) + BitOf(b, 16)
         /\ b \div 32 = 2 * (b \div 64) + BitOf(b, 32)
         /\ b \div 64 = 2 * (b \div 128) + BitOf(b, 64)
         /\ b \div 128 = BitOf(b, 128)
<1>1. b = 2 * (b \div 2) + BitOf(b, 1)
  BY DEF BitOf
<1>2. b \div 2 = 2 * (b \div 4) + BitOf(b, 2)
  BY DEF BitOf
<1>3. b \div 4 = 2 * (b \div 8) + BitOf(b, 4)
  BY DEF BitOf
<1>4. b \div 8 = 2 * (b \div 16) + BitOf(b, 8)
  BY DEF BitOf
<1>5. b \div 16 = 2 * (b \div 32) + BitOf(b, 16)
  BY DEF BitOf
<1>6. b \div 32 = 2 * (b \div 64) + BitOf(b, 32)
  BY DEF BitOf
<1>7. b \div 64 = 2 * (b \div 128) + BitOf(b, 64)
  BY DEF BitOf
<1>8. b \div 128 = BitOf(b, 128)
  BY DEF BitOf
<1> QED BY <1>1, <1>2, <1>3, <1>4, <1>5, <1>6, <1>7, <1>8

LEMMA BitsTell ==
  ASSUME NEW x \in 0..255, NEW y \in 0..255,
         \A w \in {1, 2, 4, 8, 16, 32, 64, 128} : BitOf(x, w) = BitOf(y, w)
  PROVE  x = y
<1>1. BitOf(x, 1) = BitOf(y, 1) /\ BitOf(x, 2) = BitOf(y, 2)
      /\ BitOf(x, 4) = BitOf(y, 4) /\ BitOf(x, 8) = BitOf(y, 8)
      /\ BitOf(x, 16) = BitOf(y, 16) /\ BitOf(x, 32) = BitOf(y, 32)
      /\ BitOf(x, 64) = BitOf(y, 64) /\ BitOf(x, 128) = BitOf(y, 128)
  OBVIOUS
<1>2. x \div 128 = y \div 128
  <2>1. x \div 128 = BitOf(x, 128)
    BY ByteBits
  <2>2. y \div 128 = BitOf(y, 128)
    BY ByteBits
  <2> QED BY ONLY <1>1, <2>1, <2>2
<1>3. x \div 64 = y \div 64
  <2>1. x \div 64 = 2 * (x \div 128) + BitOf(x, 64)
    BY ByteBits
  <2>2. y \div 64 = 2 * (y \div 128) + BitOf(y, 64)
    BY ByteBits
  <2> QED BY ONLY <1>1, <1>2, <2>1, <2>2
<1>4. x \div 32 = y \div 32
  <2>1. x \div 32 = 2 * (x \div 64) + BitOf(x, 32)
    BY ByteBits
  <2>2. y \div 32 = 2 * (y \div 64) + BitOf(y, 32)
    BY ByteBits
  <2> QED BY ONLY <1>1, <1>3, <2>1, <2>2
<1>5. x \div 16 = y \div 16
  <2>1. x \div 16 = 2 * (x \div 32) + BitOf(x, 16)
    BY ByteBits
  <2>2. y \div 16 = 2 * (y \div 32) + BitOf(y, 16)
    BY ByteBits
  <2> QED BY ONLY <1>1, <1>4, <2>1, <2>2
<1>6. x \div 8 = y \div 8
  <2>1. x \div 8 = 2 * (x \div 16) + BitOf(x, 8)
    BY ByteBits
  <2>2. y \div 8 = 2 * (y \div 16) + BitOf(y, 8)
    BY ByteBits
  <2> QED BY ONLY <1>1, <1>5, <2>1, <2>2
<1>7. x \div 4 = y \div 4
  <2>1. x \div 4 = 2 * (x \div 8) + BitOf(x, 4)
    BY ByteBits
  <2>2. y \div 4 = 2 * (y \div 8) + BitOf(y, 4)
    BY ByteBits
  <2> QED BY ONLY <1>1, <1>6, <2>1, <2>2
<1>8. x \div 2 = y \div 2
  <2>1. x \div 2 = 2 * (x \div 4) + BitOf(x, 2)
    BY ByteBits
  <2>2. y \div 2 = 2 * (y \div 4) + BitOf(y, 2)
    BY ByteBits
  <2> QED BY ONLY <1>1, <1>7, <2>1, <2>2
<1>9. x = y
  <2>1. x = 2 * (x \div 2) + BitOf(x, 1)
    BY ByteBits
  <2>2. y = 2 * (y \div 2) + BitOf(y, 1)
    BY ByteBits
  <2> QED BY ONLY <1>1, <1>8, <2>1, <2>2
<1> QED BY <1>9

LEMMA ByteBit ==
  \A b \in 0..255 : \A w \in {1, 2, 4, 8, 16, 32, 64, 128} : BitOf(b, w) \in Bit
BY DEF BitOf, Bit

\* A byte that meets the register changes its upper half alone, and what it
\* makes of it tells both.
LEMMA MetBits ==
  ASSUME NEW c \in Register, NEW b \in 0..255
  PROVE  Meet(c, b) \in Register /\ LowerHalf(Meet(c, b), c)
<1>1. /\ Xor(c[9], BitOf(b, 1)) \in Bit /\ Xor(c[10], BitOf(b, 2)) \in Bit
      /\ Xor(c[11], BitOf(b, 4)) \in Bit /\ Xor(c[12], BitOf(b, 8)) \in Bit
      /\ Xor(c[13], BitOf(b, 16)) \in Bit /\ Xor(c[14], BitOf(b, 32)) \in Bit
      /\ Xor(c[15], BitOf(b, 64)) \in Bit /\ Xor(c[16], BitOf(b, 128)) \in Bit
  <2>1. \A w \in {1, 2, 4, 8, 16, 32, 64, 128} : BitOf(b, w) \in Bit
    BY ByteBit
  <2>2. /\ c[9] \in Bit /\ c[10] \in Bit /\ c[11] \in Bit /\ c[12] \in Bit
        /\ c[13] \in Bit /\ c[14] \in Bit /\ c[15] \in Bit /\ c[16] \in Bit
    BY Bits
  <2> QED BY ONLY <2>1, <2>2, XorBits
<1>2. Meet(c, b) \in Register
  BY <1>1, Bits, TupleOfBits DEF Meet
<1> QED BY <1>2 DEF Meet, LowerHalf

LEMMA MetUpper ==
  ASSUME NEW c, NEW b
  PROVE  /\ Meet(c, b)[9] = Xor(c[9], BitOf(b, 1))
         /\ Meet(c, b)[10] = Xor(c[10], BitOf(b, 2))
         /\ Meet(c, b)[11] = Xor(c[11], BitOf(b, 4))
         /\ Meet(c, b)[12] = Xor(c[12], BitOf(b, 8))
         /\ Meet(c, b)[13] = Xor(c[13], BitOf(b, 16))
         /\ Meet(c, b)[14] = Xor(c[14], BitOf(b, 32))
         /\ Meet(c, b)[15] = Xor(c[15], BitOf(b, 64))
         /\ Meet(c, b)[16] = Xor(c[16], BitOf(b, 128))
BY DEF Meet

LEMMA MetByte ==
  ASSUME NEW c \in Register, NEW x \in 0..255, NEW y \in 0..255,
         Meet(c, x) = Meet(c, y)
  PROVE  x = y
<1>1. /\ Meet(c, x)[9] = Xor(c[9], BitOf(x, 1))
      /\ Meet(c, x)[10] = Xor(c[10], BitOf(x, 2))
      /\ Meet(c, x)[11] = Xor(c[11], BitOf(x, 4))
      /\ Meet(c, x)[12] = Xor(c[12], BitOf(x, 8))
      /\ Meet(c, x)[13] = Xor(c[13], BitOf(x, 16))
      /\ Meet(c, x)[14] = Xor(c[14], BitOf(x, 32))
      /\ Meet(c, x)[15] = Xor(c[15], BitOf(x, 64))
      /\ Meet(c, x)[16] = Xor(c[16], BitOf(x, 128))
  BY MetUpper
<1>2. /\ Meet(c, y)[9] = Xor(c[9], BitOf(y, 1))
      /\ Meet(c, y)[10] = Xor(c[10], BitOf(y, 2))
      /\ Meet(c, y)[11] = Xor(c[11], BitOf(y, 4))
      /\ Meet(c, y)[12] = Xor(c[12], BitOf(y, 8))
      /\ Meet(c, y)[13] = Xor(c[13], BitOf(y, 16))
      /\ Meet(c, y)[14] = Xor(c[14], BitOf(y, 32))
      /\ Meet(c, y)[15] = Xor(c[15], BitOf(y, 64))
      /\ Meet(c, y)[16] = Xor(c[16], BitOf(y, 128))
  BY MetUpper
<1>3. /\ Xor(c[9], BitOf(x, 1)) = Xor(c[9], BitOf(y, 1))
      /\ Xor(c[10], BitOf(x, 2)) = Xor(c[10], BitOf(y, 2))
      /\ Xor(c[11], BitOf(x, 4)) = Xor(c[11], BitOf(y, 4))
      /\ Xor(c[12], BitOf(x, 8)) = Xor(c[12], BitOf(y, 8))
      /\ Xor(c[13], BitOf(x, 16)) = Xor(c[13], BitOf(y, 16))
      /\ Xor(c[14], BitOf(x, 32)) = Xor(c[14], BitOf(y, 32))
      /\ Xor(c[15], BitOf(x, 64)) = Xor(c[15], BitOf(y, 64))
      /\ Xor(c[16], BitOf(x, 128)) = Xor(c[16], BitOf(y, 128))
  BY ONLY <1>1, <1>2, Meet(c, x) = Meet(c, y)
<1>4. \A w \in {1, 2, 4, 8, 16, 32, 64, 128} : BitOf(x, w) \in Bit /\ BitOf(y, w) \in Bit
  BY ByteBit
<1>5. /\ c[9] \in Bit /\ c[10] \in Bit /\ c[11] \in Bit /\ c[12] \in Bit
      /\ c[13] \in Bit /\ c[14] \in Bit /\ c[15] \in Bit /\ c[16] \in Bit
  BY Bits
<1>6. \A w \in {1, 2, 4, 8, 16, 32, 64, 128} : BitOf(x, w) = BitOf(y, w)
  BY ONLY <1>3, <1>4, <1>5, XorBits
<1> QED BY <1>6, BitsTell

LEMMA MetRegister ==
  ASSUME NEW c \in Register, NEW d \in Register, NEW b \in 0..255,
         Meet(c, b) = Meet(d, b)
  PROVE  c = d
<1>0. LowerHalf(Meet(c, b), c) /\ LowerHalf(Meet(d, b), d)
  BY MetBits
<1>1. /\ Meet(c, b)[9] = Xor(c[9], BitOf(b, 1))
      /\ Meet(c, b)[10] = Xor(c[10], BitOf(b, 2))
      /\ Meet(c, b)[11] = Xor(c[11], BitOf(b, 4))
      /\ Meet(c, b)[12] = Xor(c[12], BitOf(b, 8))
      /\ Meet(c, b)[13] = Xor(c[13], BitOf(b, 16))
      /\ Meet(c, b)[14] = Xor(c[14], BitOf(b, 32))
      /\ Meet(c, b)[15] = Xor(c[15], BitOf(b, 64))
      /\ Meet(c, b)[16] = Xor(c[16], BitOf(b, 128))
  BY MetUpper
<1>2. /\ Meet(d, b)[9] = Xor(d[9], BitOf(b, 1))
      /\ Meet(d, b)[10] = Xor(d[10], BitOf(b, 2))
      /\ Meet(d, b)[11] = Xor(d[11], BitOf(b, 4))
      /\ Meet(d, b)[12] = Xor(d[12], BitOf(b, 8))
      /\ Meet(d, b)[13] = Xor(d[13], BitOf(b, 16))
      /\ Meet(d, b)[14] = Xor(d[14], BitOf(b, 32))
      /\ Meet(d, b)[15] = Xor(d[15], BitOf(b, 64))
      /\ Meet(d, b)[16] = Xor(d[16], BitOf(b, 128))
  BY MetUpper
<1>3. /\ Xor(c[9], BitOf(b, 1)) = Xor(d[9], BitOf(b, 1))
      /\ Xor(c[10], BitOf(b, 2)) = Xor(d[10], BitOf(b, 2))
      /\ Xor(c[11], BitOf(b, 4)) = Xor(d[11], BitOf(b, 4))
      /\ Xor(c[12], BitOf(b, 8)) = Xor(d[12], BitOf(b, 8))
      /\ Xor(c[13], BitOf(b, 16)) = Xor(d[13], BitOf(b, 16))
      /\ Xor(c[14], BitOf(b, 32)) = Xor(d[14], BitOf(b, 32))
      /\ Xor(c[15], BitOf(b, 64)) = Xor(d[15], BitOf(b, 64))
      /\ Xor(c[16], BitOf(b, 128)) = Xor(d[16], BitOf(b, 128))
  BY ONLY <1>1, <1>2, Meet(c, b) = Meet(d, b)
<1>4. \A w \in {1, 2, 4, 8, 16, 32, 64, 128} : BitOf(b, w) \in Bit
  BY ByteBit
<1>5. /\ c[9] \in Bit /\ c[10] \in Bit /\ c[11] \in Bit /\ c[12] \in Bit
      /\ c[13] \in Bit /\ c[14] \in Bit /\ c[15] \in Bit /\ c[16] \in Bit
      /\ d[9] \in Bit /\ d[10] \in Bit /\ d[11] \in Bit /\ d[12] \in Bit
      /\ d[13] \in Bit /\ d[14] \in Bit /\ d[15] \in Bit /\ d[16] \in Bit
  BY Bits
<1>6. UpperHalf(c, d)
  BY ONLY <1>3, <1>4, <1>5, XorBits DEF UpperHalf
<1>7. LowerHalf(c, d)
  BY <1>0 DEF LowerHalf
<1> QED BY <1>6, <1>7, Halves

\* A half of the register is a byte, which tells its eight bits.
LEMMA Octets ==
  ASSUME NEW c \in Register
  PROVE  Octet(c, 1) \in 0..255 /\ Octet(c, 9) \in 0..255
<1>1. /\ c[1] \in Bit /\ c[2] \in Bit /\ c[3] \in Bit /\ c[4] \in Bit
      /\ c[5] \in Bit /\ c[6] \in Bit /\ c[7] \in Bit /\ c[8] \in Bit
      /\ c[9] \in Bit /\ c[10] \in Bit /\ c[11] \in Bit /\ c[12] \in Bit
      /\ c[13] \in Bit /\ c[14] \in Bit /\ c[15] \in Bit /\ c[16] \in Bit
  BY Bits
<1>2. /\ Octet(c, 1) = c[1] + 2 * c[2] + 4 * c[3] + 8 * c[4]
                       + 16 * c[5] + 32 * c[6] + 64 * c[7] + 128 * c[8]
      /\ Octet(c, 9) = c[9] + 2 * c[10] + 4 * c[11] + 8 * c[12]
                       + 16 * c[13] + 32 * c[14] + 64 * c[15] + 128 * c[16]
  BY DEF Octet
<1> QED BY ONLY <1>1, <1>2 DEF Bit

LEMMA OctetsTell ==
  ASSUME NEW c \in Register, NEW d \in Register
  PROVE  /\ Octet(c, 1) = Octet(d, 1) => LowerHalf(c, d)
         /\ Octet(c, 9) = Octet(d, 9) => UpperHalf(c, d)
<1>1. /\ c[1] \in Bit /\ c[2] \in Bit /\ c[3] \in Bit /\ c[4] \in Bit
      /\ c[5] \in Bit /\ c[6] \in Bit /\ c[7] \in Bit /\ c[8] \in Bit
      /\ c[9] \in Bit /\ c[10] \in Bit /\ c[11] \in Bit /\ c[12] \in Bit
      /\ c[13] \in Bit /\ c[14] \in Bit /\ c[15] \in Bit /\ c[16] \in Bit
      /\ d[1] \in Bit /\ d[2] \in Bit /\ d[3] \in Bit /\ d[4] \in Bit
      /\ d[5] \in Bit /\ d[6] \in Bit /\ d[7] \in Bit /\ d[8] \in Bit
      /\ d[9] \in Bit /\ d[10] \in Bit /\ d[11] \in Bit /\ d[12] \in Bit
      /\ d[13] \in Bit /\ d[14] \in Bit /\ d[15] \in Bit /\ d[16] \in Bit
  BY Bits
<1>2. \A e : /\ Octet(e, 1) = e[1] + 2 * e[2] + 4 * e[3] + 8 * e[4]
                       + 16 * e[5] + 32 * e[6] + 64 * e[7] + 128 * e[8]
             /\ Octet(e, 9) = e[9] + 2 * e[10] + 4 * e[11] + 8 * e[12]
                       + 16 * e[13] + 32 * e[14] + 64 * e[15] + 128 * e[16]
  BY DEF Octet
<1>3. ASSUME Octet(c, 1) = Octet(d, 1) PROVE LowerHalf(c, d)
  <2> DEFINE a1 == c[1]  a2 == c[2]  a3 == c[3]  a4 == c[4]
             a5 == c[5]  a6 == c[6]  a7 == c[7]  a8 == c[8]
             b1 == d[1]  b2 == d[2]  b3 == d[3]  b4 == d[4]
             b5 == d[5]  b6 == d[6]  b7 == d[7]  b8 == d[8]
  <2>1. /\ a1 \in Bit /\ a2 \in Bit /\ a3 \in Bit /\ a4 \in Bit /\ a5 \in Bit /\ a6 \in Bit /\ a7 \in Bit /\ a8 \in Bit
        /\ b1 \in Bit /\ b2 \in Bit /\ b3 \in Bit /\ b4 \in Bit /\ b5 \in Bit /\ b6 \in Bit /\ b7 \in Bit /\ b8 \in Bit
    BY <1>1
  <2>2. a1 + 2 * a2 + 4 * a3 + 8 * a4 + 16 * a5 + 32 * a6 + 64 * a7 + 128 * a8
          = b1 + 2 * b2 + 4 * b3 + 8 * b4 + 16 * b5 + 32 * b6 + 64 * b7 + 128 * b8
    BY <1>2, <1>3
  <2> HIDE DEF a1, a2, a3, a4, a5, a6, a7, a8, b1, b2, b3, b4, b5, b6, b7, b8
  <2>3. /\ a1 = b1 /\ a2 = b2 /\ a3 = b3 /\ a4 = b4
        /\ a5 = b5 /\ a6 = b6 /\ a7 = b7 /\ a8 = b8
    BY ONLY <2>1, <2>2 DEF Bit
  <2> QED BY ONLY <2>3 DEF LowerHalf, a1, a2, a3, a4, a5, a6, a7, a8, b1, b2, b3, b4, b5, b6, b7, b8
<1>4. ASSUME Octet(c, 9) = Octet(d, 9) PROVE UpperHalf(c, d)
  <2> DEFINE a1 == c[9]  a2 == c[10]  a3 == c[11]  a4 == c[12]
             a5 == c[13]  a6 == c[14]  a7 == c[15]  a8 == c[16]
             b1 == d[9]  b2 == d[10]  b3 == d[11]  b4 == d[12]
             b5 == d[13]  b6 == d[14]  b7 == d[15]  b8 == d[16]
  <2>1. /\ a1 \in Bit /\ a2 \in Bit /\ a3 \in Bit /\ a4 \in Bit /\ a5 \in Bit /\ a6 \in Bit /\ a7 \in Bit /\ a8 \in Bit
        /\ b1 \in Bit /\ b2 \in Bit /\ b3 \in Bit /\ b4 \in Bit /\ b5 \in Bit /\ b6 \in Bit /\ b7 \in Bit /\ b8 \in Bit
    BY <1>1
  <2>2. a1 + 2 * a2 + 4 * a3 + 8 * a4 + 16 * a5 + 32 * a6 + 64 * a7 + 128 * a8
          = b1 + 2 * b2 + 4 * b3 + 8 * b4 + 16 * b5 + 32 * b6 + 64 * b7 + 128 * b8
    BY <1>2, <1>4
  <2> HIDE DEF a1, a2, a3, a4, a5, a6, a7, a8, b1, b2, b3, b4, b5, b6, b7, b8
  <2>3. /\ a1 = b1 /\ a2 = b2 /\ a3 = b3 /\ a4 = b4
        /\ a5 = b5 /\ a6 = b6 /\ a7 = b7 /\ a8 = b8
    BY ONLY <2>1, <2>2 DEF Bit
  <2> QED BY ONLY <2>3 DEF UpperHalf, a1, a2, a3, a4, a5, a6, a7, a8, b1, b2, b3, b4, b5, b6, b7, b8
<1> QED BY <1>3, <1>4

\* The registers of a sequence of bytes: the first is CrcInit, and each of the
\* others follows from the one before.
RegistersOf(r, bytes, n) ==
  /\ r \in [0..n -> Register]
  /\ r[0] = CrcInit
  /\ \A i \in 1..n : r[i] = ShiftByte(Meet(r[i - 1], bytes[i - 1]))

LEMMA ThereAreRegisters ==
  ASSUME NEW n \in Nat, NEW bytes \in [0..(n - 1) -> 0..255]
  PROVE  \E r : RegistersOf(r, bytes, n)
<1> DEFINE S == {m \in Nat : m <= n => \E r : RegistersOf(r, bytes, m)}
<1>1. 0 \in S
  <2>1. RegistersOf([i \in 0..0 |-> CrcInit], bytes, 0)
    <3>1. CrcInit \in Register
      BY DEF CrcInit, Register, Bit
    <3> QED BY <3>1 DEF RegistersOf
  <2> QED BY <2>1
<1>2. ASSUME NEW m \in Nat, m \in S PROVE m + 1 \in S
  <2> SUFFICES ASSUME m + 1 <= n PROVE \E r : RegistersOf(r, bytes, m + 1)
    OBVIOUS
  <2>1. PICK r : RegistersOf(r, bytes, m)
    BY <1>2
  <2> DEFINE last == ShiftByte(Meet(r[m], bytes[m]))
             q == [i \in 0..(m + 1) |-> IF i <= m THEN r[i] ELSE last]
  <2>2. r[m] \in Register /\ bytes[m] \in 0..255
    BY <2>1 DEF RegistersOf
  <2>3. last \in Register
    BY <2>2, MetBits, ShiftByteFour
  <2> HIDE DEF last
  <2>4. q \in [0..(m + 1) -> Register] /\ q[0] = CrcInit
    BY <2>1, <2>3 DEF RegistersOf
  <2>5. ASSUME NEW i \in 1..(m + 1)
        PROVE  q[i] = ShiftByte(Meet(q[i - 1], bytes[i - 1]))
    <3>1. CASE i <= m
      <4>1. q[i] = r[i] /\ q[i - 1] = r[i - 1] /\ i \in 1..m
        BY <3>1
      <4> QED BY <2>1, <4>1 DEF RegistersOf
    <3>2. CASE i = m + 1
      <4>1. q[i] = last /\ i - 1 = m /\ q[m] = r[m]
        BY <3>2
      <4> QED BY <4>1 DEF last
    <3> QED BY <3>1, <3>2
  <2> HIDE DEF q
  <2>6. RegistersOf(q, bytes, m + 1)
    BY <2>4, <2>5 DEF RegistersOf
  <2> QED BY <2>6
<1> HIDE DEF S
<1>3. Nat \subseteq S
  BY <1>1, <1>2, Induct
<1> QED BY <1>3 DEF S

LEMMA TheRegisters ==
  ASSUME NEW n \in Nat, NEW bytes \in [0..(n - 1) -> 0..255]
  PROVE  RegistersOf(Registers(bytes, n), bytes, n)
<1> DEFINE Follow(crc) ==
             [i \in 0..n |-> IF i = 0 THEN CrcInit
                             ELSE ShiftByte(Meet(crc[i - 1], bytes[i - 1]))]
           r == Registers(bytes, n)
<1>1. PICK q : RegistersOf(q, bytes, n)
  BY ThereAreRegisters
<1>2. q = Follow(q)
  BY <1>1 DEF RegistersOf
<1>3. r = CHOOSE crc : crc = Follow(crc)
  BY DEF Registers
<1>4. r = Follow(r)
  BY <1>2, <1>3
<1> HIDE DEF r
<1>5. r[0] = CrcInit /\ \A i \in 1..n : r[i] = ShiftByte(Meet(r[i - 1], bytes[i - 1]))
  BY <1>4
<1>6. r = q
  <2> DEFINE S == {m \in Nat : m <= n => r[m] = q[m]}
  <2>1. 0 \in S
    BY <1>1, <1>5 DEF RegistersOf
  <2>2. ASSUME NEW m \in Nat, m \in S PROVE m + 1 \in S
    <3> SUFFICES ASSUME m + 1 <= n PROVE r[m + 1] = q[m + 1]
      OBVIOUS
    <3>1. r[m] = q[m] /\ m + 1 \in 1..n /\ (m + 1) - 1 = m
      BY <2>2
    <3>2. r[m + 1] = ShiftByte(Meet(r[m], bytes[m]))
      BY <1>5, <3>1
    <3>3. q[m + 1] = ShiftByte(Meet(q[m], bytes[m]))
      BY <1>1, <3>1 DEF RegistersOf
    <3> QED BY <3>1, <3>2, <3>3
  <2> HIDE DEF S
  <2>3. Nat \subseteq S
    BY <2>1, <2>2, Induct
  <2>4. \A m \in 0..n : r[m] = q[m]
    BY <2>3 DEF S
  <2>5. DOMAIN r = 0..n /\ r = [i \in 0..n |-> r[i]]
    BY <1>4
  <2> QED BY <1>1, <2>4, <2>5 DEF RegistersOf
<1> QED BY <1>1, <1>6 DEF r

\* Two sequences of n bytes and their registers.
TwoOf(x, y, c, d, n) ==
  /\ n \in Nat
  /\ x \in [0..(n - 1) -> 0..255] /\ y \in [0..(n - 1) -> 0..255]
  /\ RegistersOf(c, x, n) /\ RegistersOf(d, y, n)

LEMMA OneStep ==
  ASSUME NEW x, NEW y, NEW c, NEW d, NEW n, TwoOf(x, y, c, d, n),
         NEW i \in Nat, i < n
  PROVE  /\ x[i] \in 0..255 /\ y[i] \in 0..255
         /\ c[i] \in Register /\ d[i] \in Register
         /\ c[i + 1] = ShiftByte(Meet(c[i], x[i]))
         /\ d[i + 1] = ShiftByte(Meet(d[i], y[i]))
<1>1. n \in Nat /\ i + 1 \in 1..n /\ (i + 1) - 1 = i /\ i \in 0..n /\ i \in 0..(n - 1)
  BY DEF TwoOf
<1> QED BY <1>1 DEF TwoOf, RegistersOf

\* They stay together while the bytes are the same, and where they end
\* together they were together before.
LEMMA TogetherForward ==
  ASSUME NEW x, NEW y, NEW c, NEW d, NEW n, TwoOf(x, y, c, d, n),
         NEW k \in Nat, k <= n, \A j \in Nat : j < k => x[j] = y[j]
  PROVE  c[k] = d[k]
<1> DEFINE S == {m \in Nat : m <= k => c[m] = d[m]}
<1>1. 0 \in S
  BY DEF TwoOf, RegistersOf
<1>2. ASSUME NEW m \in Nat, m \in S PROVE m + 1 \in S
  <2> SUFFICES ASSUME m + 1 <= k PROVE c[m + 1] = d[m + 1]
    OBVIOUS
  <2>1. c[m] = d[m] /\ x[m] = y[m] /\ m < n
    BY <1>2 DEF TwoOf
  <2> QED BY <2>1, OneStep
<1> HIDE DEF S
<1>3. Nat \subseteq S
  BY <1>1, <1>2, Induct
<1> QED BY <1>3 DEF S

LEMMA TogetherBackward ==
  ASSUME NEW x, NEW y, NEW c, NEW d, NEW n, TwoOf(x, y, c, d, n),
         c[n] = d[n],
         NEW k \in Nat, k <= n, \A j \in Nat : k <= j /\ j < n => x[j] = y[j]
  PROVE  c[k] = d[k]
<1> DEFINE S == {m \in Nat : m <= n - k => c[n - m] = d[n - m]}
<1>0. n \in Nat
  BY DEF TwoOf
<1>1. 0 \in S
  BY <1>0
<1>2. ASSUME NEW m \in Nat, m \in S PROVE m + 1 \in S
  <2> SUFFICES ASSUME m + 1 <= n - k PROVE c[n - (m + 1)] = d[n - (m + 1)]
    OBVIOUS
  <2> DEFINE i == n - (m + 1)
  <2>1. i \in Nat /\ i < n /\ k <= i /\ n - m = i + 1
    BY <1>0
  <2>2. c[i + 1] = d[i + 1] /\ x[i] = y[i]
    BY <1>0, <1>2, <2>1
  <2> HIDE DEF i
  <2>3. /\ c[i] \in Register /\ d[i] \in Register /\ x[i] \in 0..255
        /\ ShiftByte(Meet(c[i], x[i])) = ShiftByte(Meet(d[i], x[i]))
    BY <2>1, <2>2, OneStep
  <2>4. Meet(c[i], x[i]) \in Register /\ Meet(d[i], x[i]) \in Register
    BY <2>3, MetBits
  <2>5. Meet(c[i], x[i]) = Meet(d[i], x[i])
    BY <2>3, <2>4, ShiftByteBack
  <2>6. c[i] = d[i]
    BY <2>3, <2>5, MetRegister
  <2> QED BY <2>6 DEF i
<1> HIDE DEF S
<1>3. Nat \subseteq S
  BY <1>1, <1>2, Induct
<1>4. n - k \in Nat /\ n - (n - k) = k
  BY <1>0
<1> QED BY <1>3, <1>4 DEF S

\* The lower half of the register after a byte tells that byte, given the
\* register before it.
LEMMA LastByteTold ==
  ASSUME NEW x, NEW y, NEW c, NEW d, NEW n, TwoOf(x, y, c, d, n),
         NEW i \in Nat, i < n, c[i] = d[i], LowerHalf(c[i + 1], d[i + 1])
  PROVE  x[i] = y[i] /\ c[i + 1] = d[i + 1]
<1> DEFINE s == Meet(c[i], x[i])
           t == Meet(c[i], y[i])
<1>1. /\ c[i] \in Register /\ x[i] \in 0..255 /\ y[i] \in 0..255
      /\ c[i + 1] = ShiftByte(s) /\ d[i + 1] = ShiftByte(t)
  BY OneStep
<1>2. s \in Register /\ t \in Register /\ LowerHalf(s, c[i]) /\ LowerHalf(t, c[i])
  BY <1>1, MetBits
<1>3. s = t => x[i] = y[i]
  BY <1>1, MetByte
<1> HIDE DEF s, t
<1>4. LowerHalf(s, t)
  BY <1>2 DEF LowerHalf
<1>5. s = t
  BY <1>1, <1>2, <1>4, LowerHalfTells
<1> QED BY <1>1, <1>3, <1>5

\* The lower halves after two neighbouring bytes and what follows them tell
\* both.
LEMMA LowerHalfBefore ==
  ASSUME NEW x, NEW y, NEW c, NEW d, NEW n, TwoOf(x, y, c, d, n),
         NEW i \in Nat, i < n, c[i + 1] = d[i + 1]
  PROVE  LowerHalf(c[i], d[i])
<1> DEFINE s == Meet(c[i], x[i])
           t == Meet(d[i], y[i])
<1>1. /\ c[i] \in Register /\ d[i] \in Register /\ x[i] \in 0..255 /\ y[i] \in 0..255
      /\ ShiftByte(s) = ShiftByte(t)
  BY OneStep
<1>2. s \in Register /\ t \in Register /\ LowerHalf(s, c[i]) /\ LowerHalf(t, d[i])
  BY <1>1, MetBits
<1> HIDE DEF s, t
<1>3. s = t
  BY <1>1, <1>2, ShiftByteBack
<1> QED BY <1>2, <1>3 DEF LowerHalf

\* Of two sequences of bytes that differ at most in two neighbouring ones and
\* have the same last register, the bytes are the same.
LEMMA NeighboursTold ==
  ASSUME NEW x, NEW y, NEW c, NEW d, NEW n, TwoOf(x, y, c, d, n),
         c[n] = d[n], NEW i \in Nat, i + 1 < n,
         \A j \in Nat : j < n /\ j \notin {i, i + 1} => x[j] = y[j]
  PROVE  x[i] = y[i] /\ x[i + 1] = y[i + 1]
<1> DEFINE h == i + 1
           k == i + 2
<1>0. /\ n \in Nat /\ i < n /\ i <= n /\ h \in Nat /\ h < n /\ k \in Nat /\ k <= n
      /\ k = h + 1 /\ h = i + 1
  BY DEF TwoOf
<1>1. \A j \in Nat : j < i => x[j] = y[j]
  BY <1>0
<1>2. \A j \in Nat : k <= j /\ j < n => x[j] = y[j]
  BY <1>0
<1> HIDE DEF h, k
<1>3. c[i] = d[i]
  BY <1>0, <1>1, TogetherForward
<1>4. c[k] = d[k]
  BY <1>0, <1>2, TogetherBackward
<1>5. LowerHalf(c[h], d[h])
  BY <1>0, <1>4, LowerHalfBefore
<1>6. x[i] = y[i] /\ c[h] = d[h]
  BY <1>0, <1>3, <1>5, LastByteTold
<1>7. x[h] = y[h]
  <2>1. LowerHalf(c[h + 1], d[h + 1])
    BY <1>0, <1>4 DEF LowerHalf
  <2> QED BY <1>0, <1>6, <2>1, LastByteTold
<1> QED BY <1>0, <1>6, <1>7

-----------------------------------------------------------------------------
(* The packet of the link.                                                 *)

\* What a word can hold.
LEMMA WordRange ==
  ASSUME NEW word \in Int
  PROVE  word \in Word <=> 0 <= word /\ word <= 65535
<1>1. WordMax \in Nat
  BY DEF WordMax
<1>2. word <= WordMax <=> word <= 65535
  BY DEF WordMax
<1> QED BY <1>1, <1>2 DEF Word

LEMMA WordType == Word \subseteq Int
<1>1. WordMax \in Nat
  BY DEF WordMax
<1> QED BY <1>1 DEF Word

\* A word is sent as two bytes and read again.
LEMMA WordBytes ==
  ASSUME NEW word \in Word
  PROVE  /\ High(word) \in Byte /\ Lower(word) \in Byte
         /\ High(word) * 256 + Lower(word) = word
<1>1. word \in Int /\ 0 <= word /\ word <= 65535
  BY WordType, WordRange
<1> DEFINE high == word \div 256
           low == word % 256
<1>2. word = 256 * high + low /\ low \in 0..255 /\ high \in Int
  BY <1>1, DivMod
<1> HIDE DEF high, low
<1>3. high >= 0 /\ high <= 255
  BY <1>1, <1>2
<1>4. high \in 0..255 /\ low \in 0..255 /\ high * 256 + low = word
  BY <1>2, <1>3
<1> QED BY <1>4 DEF High, Lower, Byte, high, low

LEMMA BytesWord ==
  ASSUME NEW bytes \in Encoded, NEW i \in 0..(EncodedSize - 2)
  PROVE  ReadU16(bytes, i) \in Word
<1>1. bytes[i] \in Byte /\ bytes[i + 1] \in Byte
  BY DEF Encoded, EncodedSize
<1>2. ASSUME NEW a \in Byte, NEW b \in Byte
      PROVE  a * 256 + b \in Word
  <2> DEFINE word == a * 256 + b
  <2>1. word \in Int /\ 0 <= word /\ word <= 65535
    BY DEF Byte
  <2> HIDE DEF word
  <2>2. word \in Word
    BY <2>1, WordRange
  <2> QED BY <2>2 DEF word
<1> QED BY <1>1, <1>2 DEF ReadU16

\* The checksum of a body is a word, made of its last register.
LEMMA CrcRegister ==
  ASSUME NEW bytes \in [0..(CrcOffset - 1) -> Byte]
  PROVE  LET r == Registers(bytes, 28) IN
         /\ RegistersOf(r, bytes, 28)
         /\ r[28] \in Register
         /\ Octet(r[28], 1) \in 0..255 /\ Octet(r[28], 9) \in 0..255
         /\ Crc(bytes) = 256 * Octet(r[28], 9) + Octet(r[28], 1)
         /\ Crc(bytes) \in Word
<1> DEFINE r == Registers(bytes, 28)
<1>1. bytes \in [0..(28 - 1) -> 0..255]
  BY DEF CrcOffset, Byte
<1>2. RegistersOf(r, bytes, 28)
  BY <1>1, TheRegisters
<1>3. Crc(bytes) = 256 * Octet(r[28], 9) + Octet(r[28], 1)
  BY DEF Crc, Crc16, CrcOffset
<1> HIDE DEF r
<1>4. r[28] \in Register
  BY <1>2 DEF RegistersOf
<1>5. Octet(r[28], 1) \in 0..255 /\ Octet(r[28], 9) \in 0..255
  BY <1>4, Octets
<1>6. Crc(bytes) \in Word
  <2> DEFINE high == Octet(r[28], 9)
             low == Octet(r[28], 1)
  <2>0. high \in 0..255 /\ low \in 0..255 /\ Crc(bytes) = 256 * high + low
    BY <1>3, <1>5
  <2> HIDE DEF high, low
  <2>1. Crc(bytes) \in Int /\ 0 <= Crc(bytes) /\ Crc(bytes) <= 65535
    BY <2>0
  <2> QED BY <2>1, WordRange
<1> QED BY <1>2, <1>3, <1>4, <1>5, <1>6 DEF r

LEMMA PacketFields ==
  ASSUME NEW p \in Packet
  PROVE  /\ p.message_type \in Byte /\ p.message_type \in MessageTypes
         /\ p.source_id \in Byte /\ p.destination_id \in Byte
         /\ p.sequence \in Word /\ p.acknowledged_sequence \in Word
         /\ p.payload_length \in Byte /\ p.payload_length \in PayloadLengths
         /\ p.flags \in Byte
         /\ \A i \in 0..(PayloadSize - 1) : p.payload[i] \in Byte
<1>1. MessageTypes \subseteq Byte /\ PayloadLengths \subseteq Byte
  BY DEF MessageTypes, PayloadLengths, PayloadSize, Byte
<1> QED BY <1>1 DEF Packet

LEMMA BodyBytes ==
  ASSUME NEW p \in Packet, NEW i \in 0..(CrcOffset - 1)
  PROVE  Body(p)[i] \in Byte
<1>1. Magic0 \in Byte /\ Magic1 \in Byte /\ Version \in Byte /\ 0 \in Byte
  BY DEF Magic0, Magic1, Version, Byte
<1>2. /\ High(p.sequence) \in Byte /\ Lower(p.sequence) \in Byte
      /\ High(p.acknowledged_sequence) \in Byte
      /\ Lower(p.acknowledged_sequence) \in Byte
  BY PacketFields, WordBytes
<1>3. CASE i < 12
  <2>1. i \in {0, 1, 2, 3, 4, 5, 6, 7, 8, 9, 10, 11}
    BY <1>3 DEF CrcOffset
  <2> QED BY <1>1, <1>2, <2>1, PacketFields DEF Body
<1>4. CASE i >= 12
  <2>1. i - 12 \in 0..(PayloadSize - 1)
    BY <1>4 DEF CrcOffset, PayloadSize
  <2>2. Body(p)[i] = IF i - 12 < p.payload_length THEN p.payload[i - 12] ELSE 0
    BY <1>4 DEF Body, CrcOffset
  <2>3. p.payload[i - 12] \in Byte
    BY <2>1, PacketFields
  <2> QED BY <1>1, <2>2, <2>3
<1> QED BY <1>3, <1>4 DEF CrcOffset

\* Where decoding finds what encoding wrote.
LEMMA EncodedBytes ==
  ASSUME NEW p \in Packets
  PROVE  /\ Encode(p) \in Encoded
         /\ \A i \in 0..(CrcOffset - 1) : Encode(p)[i] = Body(p)[i]
         /\ ReadU16(Encode(p), CrcOffset) = Crc(Body(p))
         /\ BodyOf(Encode(p)) = Body(p)
<1>1. p \in Packet /\ Crc(Body(p)) \in Word
  <2>1. p \in Packet
    BY PacketAssumption
  <2>2. Body(p) \in [0..(CrcOffset - 1) -> Byte]
    BY <2>1, BodyBytes DEF Body
  <2> QED BY <2>1, <2>2, CrcRegister
<1>2. High(Crc(Body(p))) \in Byte /\ Lower(Crc(Body(p))) \in Byte
  BY <1>1, WordBytes
<1>3. \A i \in 0..(CrcOffset - 1) : Encode(p)[i] = Body(p)[i]
  BY DEF Encode, CrcOffset, EncodedSize
<1>4. Encode(p)[CrcOffset] = High(Crc(Body(p)))
      /\ Encode(p)[CrcOffset + 1] = Lower(Crc(Body(p)))
  BY DEF Encode, CrcOffset, EncodedSize
<1>5. \A i \in 0..(EncodedSize - 1) :
        i \in 0..(CrcOffset - 1) \/ i = CrcOffset \/ i = CrcOffset + 1
  BY DEF CrcOffset, EncodedSize
<1>6. \A i \in 0..(EncodedSize - 1) : Encode(p)[i] \in Byte
  BY <1>1, <1>2, <1>3, <1>4, <1>5, BodyBytes
<1>7. Encode(p) \in Encoded
  BY <1>6 DEF Encode, Encoded
<1>8. ReadU16(Encode(p), CrcOffset) = Crc(Body(p))
  BY <1>1, <1>4, WordBytes DEF ReadU16
<1>9. BodyOf(Encode(p)) = Body(p)
  <2>1. \A i \in 0..(CrcOffset - 1) : BodyOf(Encode(p))[i] = Body(p)[i]
    BY <1>3 DEF BodyOf
  <2>2. Body(p) = [i \in 0..(CrcOffset - 1) |-> Body(p)[i]]
    BY DEF Body
  <2> QED BY <2>1, <2>2 DEF BodyOf
<1> QED BY <1>3, <1>7, <1>8, <1>9

LEMMA BodyLayout ==
  ASSUME NEW p \in Packet
  PROVE  /\ Body(p)[0] = Magic0 /\ Body(p)[1] = Magic1 /\ Body(p)[2] = Version
         /\ Body(p)[3] = p.message_type /\ Body(p)[4] = p.source_id
         /\ Body(p)[5] = p.destination_id
         /\ Body(p)[6] = High(p.sequence) /\ Body(p)[7] = Lower(p.sequence)
         /\ Body(p)[8] = High(p.acknowledged_sequence)
         /\ Body(p)[9] = Lower(p.acknowledged_sequence)
         /\ Body(p)[10] = p.payload_length /\ Body(p)[11] = p.flags
         /\ \A i \in 0..(PayloadSize - 1) :
              Body(p)[i + 12] = IF i < p.payload_length THEN p.payload[i] ELSE 0
<1>1. {0, 1, 2, 3, 4, 5, 6, 7, 8, 9, 10, 11} \subseteq 0..(CrcOffset - 1)
  BY DEF CrcOffset
<1>2. ASSUME NEW i \in 0..(PayloadSize - 1)
      PROVE  Body(p)[i + 12] = IF i < p.payload_length THEN p.payload[i] ELSE 0
  <2>1. i + 12 \in 0..(CrcOffset - 1) /\ (i + 12) - 12 = i /\ i + 12 > 11
    BY DEF CrcOffset, PayloadSize
  <2>2. Body(p)[i + 12] = IF (i + 12) - 12 < p.payload_length
                            THEN p.payload[(i + 12) - 12] ELSE 0
    BY <2>1 DEF Body
  <2> QED BY <2>1, <2>2
<1> QED BY <1>1, <1>2, SMTT(20) DEF Body

\* A frame that nothing happened to is accepted, and decodes to the packet that
\* was sent, with what lies behind its payload cleared.
LEMMA RoundTrip ==
  ASSUME NEW p \in Packets
  PROVE  /\ DecodeStatus(Encode(p), p.destination_id) = "OK"
         /\ Decoded(Encode(p)) = Padded(p)
<1> DEFINE b == Encode(p)
<1>1. p \in Packet
  BY PacketAssumption
<1>2. \A i \in 0..27 : b[i] = Body(p)[i]
  BY EncodedBytes DEF CrcOffset
<1>3. /\ ReadU16(b, CrcOffset) = Crc(Body(p)) /\ BodyOf(b) = Body(p)
  BY EncodedBytes
<1> HIDE DEF b
<1>4. /\ b[0] = Magic0 /\ b[1] = Magic1 /\ b[2] = Version
      /\ b[3] = p.message_type /\ b[4] = p.source_id /\ b[5] = p.destination_id
      /\ b[6] = High(p.sequence) /\ b[7] = Lower(p.sequence)
      /\ b[8] = High(p.acknowledged_sequence)
      /\ b[9] = Lower(p.acknowledged_sequence)
      /\ b[10] = p.payload_length /\ b[11] = p.flags
  BY <1>1, <1>2, BodyLayout
<1>5. ASSUME NEW i \in 0..(PayloadSize - 1)
      PROVE  b[i + 12] = IF i < p.payload_length THEN p.payload[i] ELSE 0
  <2>1. i + 12 \in 0..27
    BY DEF PayloadSize
  <2> QED BY <1>1, <1>2, <2>1, BodyLayout
<1>6. DecodeStatus(b, p.destination_id) = "OK"
  BY <1>1, <1>3, <1>4, PacketFields DEF DecodeStatus
<1>7. ReadU16(b, 6) = p.sequence /\ ReadU16(b, 8) = p.acknowledged_sequence
  BY <1>1, <1>4, PacketFields, WordBytes DEF ReadU16
<1>8. [i \in 0..(PayloadSize - 1) |-> b[i + 12]]
        = [i \in 0..(PayloadSize - 1) |->
             IF i < p.payload_length THEN p.payload[i] ELSE 0]
  BY <1>5
<1>9. Decoded(b) = Padded(p)
  <2> DEFINE payload == [i \in 0..(PayloadSize - 1) |->
                           IF i < p.payload_length THEN p.payload[i] ELSE 0]
  <2>1. Decoded(b) = [message_type |-> p.message_type, source_id |-> p.source_id,
                      destination_id |-> p.destination_id, sequence |-> p.sequence,
                      acknowledged_sequence |-> p.acknowledged_sequence,
                      payload_length |-> p.payload_length, flags |-> p.flags,
                      payload |-> payload]
    BY <1>4, <1>7, <1>8 DEF Decoded
  <2>2. Padded(p) = [p EXCEPT !.payload = payload]
    BY DEF Padded
  <2> HIDE DEF payload
  <2> QED BY <1>1, <2>1, <2>2 DEF Packet
<1> QED BY <1>6, <1>9 DEF b

\* Whatever is accepted is a packet: every field has its type, and the payload
\* length, which sizes the copy of the payload, is one a sender may use.
LEMMA AcceptedIsPacket ==
  ASSUME NEW bytes \in Encoded, NEW destination,
         DecodeStatus(bytes, destination) = "OK"
  PROVE  Decoded(bytes) \in Packet /\ Decoded(bytes).destination_id = destination
<1>1. \A i \in 0..29 : bytes[i] \in Byte
  BY DEF Encoded, EncodedSize
<1>2. /\ bytes[3] \in MessageTypes /\ bytes[5] = destination
      /\ bytes[10] \in PayloadLengths
  BY DEF DecodeStatus
<1>3. ReadU16(bytes, 6) \in Word /\ ReadU16(bytes, 8) \in Word
  BY BytesWord DEF EncodedSize
<1>4. [i \in 0..(PayloadSize - 1) |-> bytes[i + 12]] \in [0..(PayloadSize - 1) -> Byte]
  <2>1. \A i \in 0..(PayloadSize - 1) : i + 12 \in 0..29
    BY DEF PayloadSize
  <2> QED BY <1>1, <2>1
<1>5. bytes[4] \in Byte /\ bytes[5] \in Byte /\ bytes[11] \in Byte
  BY <1>1
<1>6. Decoded(bytes) \in Packet
  BY <1>2, <1>3, <1>4, <1>5 DEF Decoded, Packet
<1> QED BY <1>2, <1>6 DEF Decoded

\* A frame whose checksum is that of its body; and frames that differ at most in
\* two neighbouring bytes.
Fits(bytes) == ReadU16(bytes, CrcOffset) = Crc(BodyOf(bytes))

ApartAt(i, x, y) ==
  \A j \in 0..(EncodedSize - 1) : j \notin {i, i + 1} => x[j] = y[j]

\* The last two bytes of such a frame are those of the register of its body.
LEMMA FitsRegister ==
  ASSUME NEW x \in Encoded, Fits(x)
  PROVE  LET c == Registers(BodyOf(x), 28) IN
         /\ BodyOf(x) \in [0..27 -> 0..255]
         /\ RegistersOf(c, BodyOf(x), 28) /\ c[28] \in Register
         /\ x[28] = Octet(c[28], 9) /\ x[29] = Octet(c[28], 1)
<1> DEFINE c == Registers(BodyOf(x), 28)
<1>1. \A j \in 0..29 : x[j] \in 0..255
  BY DEF Encoded, EncodedSize, Byte
<1>2. BodyOf(x) \in [0..(CrcOffset - 1) -> Byte]
  BY <1>1 DEF BodyOf, CrcOffset, Byte
<1>3. /\ RegistersOf(c, BodyOf(x), 28) /\ c[28] \in Register
      /\ Octet(c[28], 1) \in 0..255 /\ Octet(c[28], 9) \in 0..255
      /\ Crc(BodyOf(x)) = 256 * Octet(c[28], 9) + Octet(c[28], 1)
  BY <1>2, CrcRegister
<1> HIDE DEF c
<1>4. x[28] * 256 + x[29] = Crc(BodyOf(x))
  BY DEF Fits, ReadU16, CrcOffset
<1>5. x[28] = Octet(c[28], 9) /\ x[29] = Octet(c[28], 1)
  <2> DEFINE g == x[28]
             h == x[29]
             k == Octet(c[28], 9)
             l == Octet(c[28], 1)
  <2>1. /\ g \in 0..255 /\ h \in 0..255 /\ k \in 0..255 /\ l \in 0..255
        /\ g * 256 + h = 256 * k + l
    BY <1>1, <1>3, <1>4
  <2> HIDE DEF g, h, k, l
  <2>2. g = k /\ h = l
    BY <2>1
  <2> QED BY <2>2 DEF g, h, k, l
<1>6. BodyOf(x) \in [0..27 -> 0..255]
  BY <1>2 DEF CrcOffset, Byte
<1> QED BY <1>3, <1>5, <1>6 DEF c

\* A fitting checksum tells two neighbouring bytes, wherever they are in the
\* frame: in its body, in its checksum, or one in each.
LEMMA FitsTells ==
  ASSUME NEW x \in Encoded, NEW y \in Encoded, Fits(x), Fits(y),
         NEW i \in 0..(EncodedSize - 2), ApartAt(i, x, y)
  PROVE  x = y
<1> DEFINE v == BodyOf(x)
           w == BodyOf(y)
           c == Registers(v, 28)
           d == Registers(w, 28)
<1>1. /\ v \in [0..27 -> 0..255] /\ w \in [0..27 -> 0..255]
      /\ RegistersOf(c, v, 28) /\ c[28] \in Register
      /\ RegistersOf(d, w, 28) /\ d[28] \in Register
      /\ x[28] = Octet(c[28], 9) /\ x[29] = Octet(c[28], 1)
      /\ y[28] = Octet(d[28], 9) /\ y[29] = Octet(d[28], 1)
  BY FitsRegister
<1>2. \A j \in Nat : j < 28 => v[j] = x[j] /\ w[j] = y[j]
  BY DEF BodyOf, CrcOffset
<1>3. \A j \in Nat : j < 30 /\ j \notin {i, i + 1} => x[j] = y[j]
  BY DEF ApartAt, EncodedSize
<1>4. i \in Nat /\ i <= 28
  BY DEF EncodedSize
<1> HIDE DEF v, w, c, d
<1>5. TwoOf(v, w, c, d, 28)
  <2>1. 28 - 1 = 27 /\ 28 \in Nat
    OBVIOUS
  <2> QED BY ONLY <1>1, <2>1, Zenon DEF TwoOf
<1>6. i >= 27 => c[27] = d[27]
  <2> SUFFICES ASSUME i >= 27 PROVE c[27] = d[27]
    OBVIOUS
  <2>1. \A j \in Nat : j < 27 => v[j] = w[j]
    BY <1>2, <1>3
  <2> QED BY <1>5, <2>1, TogetherForward
<1>7. c[28] = d[28] /\ (i < 28 => x[i] = y[i] /\ x[i + 1] = y[i + 1])
  <2>1. CASE i < 27
    <3>1. x[28] = y[28] /\ x[29] = y[29]
      BY <1>3, <1>4, <2>1
    <3>2. c[28] = d[28]
      BY <1>1, <3>1, OctetsTell, Halves
    <3>3. \A j \in Nat : j < 28 /\ j \notin {i, i + 1} => v[j] = w[j]
      BY <1>2, <1>3
    <3>4. v[i] = w[i] /\ v[i + 1] = w[i + 1]
      BY <1>4, <1>5, <2>1, <3>2, <3>3, NeighboursTold
    <3> QED BY <1>2, <1>4, <2>1, <3>2, <3>4
  <2>2. CASE i = 27
    <3>1. x[29] = y[29]
      BY <1>3, <2>2
    <3>2. LowerHalf(c[27 + 1], d[27 + 1])
      BY <1>1, <3>1, OctetsTell
    <3>3. v[27] = w[27] /\ c[27 + 1] = d[27 + 1]
      BY <1>5, <1>6, <2>2, <3>2, LastByteTold
    <3>4. x[27] = y[27]
      BY <1>2, <3>3
    <3>5. c[28] = d[28]
      BY <3>3
    <3>6. x[28] = y[28]
      BY <1>1, <3>5
    <3> QED BY <2>2, <3>4, <3>5, <3>6
  <2>3. CASE i = 28
    <3>1. \A j \in Nat : j < 28 => v[j] = w[j]
      BY <1>2, <1>3, <2>3
    <3> QED BY <1>5, <2>3, <3>1, TogetherForward
  <2> QED BY <1>4, <2>1, <2>2, <2>3
<1>8. x[28] = y[28] /\ x[29] = y[29]
  BY <1>1, <1>7
<1>9. \A j \in 0..29 : x[j] = y[j]
  <2> TAKE j \in 0..29
  <2>1. CASE j \notin {i, i + 1}
    BY <1>3, <2>1
  <2>2. CASE j \in {i, i + 1} /\ i < 28
    BY <1>7, <2>2
  <2>3. CASE j \in {i, i + 1} /\ i = 28
    BY <1>8, <2>3
  <2> QED BY <1>4, <2>1, <2>2, <2>3
<1> QED BY <1>9 DEF Encoded, EncodedSize

\* What decoding accepts has a checksum that fits, and so has what was sent.
LEMMA AcceptedFits ==
  ASSUME NEW bytes, NEW destination, DecodeStatus(bytes, destination) = "OK"
  PROVE  Fits(bytes)
BY DEF DecodeStatus, Fits

LEMMA SentFits == \A p \in Packets : Fits(Encode(p)) /\ Encode(p) \in Encoded
BY EncodedBytes DEF Fits

LEMMA FrameTypes == \A p \in Packets : Frames[p] \in Encoded /\ Frames[p] = Encode(p)
BY EncodedBytes DEF Frames

\* Packets that differ in one field of two bytes, as those with neighbouring
\* sequence numbers do, cannot be torn into another.
LEMMA NeighboursNotTorn ==
  ASSUME \A p, q \in Packets : \E i \in 0..(CrcOffset - 2) :
           \A j \in 0..(CrcOffset - 1) :
             j \notin {i, i + 1} => Body(p)[j] = Body(q)[j]
  PROVE  TearsFound
<1> SUFFICES ASSUME NEW p \in Packets, NEW q \in Packets,
                    NEW k \in 1..(EncodedSize - 1),
                    Fits(Mixed(Encode(p), k, Encode(q)))
             PROVE  Mixed(Encode(p), k, Encode(q)) \in {Encode(p), Encode(q)}
  BY FrameTypes DEF TearsFound, Fits
<1> DEFINE x == Encode(p)
           y == Encode(q)
           t == Mixed(x, k, y)
<1>1. x \in Encoded /\ y \in Encoded /\ Fits(x) /\ Fits(y)
  BY SentFits
<1>2. \A j \in 0..27 : x[j] = Body(p)[j] /\ y[j] = Body(q)[j]
  BY EncodedBytes DEF CrcOffset
<1>3. PICK i \in 0..26 : \A j \in 0..27 : j \notin {i, i + 1} => x[j] = y[j]
  BY <1>2 DEF CrcOffset
<1> HIDE DEF x, y
<1>4. \A j \in 0..29 : t[j] = IF j < k THEN x[j] ELSE y[j]
  BY DEF Mixed, EncodedSize
<1>5. t \in Encoded
  BY <1>1 DEF Mixed, Encoded
<1>6. Fits(t)
  BY DEF x, y
<1>7. k \in 1..29
  BY DEF EncodedSize
<1> HIDE DEF t
<1>8. CASE k <= 28
  <2>1. ApartAt(i, t, y)
    BY <1>3, <1>4, <1>7, <1>8 DEF ApartAt, EncodedSize
  <2>2. i \in 0..(EncodedSize - 2)
    BY DEF EncodedSize
  <2> QED BY <1>1, <1>5, <1>6, <2>1, <2>2, FitsTells DEF t, x, y
<1>9. CASE k = 29
  <2>1. ApartAt(28, t, x)
    BY <1>4, <1>9 DEF ApartAt, EncodedSize
  <2>2. 28 \in 0..(EncodedSize - 2)
    BY DEF EncodedSize
  <2> QED BY <1>1, <1>5, <1>6, <2>1, <2>2, FitsTells DEF t, x, y
<1> QED BY <1>7, <1>8, <1>9

\* Until it arrives a frame is as it was sent.  Then two neighbouring bytes of
\* it may be others, or it goes on as another frame.
PacketInv ==
  /\ PacketTypeOK
  /\ ~packet_arrived => packet_bytes = Frames[packet_sent]
  /\ packet_arrived =>
       \/ \E i \in 0..(EncodedSize - 2) :
            ApartAt(i, packet_bytes, Frames[packet_sent])
       \/ \E i \in 1..(EncodedSize - 1), p \in Packets :
            packet_bytes = Mixed(Frames[packet_sent], i, Frames[p])

LEMMA PacketStart == PacketInit => PacketInv
BY FrameTypes DEF PacketInit, PacketInv, PacketTypeOK

LEMMA PacketKept == PacketInv /\ [PacketNext]_packetVars => PacketInv'
<1> SUFFICES ASSUME PacketInv, [PacketNext]_packetVars
             PROVE  PacketInv'
  OBVIOUS
<1> USE DEF PacketTypeOK
<1>0. PacketTypeOK
  BY DEF PacketInv
<1>1. \A bytes : Arrive(bytes) => packet_bytes = Frames[packet_sent]
  BY DEF Arrive, PacketInv
<1>2. ASSUME NEW i \in 0..(EncodedSize - 2), NEW x \in Damages, NEW y \in Damages,
             Arrive(Damaged(i, x, y))
      PROVE  PacketInv'
  <2>1. i \in 0..(EncodedSize - 1) /\ i + 1 \in 0..(EncodedSize - 1)
    BY DEF EncodedSize
  <2>2. packet_bytes[i] \in Byte /\ packet_bytes[i + 1] \in Byte
        /\ x \in Byte /\ y \in Byte
    BY <1>0, <2>1, PacketAssumption DEF Encoded
  <2>3. \A a, c \in Byte : (a + c) % 256 \in Byte
    BY DEF Byte
  <2>4. packet_bytes[i + 1]
          = [packet_bytes EXCEPT ![i] = (packet_bytes[i] + x) % 256][i + 1]
    BY <1>0, <2>1 DEF Encoded
  <2>5. Damaged(i, x, y) \in Encoded
    BY <1>0, <2>1, <2>2, <2>3, <2>4 DEF Damaged, Encoded
  <2>6. ApartAt(i, Damaged(i, x, y), packet_bytes)
    BY <1>0, <2>1 DEF ApartAt, Damaged, Encoded
  <2>7. packet_bytes' = Damaged(i, x, y) /\ packet_arrived' /\ packet_sent' = packet_sent
    BY <1>2 DEF Arrive
  <2>8. ApartAt(i, packet_bytes', Frames[packet_sent'])
    BY <1>1, <1>2, <2>6, <2>7
  <2>9. PacketTypeOK'
    BY <1>0, <2>5, <2>7
  <2> QED BY <2>7, <2>8, <2>9 DEF PacketInv
<1>3. ASSUME NEW i \in 1..(EncodedSize - 1), NEW p \in Packets, Arrive(Torn(i, p))
      PROVE  PacketInv'
  <2>1. Torn(i, p) \in Encoded
    <3>1. packet_bytes \in Encoded /\ Frames[p] \in Encoded
      BY <1>0, FrameTypes
    <3>2. \A j \in 0..(EncodedSize - 1) :
            packet_bytes[j] \in Byte /\ Frames[p][j] \in Byte
      BY <3>1 DEF Encoded
    <3> QED BY <3>2 DEF Torn, Mixed, Encoded
  <2>2. packet_bytes' = Torn(i, p) /\ packet_arrived' /\ packet_sent' = packet_sent
    BY <1>3 DEF Arrive
  <2>3. packet_bytes' = Mixed(Frames[packet_sent'], i, Frames[p])
    BY <1>1, <1>3, <2>2 DEF Torn
  <2>4. PacketTypeOK'
    BY <1>0, <2>1, <2>2
  <2> QED BY <2>2, <2>3, <2>4 DEF PacketInv
<1>4. ASSUME NEW p \in Packets, Send(p)
      PROVE  PacketInv'
  BY <1>4, FrameTypes DEF Send, PacketInv
<1>5. CASE UNCHANGED packetVars
  BY <1>5 DEF packetVars, PacketInv
<1> QED BY <1>2, <1>3, <1>4, <1>5 DEF PacketNext

\* What does not depend on how good the checksum is: what is accepted is a
\* packet for the receiver, and a frame that arrives as it was sent is accepted
\* as what was sent.
AcceptedIsSound ==
  packet_arrived =>
    LET destination == packet_sent.destination_id
        status == DecodeStatus(packet_bytes, destination) IN
    /\ status = "OK" => /\ Decoded(packet_bytes) \in Packet
                        /\ Decoded(packet_bytes).destination_id = destination
    /\ packet_bytes = Frames[packet_sent] =>
         status = "OK" /\ Decoded(packet_bytes) = Padded(packet_sent)

LEMMA PacketShows == PacketInv => PacketTypeOK /\ AcceptedIsSound
<1> SUFFICES ASSUME PacketInv PROVE AcceptedIsSound
  BY DEF PacketInv
<1>1. packet_sent \in Packets /\ packet_bytes \in Encoded
      /\ Frames[packet_sent] = Encode(packet_sent)
  BY FrameTypes DEF PacketInv, PacketTypeOK
<1> QED BY <1>1, RoundTrip, AcceptedIsPacket DEF AcceptedIsSound

\* What does: a frame that is accepted and differs from a packet's at most in two
\* neighbouring bytes is that packet's, whatever happened to it.
DamageFound ==
  packet_arrived
    /\ DecodeStatus(packet_bytes, packet_sent.destination_id) = "OK" =>
    \A p \in Packets, i \in 0..(EncodedSize - 2) :
      ApartAt(i, packet_bytes, Frames[p]) => packet_bytes = Frames[p]

LEMMA DamageShows == PacketInv => DamageFound
<1> SUFFICES ASSUME PacketInv, NEW destination,
                    DecodeStatus(packet_bytes, destination) = "OK",
                    NEW p \in Packets, NEW i \in 0..(EncodedSize - 2),
                    ApartAt(i, packet_bytes, Frames[p])
             PROVE  packet_bytes = Frames[p]
  BY DEF DamageFound
<1>1. packet_bytes \in Encoded /\ Fits(packet_bytes)
  BY AcceptedFits DEF PacketInv, PacketTypeOK
<1>2. Frames[p] \in Encoded /\ Fits(Frames[p])
  BY FrameTypes, SentFits
<1> QED BY <1>1, <1>2, FitsTells

LEMMA SentShows ==
  ASSUME TearsFound
  PROVE  PacketInv => AcceptedWasSent
<1> SUFFICES ASSUME PacketInv, packet_arrived PROVE AcceptedWasSent
  BY DEF AcceptedWasSent
<1> DEFINE status == DecodeStatus(packet_bytes, packet_sent.destination_id)
<1>1. packet_sent \in Packets /\ packet_bytes \in Encoded
  BY DEF PacketInv, PacketTypeOK
<1>2. \A p \in Packets : Decoded(Frames[p]) = Padded(p)
  BY FrameTypes, RoundTrip
<1>3. ASSUME status = "OK" PROVE \E p \in Packets : packet_bytes = Frames[p]
  <2>1. CASE \E i \in 0..(EncodedSize - 2) :
               ApartAt(i, packet_bytes, Frames[packet_sent])
    BY <1>1, <1>3, <2>1, DamageShows DEF DamageFound
  <2>2. ASSUME NEW i \in 1..(EncodedSize - 1), NEW p \in Packets,
               packet_bytes = Mixed(Frames[packet_sent], i, Frames[p])
        PROVE  packet_bytes \in {Frames[packet_sent], Frames[p]}
    <3>1. ReadU16(packet_bytes, CrcOffset) = Crc(BodyOf(packet_bytes))
      BY <1>3, AcceptedFits DEF Fits
    <3> QED BY <1>1, <2>2, <3>1 DEF TearsFound
  <2> QED BY <1>1, <2>1, <2>2 DEF PacketInv
<1>4. packet_bytes = Frames[packet_sent] => status = "OK"
  BY <1>1, FrameTypes, RoundTrip
<1> QED BY <1>2, <1>3, <1>4 DEF AcceptedWasSent

-----------------------------------------------------------------------------
(* Parts: while one part moves the others rest, so that what holds in each *)
(* part's own specification holds in theirs.                               *)

LEMMA PartsStart ==
  Init => CrsfInit /\ SbusInit /\ TaskInit /\ MapInit /\ PacketInit
BY DEF Init

LEMMA PartsStep ==
  [Next]_vars => /\ [CrsfNext]_crsfVars /\ [SbusNext]_sbusVars
                 /\ [TaskNext]_taskVars /\ [Move]_mapVars
                 /\ [PacketNext]_packetVars
<1> SUFFICES ASSUME [Next]_vars
             PROVE  /\ [CrsfNext]_crsfVars /\ [SbusNext]_sbusVars
                    /\ [TaskNext]_taskVars /\ [Move]_mapVars
                    /\ [PacketNext]_packetVars
  OBVIOUS
<1> QED BY DEF Next, NextCrsf, NextSbus, NextTask, NextMapper, NextPacket, vars

\* Parts refines each of its parts: nothing in it can break what a part
\* promises by itself.
THEOREM PartsRefined ==
  Spec => CrsfSpec /\ SbusSpec /\ TaskSpec /\ MapSpec /\ PacketSpec
BY PartsStart, PartsStep, PTL
   DEF Spec, CrsfSpec, SbusSpec, TaskSpec, MapSpec, PacketSpec

\* rc_receiver_task_notify_from_isr loses no frame, in whatever step of its
\* iteration it finds the task, nor when the task is deleted and created again.
THEOREM TaskServed == Spec => []SignalServed
<1>1. TaskSpec => []SignalServed
  BY TaskStart, TaskKept, TaskShows, PTL DEF TaskSpec
<1> QED BY <1>1, PartsRefined, PTL

\* The frame in the mailbox is never both valid and older than the failsafe
\* timeout and one period of the task.
THEOREM TaskFresh == Spec => []MailboxFresh
<1>1. TaskSpec => []MailboxFresh
  BY TaskStart, TaskKept, TaskShows, PTL DEF TaskSpec
<1> QED BY <1>1, PartsRefined, PTL

\* rc_channel_mapper_map keeps the value in range, reaches both ends and follows
\* the stick without a jump back, for every entry rc_channel_map_entry_is_valid
\* accepts and every raw value, not only those of a profile.
THEOREM MapperCorrect == Spec => []StickFollowed
<1>1. MapSpec => []StickFollowed
  BY MapStart, MapKept, MapShows, PTL DEF MapSpec
<1> QED BY <1>1, PartsRefined, PTL

\* What link_packet_decode accepts of any frame, damaged or torn, is a packet
\* with every field in its range, and an intact frame decodes to the packet
\* link_packet_encode made it of: for every checksum with values of 16 bits.
THEOREM PacketSound == Spec => []AcceptedIsSound
<1>1. PacketSpec => []AcceptedIsSound
  BY PacketStart, PacketKept, PacketShows, PTL DEF PacketSpec
<1> QED BY <1>1, PartsRefined, PTL

\* link_crc16_ccitt_false is good enough: link_packet_decode accepts no frame in
\* which something was altered within two neighbouring bytes, wherever they are
\* and whatever they became, for all packets and not only for those of a run.
THEOREM PacketDamageFound == Spec => []DamageFound
<1>1. PacketSpec => []DamageFound
  BY PacketStart, PacketKept, DamageShows, PTL DEF PacketSpec
<1> QED BY <1>1, PartsRefined, PTL

\* What link_packet_decode accepts was sent, of every set of packets of which no
\* two can be torn into a third with a checksum that fits: of a torn frame that
\* much has to be assumed, of a damaged one nothing.
THEOREM PacketWasSent ==
  ASSUME TearsFound
  PROVE  Spec => []AcceptedWasSent
<1>1. PacketInv => AcceptedWasSent
  BY SentShows
<1>2. PacketSpec => []AcceptedWasSent
  BY <1>1, PacketStart, PacketKept, PTL DEF PacketSpec
<1> QED BY <1>2, PartsRefined, PTL

\* The types of all five; and neither parser has a place in its frame that its
\* buffer does not have.
THEOREM TypeCorrect == Spec => []TypeOK
<1>1. TaskSpec => []TaskTypeOK
  BY TaskStart, TaskKept, TaskShows, PTL DEF TaskSpec
<1>2. MapSpec => []MapTypeOK
  BY MapStart, MapKept, MapShows, PTL DEF MapSpec
<1>3. PacketSpec => []PacketTypeOK
  BY PacketStart, PacketKept, PacketShows, PTL DEF PacketSpec
<1>4. CrsfTypeOK /\ SbusTypeOK /\ TaskTypeOK /\ MapTypeOK /\ PacketTypeOK => TypeOK
  BY DEF TypeOK
<1> QED BY <1>1, <1>2, <1>3, <1>4, CrsfCorrect, SbusCorrect, PartsRefined, PTL

\* A frame whose first byte finds crsf_protocol_process_byte waiting for one, and
\* that the line leaves alone, is recognised as what it is: for every frame that
\* is sent and every damage before it.
THEOREM CrsfRecognises == Spec => []FramesRecognised
BY CrsfCorrect, PartsRefined, PTL

\* A damage costs crsf_protocol_process_byte the frames within one frame size of
\* it and no more, if no byte but a frame's first looks like an address: for
\* every size of a frame and every damage.
THEOREM CrsfBackInStep == Spec => []BackInStep
BY CrsfCorrect, PartsRefined, PTL

\* sbus_protocol_process_byte hands over the frames that arrive whole and nothing
\* else, for every timing that lets it tell the pauses between them.
THEOREM SbusExact == Spec => []FramesExact
BY SbusCorrect, PartsRefined, PTL

=============================================================================
