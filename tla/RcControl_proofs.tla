-------------------------- MODULE RcControl_proofs --------------------------
(***************************************************************************)
(* What RcControl's run checks on small thresholds and a short clock, for  *)
(* every value of the constants: type correctness, that enabled outputs    *)
(* rest on a fresh frame and on a released switch, and that arming and     *)
(* disarming have their reasons.                                           *)
(***************************************************************************)
EXTENDS RcControl, Modular, TLAPS

-----------------------------------------------------------------------------
(* Types                                                                   *)

\* A number of the clock's stays one when the clock ticks.
LEMMA ClockTypes ==
  ASSUME NEW c \in 0..(ClockModulus - 1)
  PROVE  (c + 1) % ClockModulus \in 0..(ClockModulus - 1)
<1>1. ClockModulus \in Nat \ {0}
  BY ClockAssumption
<1> QED BY <1>1, ModRange

\* The policy keeps the types of its variables.
LEMMA PolicyTypes ==
  ASSUME TypeOK, Process(latest_frame)
  PROVE  /\ armed_latched' \in BOOLEAN /\ arm_release_required' \in BOOLEAN
         /\ command' \in [state : {"SAFE", "READY", "ACTIVE"},
                          throttle : ThrottleValues \union {0}]
<1> USE DEF TypeOK, Frames, NoFrame, Safe, Ready, Active
<1>1. CASE EnterSafe(TRUE)
  BY <1>1, PolicyAssumption DEF EnterSafe
<1>2. CASE AwaitRelease(latest_frame)
  BY <1>2, PolicyAssumption DEF AwaitRelease, EnterSafe
<1>3. CASE Decide(latest_frame)
  <2>1. latest_frame.throttle \in ThrottleValues \union {0}
    OBVIOUS
  <2> QED BY <1>3, <2>1 DEF Decide, IsOff, IsOn, MayArm
<1> QED BY <1>1, <1>2, <1>3 DEF Process

\* Every variable of the receiver's service, the policy and the main loop
\* keeps its type.
THEOREM TypeCorrect == Spec => []TypeOK
<1>1. Init => TypeOK
  <2> SUFFICES ASSUME Init
               PROVE  TypeOK
    OBVIOUS
  <2>1. command \in [state : {"SAFE", "READY", "ACTIVE"},
                     throttle : ThrottleValues \union {0}]
    BY DEF Init, Safe
  <2>2. /\ drained \in 0..FramesPerPoll /\ sinceCheck \in 0..MaxStall
        /\ age \in Nat /\ sincePoll \in Nat
    BY ClockAssumption, BoundAssumption DEF Init
  <2>3. arm_release_required \in BOOLEAN
    BY PolicyAssumption DEF Init
  <2> QED BY <2>1, <2>2, <2>3 DEF Init, TypeOK
<1>2. TypeOK /\ [Next]_vars => TypeOK'
  <2> SUFFICES ASSUME TypeOK, [Next]_vars
               PROVE  TypeOK'
    OBVIOUS
  <2> USE DEF TypeOK, service, policy, elapsed
  <2>1. CASE Tick
    <3>1. clock' \in 0..(ClockModulus - 1)
      BY <2>1, ClockTypes DEF Tick
    <3>2. age' \in Nat
      BY <2>1 DEF Tick, Older
    <3> QED BY <2>1, <3>1, <3>2, ClockAssumption DEF Tick
  <2>2. CASE BeginPoll
    BY <2>2, BoundAssumption DEF BeginPoll
  <2>3. ASSUME NEW f \in Frames, ReceiveFrame(f)
        PROVE  TypeOK'
    <3>1. f.lost \in BOOLEAN
      BY DEF Frames
    <3>2. failsafe_active' \in BOOLEAN /\ offReceived' \in BOOLEAN
      BY <2>3, <3>1 DEF ReceiveFrame
    <3>3. latest_frame' \in Frames \union {NoFrame} /\ drained' \in 0..FramesPerPoll
      BY <2>3, BoundAssumption DEF ReceiveFrame
    <3>4. /\ has_frame' \in BOOLEAN /\ age' \in Nat
          /\ last_frame_time_ms' \in 0..(ClockModulus - 1)
      BY <2>3 DEF ReceiveFrame
    <3> QED BY <2>3, <3>2, <3>3, <3>4 DEF ReceiveFrame
  <2>4. CASE EndDrain
    BY <2>4 DEF EndDrain
  <2>5. CASE CheckTimeout
    <3>1. Lost(latest_frame) \in Frames \union {NoFrame}
      <4>1. CASE latest_frame \in Frames
        BY <4>1 DEF Lost, Frames
      <4>2. CASE latest_frame = NoFrame
        BY <4>2 DEF Lost, NoFrame
      <4> QED BY <4>1, <4>2
    <3>2. /\ latest_frame' \in Frames \union {NoFrame}
          /\ failsafe_active' \in BOOLEAN /\ offReceived' \in BOOLEAN
      BY <2>5, <3>1 DEF CheckTimeout
    <3>3. sinceCheck' \in 0..MaxStall
      BY <2>5, ClockAssumption DEF CheckTimeout
    <3> QED BY <2>5, <3>2, <3>3 DEF CheckTimeout
  <2>6. CASE UpdateControl
    BY <2>6, PolicyTypes DEF UpdateControl, Trusted
  <2>7. CASE UNCHANGED vars
    BY <2>7 DEF vars
  <2> QED BY <2>1, <2>2, <2>3, <2>4, <2>5, <2>6, <2>7 DEF Next, Poll
<1> QED BY <1>1, <1>2, PTL DEF Spec

-----------------------------------------------------------------------------
(* Released switches                                                       *)

\* The policy's two flags and its command tell the same story: enabled means
\* latched, and unless a release is still required the switch has been off
\* since the last distrusted input.
ReleaseInv ==
  /\ Enabled <=> armed_latched
  /\ RequireRelease /\ ~arm_release_required => released
  /\ armed_latched => ~arm_release_required

\* It is kept by every step of the policy.
LEMMA PolicyRelease ==
  ASSUME TypeOK, ReleaseInv, UpdateControl
  PROVE  ReleaseInv'
<1> USE DEF ReleaseInv, Enabled, Safe, Ready, Active
<1>1. /\ armed_latched \in BOOLEAN /\ arm_release_required \in BOOLEAN
      /\ RequireRelease \in BOOLEAN
  BY PolicyAssumption DEF TypeOK
<1>2. released' = (Trusted /\ (released \/ IsOff(latest_frame)))
  BY DEF UpdateControl
<1>3. CASE ~Trusted
  <2>1. EnterSafe(TRUE)
    BY <1>3 DEF UpdateControl, Process
  <2> QED BY <1>1, <2>1 DEF EnterSafe
<1>4. CASE Trusted /\ AwaitRelease(latest_frame)
  BY <1>1, <1>4 DEF AwaitRelease, EnterSafe
<1>5. CASE Trusted /\ Decide(latest_frame)
  <2>1. ~arm_release_required' /\ (arm_release_required => IsOff(latest_frame))
    BY <1>5 DEF Decide
  <2>2. command'.state = "ACTIVE" <=> armed_latched'
    BY <1>5 DEF Decide
  <2>3. RequireRelease => released'
    BY <1>1, <1>2, <1>5, <2>1
  <2> QED BY <2>1, <2>2, <2>3
<1> QED BY <1>3, <1>4, <1>5 DEF UpdateControl, Process

\* The other steps leave the policy alone.
LEMMA PolicyUntouched ==
  ASSUME [Next]_vars, ~UpdateControl
  PROVE  UNCHANGED <<policy, released>>
BY DEF Next, Poll, Tick, BeginPoll, ReceiveFrame, EndDrain, CheckTimeout, vars

\* Hence in every reachable state.
LEMMA ReleaseInvariant == Spec => []ReleaseInv
<1>1. Init => ReleaseInv
  BY PolicyAssumption DEF Init, ReleaseInv, Enabled, Safe
<1>2. TypeOK /\ ReleaseInv /\ [Next]_vars => ReleaseInv'
  BY PolicyRelease, PolicyUntouched DEF ReleaseInv, Enabled, policy
<1> QED BY <1>1, <1>2, TypeCorrect, PTL DEF Spec

\* Enabled outputs rest on a switch that the policy has seen off after the
\* last input it distrusted.
THEOREM Released == Spec => []EnabledMeansReleased
<1>1. ReleaseInv => EnabledMeansReleased
  BY DEF ReleaseInv, EnabledMeansReleased
<1> QED BY <1>1, ReleaseInvariant, PTL

\* Outputs become enabled only by the switch, with the throttle low, on trusted input
\* after a release, and are given up only for the switch or for distrusted input.
THEOREM FollowsSwitch == Spec => OutputsFollowSwitch
<1> DEFINE A == /\ latest_frame.arm >= ArmOnThreshold
                /\ latest_frame.throttle <= ThrottleArmMax
                /\ ~failsafe_active
                /\ RequireRelease => released
           B == ~Trusted \/ IsOff(latest_frame)
<1>1. ASSUME TypeOK, ReleaseInv, [Next]_vars, ~Enabled, Enabled'
      PROVE  A
  <2> USE DEF Enabled, Safe, Ready, Active
  <2>1. UpdateControl
    BY <1>1, PolicyUntouched DEF policy
  <2>2. Trusted /\ Decide(latest_frame)
    BY <1>1, <2>1 DEF UpdateControl, Process, EnterSafe, AwaitRelease
  <2>3. ~armed_latched
    BY <1>1 DEF ReleaseInv
  <2>4. MayArm(latest_frame)
    BY <1>1, <2>2, <2>3 DEF Decide
  <2>5. latest_frame.arm \in Int
    <3>1. CASE latest_frame \in Frames
      BY <3>1, InputAssumption DEF Frames
    <3>2. CASE latest_frame = NoFrame
      BY <3>2 DEF NoFrame
    <3> QED BY <1>1, <3>1, <3>2 DEF TypeOK
  <2>6. ~IsOff(latest_frame)
    BY <2>4, <2>5, PolicyAssumption DEF MayArm, IsOn, IsOff
  <2>7. ~arm_release_required
    BY <2>2, <2>6 DEF Decide
  <2> QED BY <1>1, <2>2, <2>4, <2>7 DEF MayArm, IsOn, Trusted, ReleaseInv
<1>2. ASSUME TypeOK, ReleaseInv, [Next]_vars, Enabled, ~Enabled'
      PROVE  B
  <2> USE DEF Enabled, Safe, Ready, Active
  <2>1. UpdateControl
    BY <1>2, PolicyUntouched DEF policy
  <2>2. armed_latched /\ ~arm_release_required
    BY <1>2 DEF ReleaseInv
  <2>3. CASE Trusted
    <3>1. Decide(latest_frame)
      BY <2>1, <2>2, <2>3 DEF UpdateControl, Process, AwaitRelease
    <3> QED BY <1>2, <2>2, <3>1 DEF Decide
  <2> QED BY <2>3
<1>3. TypeOK /\ ReleaseInv /\ [Next]_vars
        => [(~Enabled /\ Enabled' => A) /\ (Enabled /\ ~Enabled' => B)]_vars
  BY <1>1, <1>2
<1> QED BY <1>3, TypeCorrect, ReleaseInvariant, PTL
        DEF Spec, OutputsFollowSwitch

-----------------------------------------------------------------------------
(* Fresh frames                                                            *)

\* What the wrapped clock shows of the true ages, and how old the newest frame
\* can be while the service does not report a failsafe.
AgeInv ==
  /\ clock = now_ms + sincePoll \/ clock = now_ms + sincePoll - ClockModulus
     \/ pc \notin {"drain", "check"}
  /\ \/ age >= ClockModulus
     \/ clock = last_frame_time_ms + age
     \/ clock = last_frame_time_ms + age - ClockModulus
  /\ pc \in {"drain", "check"} => sincePoll <= sinceCheck
  /\ ~failsafe_active => age <= FailsafeTimeout + sinceCheck
  /\ Enabled /\ pc # "control" => age <= FailsafeTimeout + sinceCheck

\* Within the bound on stalls, the elapsed time the service computes is the
\* newest frame's age.
LEMMA ElapsedIsAge ==
  ASSUME TypeOK, AgeInv, ~failsafe_active
  PROVE  (clock - last_frame_time_ms) % ClockModulus = age
<1>1. age <= FailsafeTimeout + MaxStall /\ age < ClockModulus /\ age \in Nat
  BY ClockAssumption DEF TypeOK, AgeInv
<1>2. /\ clock \in 0..(ClockModulus - 1)
      /\ last_frame_time_ms \in 0..(ClockModulus - 1)
      /\ ClockModulus \in Nat \ {0}
  BY ClockAssumption DEF TypeOK
<1>3. \/ clock = last_frame_time_ms + age
      \/ clock = last_frame_time_ms + age - ClockModulus
  BY <1>1, <1>2 DEF AgeInv
<1>4. (clock - last_frame_time_ms) % ClockModulus =
        IF clock >= last_frame_time_ms THEN clock - last_frame_time_ms
        ELSE clock - last_frame_time_ms + ClockModulus
  BY <1>2, WrapElapsed
<1> QED BY <1>1, <1>2, <1>3, <1>4

\* The tick counter and the true ages advance together.
LEMMA TickKeepsAges ==
  ASSUME TypeOK, AgeInv, Tick
  PROVE  AgeInv'
<1>1. /\ clock \in 0..(ClockModulus - 1) /\ ClockModulus \in Nat \ {0}
      /\ last_frame_time_ms \in 0..(ClockModulus - 1)
      /\ now_ms \in 0..(ClockModulus - 1)
      /\ age \in Nat /\ sincePoll \in Nat /\ sinceCheck \in Nat
      /\ FailsafeTimeout \in Nat
  BY ClockAssumption DEF TypeOK
<1>2. clock' = IF clock + 1 = ClockModulus THEN 0 ELSE clock + 1
  BY <1>1, WrapNext DEF Tick
<1>3. /\ UNCHANGED <<now_ms, last_frame_time_ms, failsafe_active, command, pc>>
      /\ sincePoll' = sincePoll + 1 /\ sinceCheck' = sinceCheck + 1
  BY DEF Tick, service, policy
<1>4. age' = IF age < MaxAge THEN age + 1 ELSE age
  BY DEF Tick, Older
<1>5. MaxAge >= ClockModulus
  BY <1>1 DEF MaxAge
<1>6. sinceCheck < MaxStall
  BY DEF Tick
<1> USE <1>1, <1>2, <1>3
<1>7. (\/ clock = now_ms + sincePoll
       \/ clock = now_ms + sincePoll - ClockModulus
       \/ pc \notin {"drain", "check"})'
  <2>1. CASE pc \in {"drain", "check"}
    <3>1. sincePoll < ClockModulus
      BY <1>6, <2>1, ClockAssumption DEF AgeInv
    <3> QED BY <2>1, <3>1 DEF AgeInv
  <2> QED BY <2>1
<1>8. (\/ age >= ClockModulus
       \/ clock = last_frame_time_ms + age
       \/ clock = last_frame_time_ms + age - ClockModulus)'
  BY <1>4, <1>5, ClockAssumption DEF AgeInv, MaxAge
<1>9. (/\ pc \in {"drain", "check"} => sincePoll <= sinceCheck
       /\ ~failsafe_active => age <= FailsafeTimeout + sinceCheck
       /\ Enabled /\ pc # "control" => age <= FailsafeTimeout + sinceCheck)'
  BY <1>4, ClockAssumption DEF AgeInv, Enabled, MaxAge
<1> QED BY <1>7, <1>8, <1>9 DEF AgeInv

\* A frame's age is measured from the time the poll began, which is what the
\* service stores for it.
LEMMA FrameKeepsAges ==
  ASSUME TypeOK, AgeInv, NEW f \in Frames, ReceiveFrame(f)
  PROVE  AgeInv'
<1>1. /\ clock \in 0..(ClockModulus - 1) /\ ClockModulus \in Nat \ {0}
      /\ now_ms \in 0..(ClockModulus - 1)
      /\ sincePoll \in Nat /\ sinceCheck \in Nat /\ FailsafeTimeout \in Nat
  BY ClockAssumption DEF TypeOK
<1>2. /\ UNCHANGED <<clock, now_ms, command, pc, sincePoll, sinceCheck>>
      /\ last_frame_time_ms' = now_ms /\ age' = sincePoll /\ pc = "drain"
  BY DEF ReceiveFrame, policy
<1>3. /\ clock = now_ms + sincePoll \/ clock = now_ms + sincePoll - ClockModulus
      /\ sincePoll <= sinceCheck
  BY <1>2 DEF AgeInv
<1> QED BY <1>1, <1>2, <1>3 DEF AgeInv, Enabled

\* The check lets only a fresh frame pass without a failsafe.
LEMMA CheckKeepsAges ==
  ASSUME TypeOK, AgeInv, CheckTimeout
  PROVE  AgeInv'
<1>1. age \in Nat /\ FailsafeTimeout \in Nat
  BY ClockAssumption DEF TypeOK
<1>2. /\ UNCHANGED <<clock, last_frame_time_ms, now_ms, command, age, sincePoll>>
      /\ sinceCheck' = 0 /\ pc' = "control"
  BY DEF CheckTimeout, policy
<1>3. ~failsafe_active' => age <= FailsafeTimeout
  <2> SUFFICES ASSUME ~failsafe_active'
               PROVE  age <= FailsafeTimeout
    OBVIOUS
  <2>1. ~TimedOut /\ ~failsafe_active
    BY DEF CheckTimeout
  <2> QED BY <1>1, <2>1, ElapsedIsAge, ClockAssumption DEF TimedOut, TypeOK
<1> QED BY <1>1, <1>2, <1>3 DEF AgeInv, Enabled

\* The policy enables the outputs only while there is no failsafe.
LEMMA ControlKeepsAges ==
  ASSUME TypeOK, AgeInv, UpdateControl
  PROVE  AgeInv'
<1>1. Enabled' => ~failsafe_active
  BY DEF UpdateControl, Process, EnterSafe, Enabled, Safe, Trusted
<1>2. UNCHANGED <<clock, last_frame_time_ms, now_ms, failsafe_active, elapsed>>
      /\ pc' = "poll"
  BY DEF UpdateControl, service
<1> QED BY <1>1, <1>2 DEF AgeInv, elapsed

\* The service's clock is right in every reachable state.
LEMMA AgeInvariant == Spec => []AgeInv
<1>1. Init => AgeInv
  BY ClockAssumption DEF Init, AgeInv, Enabled, Safe
<1>2. TypeOK /\ AgeInv /\ [Next]_vars => AgeInv'
  <2> SUFFICES ASSUME TypeOK, AgeInv, [Next]_vars
               PROVE  AgeInv'
    OBVIOUS
  <2>1. CASE Tick
    BY <2>1, TickKeepsAges
  <2>2. CASE BeginPoll
    <3>1. /\ now_ms' = clock /\ sincePoll' = 0
          /\ sinceCheck \in Nat /\ clock \in Nat
      BY <2>2, ClockAssumption DEF BeginPoll, TypeOK
    <3> QED BY <2>2, <3>1 DEF BeginPoll, AgeInv, Enabled, policy
  <2>3. ASSUME NEW f \in Frames, ReceiveFrame(f)
        PROVE  AgeInv'
    BY <2>3, FrameKeepsAges
  <2>4. CASE EndDrain
    BY <2>4 DEF EndDrain, AgeInv, Enabled, service, policy, elapsed
  <2>5. CASE CheckTimeout
    BY <2>5, CheckKeepsAges
  <2>6. CASE UpdateControl
    BY <2>6, ControlKeepsAges
  <2>7. CASE UNCHANGED vars
    BY <2>7 DEF vars, AgeInv, Enabled, service, policy, elapsed
  <2> QED BY <2>1, <2>2, <2>3, <2>4, <2>5, <2>6, <2>7 DEF Next, Poll
<1> QED BY <1>1, <1>2, TypeCorrect, PTL DEF Spec

\* Enabled outputs rest on a frame no older than the timeout when the service
\* last checked, wherever the tick counter has wrapped.
THEOREM Fresh == Spec => []EnabledMeansFresh
<1>1. AgeInv => EnabledMeansFresh
  BY DEF AgeInv, EnabledMeansFresh
<1> QED BY <1>1, AgeInvariant, PTL
=============================================================================
