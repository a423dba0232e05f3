----------------------------- MODULE RcControl -----------------------------
(***************************************************************************)
(* From received frames to enabled outputs: one poll of the STM32F407's    *)
(* main loop (app_main_poll) drains the frames the protocol has decoded    *)
(* (rc_receiver_service.c), checks the failsafe timeout, maps the newest   *)
(* frame and lets the policy decide about the outputs                      *)
(* (rc_control_policy.c).  Time passes between any two of these steps.     *)
(*                                                                         *)
(* A frame is its flags and the values mapped from its arm and throttle    *)
(* channels; the other channels go the throttle's way.  SBUS frames carry  *)
(* the flags, CRSF frames never set them.                                  *)
(***************************************************************************)
EXTENDS Integers

CONSTANTS
  ArmOnThreshold, ArmOffThreshold, ThrottleArmMax,  \* RcControlPolicyConfig
  RequireRelease,     \* require_arm_release_after_failsafe
  FailsafeTimeout,    \* failsafe_timeout_ms
  ClockModulus,       \* 2^32: now_ms wraps
  ArmValues, ThrottleValues,  \* what the mapper may deliver: a two-position
                              \* arm switch 0 or 1000, a continuous one more
  FramesPerPoll,      \* frames decoded in one poll, at most
  MaxStall            \* time from one timeout check to the next, at most

ASSUME PolicyAssumption ==
  /\ ArmOffThreshold \in Nat /\ ArmOnThreshold \in Nat
  /\ ArmOffThreshold < ArmOnThreshold
  /\ ThrottleArmMax \in Nat /\ RequireRelease \in BOOLEAN
ASSUME ClockAssumption ==
  /\ FailsafeTimeout \in Nat /\ ClockModulus \in Nat
  /\ MaxStall \in Nat \ {0} /\ FailsafeTimeout + MaxStall < ClockModulus
ASSUME InputAssumption ==
  ArmValues \subseteq Int /\ ThrottleValues \subseteq Int
ASSUME BoundAssumption == FramesPerPoll \in Nat

VARIABLES
  clock,     \* the tick counter
  \* RcReceiverService
  has_frame, latest_frame, last_frame_time_ms, failsafe_active,
  now_ms,    \* read when the drain begins
  \* RcControlPolicy
  armed_latched, arm_release_required,
  command,   \* s_latest_control_command: state and throttle
  \* the main loop
  pc, drained,
  \* what the properties compare with
  age,         \* time since the poll that read the newest frame began
  sincePoll,   \* time since the present poll began
  sinceCheck,  \* time since the last timeout check
  released,    \* the policy was shown the switch off, and no distrusted
               \* input since
  offReceived  \* the same of the frames the service received

service == <<has_frame, latest_frame, last_frame_time_ms, failsafe_active,
             now_ms>>
policy == <<armed_latched, arm_release_required, command>>
elapsed == <<age, sincePoll, sinceCheck>>
vars == <<clock, service, policy, pc, drained, elapsed, released, offReceived>>

Frames == [lost : BOOLEAN, arm : ArmValues, throttle : ThrottleValues]
NoFrame == [lost |-> TRUE, arm |-> 0, throttle |-> 0]
Lost(f) == [lost |-> TRUE, arm |-> f.arm, throttle |-> f.throttle]

IsOff(f) == f.arm <= ArmOffThreshold
IsOn(f) == f.arm >= ArmOnThreshold

\* Long enough to tell a silence from what the wrapped clock shows of it.
MaxAge == ClockModulus + FailsafeTimeout + 1
Older(a) == IF a < MaxAge THEN a + 1 ELSE a

-----------------------------------------------------------------------------
Tick ==
  /\ sinceCheck < MaxStall
  /\ clock' = (clock + 1) % ClockModulus
  /\ age' = Older(age)
  /\ sincePoll' = sincePoll + 1
  /\ sinceCheck' = sinceCheck + 1
  /\ UNCHANGED <<service, policy, pc, drained, released, offReceived>>

\* rc_receiver_service_process reads the time once, before the drain.
BeginPoll ==
  /\ pc = "poll"
  /\ now_ms' = clock
  /\ sincePoll' = 0
  /\ drained' = 0
  /\ pc' = "drain"
  /\ UNCHANGED <<clock, has_frame, latest_frame, last_frame_time_ms,
                 failsafe_active, policy, age, sinceCheck, released,
                 offReceived>>

\* A byte completes a frame.  Only the newest frame is kept, and the failsafe
\* follows its flags.
ReceiveFrame(f) ==
  /\ pc = "drain"
  /\ drained < FramesPerPoll
  /\ drained' = drained + 1
  /\ has_frame' = TRUE
  /\ latest_frame' = f
  /\ last_frame_time_ms' = now_ms
  /\ failsafe_active' = f.lost
  /\ age' = sincePoll
  /\ offReceived' = (~f.lost /\ (offReceived \/ IsOff(f)))
  /\ UNCHANGED <<clock, now_ms, policy, pc, sincePoll, sinceCheck, released>>

\* No byte is left.
EndDrain ==
  /\ pc = "drain"
  /\ pc' = "check"
  /\ UNCHANGED <<clock, service, policy, drained, elapsed, released,
                 offReceived>>

\* mutant: the comparison does not survive the wrap of the tick counter
TimedOut_Compared == clock > last_frame_time_ms + FailsafeTimeout

TimedOut == (clock - last_frame_time_ms) % ClockModulus > FailsafeTimeout

\* The end of rc_receiver_service_process.
CheckTimeout ==
  /\ pc = "check"
  /\ IF TimedOut
     THEN /\ failsafe_active' = TRUE
          /\ latest_frame' = Lost(latest_frame)
          /\ offReceived' = FALSE
     ELSE UNCHANGED <<failsafe_active, latest_frame, offReceived>>
  /\ sinceCheck' = 0
  /\ pc' = "control"
  /\ UNCHANGED <<clock, has_frame, last_frame_time_ms, now_ms, policy,
                 drained, age, sincePoll, released>>

-----------------------------------------------------------------------------
(* rc_control_policy_process                                               *)

Safe == [state |-> "SAFE", throttle |-> 0]
Ready == [state |-> "READY", throttle |-> 0]
Active(f) == [state |-> "ACTIVE", throttle |-> f.throttle]

\* mutant: refusing to arm clears what it was refused for
EnterSafe_Forgets(require) ==
  /\ armed_latched' = FALSE
  /\ arm_release_required' = (require /\ RequireRelease)
  /\ command' = Safe

EnterSafe(require) ==
  /\ armed_latched' = FALSE
  /\ arm_release_required' =
       (arm_release_required \/ (require /\ RequireRelease))
  /\ command' = Safe

\* What app_update_control gives the policy: nothing before the first frame,
\* and the service's failsafe beside the frame's own flags.
Trusted == has_frame /\ ~latest_frame.lost /\ ~failsafe_active

\* After startup or failsafe, the switch is first to be moved to off.
AwaitRelease(f) ==
  /\ arm_release_required /\ ~IsOff(f)
  /\ EnterSafe(FALSE)

MayArm(f) == IsOn(f) /\ f.throttle <= ThrottleArmMax

\* mutant: without the hysteresis
Decide_OneThreshold(f) ==
  LET armed == IF armed_latched THEN IsOn(f) ELSE MayArm(f)
  IN  /\ arm_release_required => IsOff(f)
      /\ arm_release_required' = FALSE
      /\ armed_latched' = armed
      /\ command' = IF armed THEN Active(f) ELSE Ready

\* An armed system stays armed until the switch is off; otherwise it is armed
\* by the switch, with the throttle low.
Decide(f) ==
  LET armed == IF armed_latched THEN ~IsOff(f) ELSE MayArm(f)
  IN  /\ arm_release_required => IsOff(f)
      /\ arm_release_required' = FALSE
      /\ armed_latched' = armed
      /\ command' = IF armed THEN Active(f) ELSE Ready

Process(f) ==
  IF ~Trusted THEN EnterSafe(TRUE) ELSE AwaitRelease(f) \/ Decide(f)

\* mutant: the policy runs only when a frame has come
UpdateControl_NewFrame ==
  /\ pc = "control"
  /\ IF drained > 0
     THEN /\ Process(latest_frame)
          /\ released' = (Trusted /\ (released \/ IsOff(latest_frame)))
     ELSE UNCHANGED <<policy, released>>
  /\ pc' = "poll"
  /\ UNCHANGED <<clock, service, drained, elapsed, offReceived>>

\* app_update_control
UpdateControl ==
  /\ pc = "control"
  /\ Process(latest_frame)
  /\ released' = (Trusted /\ (released \/ IsOff(latest_frame)))
  /\ pc' = "poll"
  /\ UNCHANGED <<clock, service, drained, elapsed, offReceived>>

-----------------------------------------------------------------------------
\* The application is initialised: the policy has been given no input once.
Init ==
  /\ clock \in 0..(ClockModulus - 1)
  /\ has_frame = FALSE /\ latest_frame = NoFrame
  /\ last_frame_time_ms = clock /\ failsafe_active = TRUE /\ now_ms = clock
  /\ armed_latched = FALSE /\ arm_release_required = RequireRelease
  /\ command = Safe
  /\ pc = "poll" /\ drained = 0
  /\ age = 0 /\ sincePoll = 0 /\ sinceCheck = 0
  /\ released = FALSE /\ offReceived = FALSE

Poll ==
  \/ BeginPoll
  \/ \E f \in Frames : ReceiveFrame(f)
  \/ EndDrain
  \/ CheckTimeout
  \/ UpdateControl

Next == Tick \/ Poll

Spec == Init /\ [][Next]_vars

\* The main loop runs for ever; nothing makes a frame arrive.
FairSpec == Spec /\ WF_vars(Poll)

-----------------------------------------------------------------------------
(* Properties                                                              *)

\* Every variable has its type.
TypeOK ==
  /\ clock \in 0..(ClockModulus - 1)
  /\ has_frame \in BOOLEAN
  /\ latest_frame \in Frames \union {NoFrame}
  /\ last_frame_time_ms \in 0..(ClockModulus - 1)
  /\ now_ms \in 0..(ClockModulus - 1)
  /\ failsafe_active \in BOOLEAN
  /\ armed_latched \in BOOLEAN /\ arm_release_required \in BOOLEAN
  /\ command \in [state : {"SAFE", "READY", "ACTIVE"},
                  throttle : ThrottleValues \union {0}]
  /\ pc \in {"poll", "drain", "check", "control"}
  /\ drained \in 0..FramesPerPoll
  /\ age \in Nat /\ sincePoll \in Nat
  /\ sinceCheck \in 0..MaxStall
  /\ released \in BOOLEAN /\ offReceived \in BOOLEAN

Enabled == command.state = "ACTIVE"

\* The outputs are enabled only while the newest frame was no older than the
\* timeout when the service last checked, however long the link has been
\* silent and wherever the tick counter has wrapped.
EnabledMeansFresh ==
  Enabled /\ pc # "control" => age <= FailsafeTimeout + sinceCheck

\* The outputs are enabled only if the policy was shown the switch in its off
\* position after the last input it distrusted, startup included.
EnabledMeansReleased == RequireRelease /\ Enabled => released

\* The outputs change only for a reason.  Disabled ones are enabled by the switch,
\* with the throttle low, on a frame that came after a release; enabled ones are
\* given up when the switch is off or the input is distrusted, and a switch
\* between its thresholds changes nothing.
OutputsFollowSwitch ==
  [][/\ ~Enabled /\ Enabled' =>
          /\ latest_frame.arm >= ArmOnThreshold
          /\ latest_frame.throttle <= ThrottleArmMax
          /\ ~failsafe_active
          /\ RequireRelease => released
     /\ Enabled /\ ~Enabled' => ~Trusted \/ IsOff(latest_frame)]_vars

\* A link that falls silent has its outputs disabled.
SilenceDisables == age > FailsafeTimeout ~> ~Enabled \/ age <= FailsafeTimeout

\* "After startup, failsafe, frame loss, or invalid input, the arm switch must
\* be moved to OFF before arming is allowed again" (rc_control_policy.h:53-54),
\* of the frames the service receives.
ReleaseAfterLostFrame ==
  Enabled /\ pc = "poll" => offReceived
=============================================================================
