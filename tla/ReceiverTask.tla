---------------------------- MODULE ReceiverTask -----------------------------
(***************************************************************************)
(* The FreeRTOS task around the receiver service.  The UART interrupt      *)
(* notifies the task, which also wakes by itself once per period; in each  *)
(* iteration it lets the service drain the UART and judge the age of the   *)
(* last frame, and puts what the service holds into a mailbox, a queue of  *)
(* one place that is overwritten.  Its owner, a task of lower priority,    *)
(* creates and deletes it, with the interrupt source stopped while it      *)
(* deletes it.                                                             *)
(*                                                                         *)
(* Of a frame the model keeps whether it is valid and its age in ticks.    *)
(* The task has the highest priority and an iteration takes less than a    *)
(* tick, so that time passes only while it is blocked.                     *)
(***************************************************************************)
EXTENDS Integers

CONSTANTS
  Period,           \* config.period_ticks: 10 ms
  FailsafeTimeout,  \* service->failsafe_timeout_ms
  MaxNotified       \* bound: value of the task's notification counter

ASSUME TaskAssumption ==
  /\ Period \in Nat \ {0}
  /\ FailsafeTimeout \in Nat
  /\ MaxNotified \in Nat \ {0}

MaxAge == FailsafeTimeout + Period + 1   \* bound: older is just as stale

VARIABLES
  \* RcReceiverTask: initialized (it then has its queue), task_handle # NULL,
  \* frame_queue
  task_initialized, task_handle, mailbox,
  \* the running task: where it is, how long it waits, its notification count
  task_pc, task_wait, task_notified,
  \* RcReceiverService: latest_frame
  latest_frame,
  \* whether the UART holds a frame nobody has read
  uart_unread,
  \* ghost: the task was told of that frame
  task_signalled

taskVars == <<task_initialized, task_handle, mailbox, task_pc, task_wait,
              task_notified, latest_frame, uart_unread, task_signalled>>

Frame == [valid : BOOLEAN, age : 0..MaxAge]

\* The service and the mailbox each hold one frame or none: a set of frames.
Nothing == {}

Older(frames) ==
  {[f EXCEPT !.age = IF @ < MaxAge THEN @ + 1 ELSE @] : f \in frames}

-----------------------------------------------------------------------------
(* The owner.                                                              *)

\* rc_receiver_task_init up to xTaskCreate: an interrupt may find the task
\* initialized and without a handle.
InitQueue ==
  /\ ~task_initialized
  /\ task_initialized' = TRUE
  /\ task_handle' = FALSE
  /\ mailbox' = Nothing
  /\ UNCHANGED <<task_pc, task_wait, task_notified, latest_frame, uart_unread,
                 task_signalled>>

CreateTask ==
  /\ task_initialized /\ ~task_handle
  /\ task_handle' = TRUE
  /\ task_pc' = "wait" /\ task_wait' = 0 /\ task_notified' = 0
  /\ UNCHANGED <<task_initialized, mailbox, latest_frame, uart_unread,
                 task_signalled>>

Cleared ==
  /\ task_initialized' = FALSE
  /\ task_handle' = FALSE
  /\ mailbox' = Nothing
  /\ task_pc' = "none" /\ task_wait' = 0 /\ task_notified' = 0
  /\ task_signalled' = FALSE
  /\ UNCHANGED <<latest_frame, uart_unread>>

\* xTaskCreate fails: the queue is deleted again.
CreateFails == task_initialized /\ ~task_handle /\ Cleared

\* rc_receiver_task_deinit deletes the task wherever it is.
Deinit == task_initialized /\ task_handle /\ Cleared

-----------------------------------------------------------------------------
(* The UART interrupt: a frame is in the buffer, and                       *)
(* rc_receiver_task_notify_from_isr.                                       *)

FrameArrives ==
  /\ uart_unread' = TRUE
  /\ IF task_initialized /\ task_handle
       THEN /\ task_notified' = IF task_notified < MaxNotified
                                  THEN task_notified + 1 ELSE MaxNotified
            /\ task_signalled' = TRUE
       ELSE UNCHANGED <<task_notified, task_signalled>>
  /\ UNCHANGED <<task_initialized, task_handle, mailbox, task_pc, task_wait,
                 latest_frame>>

-----------------------------------------------------------------------------
(* rc_receiver_task_run_iteration.                                         *)

\* ulTaskNotifyTake returns and clears the counter, or the period is over.
Wake ==
  /\ task_pc = "wait"
  /\ task_notified > 0 \/ task_wait >= Period
  /\ task_notified' = 0
  /\ task_pc' = "process" /\ task_wait' = 0
  /\ UNCHANGED <<task_initialized, task_handle, mailbox, latest_frame,
                 uart_unread, task_signalled>>

NewFrame == [valid |-> TRUE, age |-> 0]

\* rc_receiver_service_process.
Process ==
  /\ task_pc = "process"
  /\ latest_frame' =
       {[f EXCEPT !.valid = @ /\ f.age <= FailsafeTimeout] :
          f \in IF uart_unread THEN {NewFrame} ELSE latest_frame}
  /\ uart_unread' = FALSE /\ task_signalled' = FALSE
  /\ task_pc' = "publish"
  /\ UNCHANGED <<task_initialized, task_handle, mailbox, task_wait,
                 task_notified>>

Published(frames) ==
  /\ task_pc = "publish"
  /\ mailbox' = IF frames = Nothing THEN mailbox ELSE frames
  /\ task_pc' = "wait"
  /\ UNCHANGED <<task_initialized, task_handle, task_wait, latest_frame,
                 uart_unread, task_signalled>>

\* Mutant: the counter is cleared when the iteration ends.
Publish_Clears == Published(latest_frame) /\ task_notified' = 0

\* Mutant: only a valid frame is published.
Publish_ValidOnly ==
  /\ Published({f \in latest_frame : f.valid})
  /\ UNCHANGED task_notified

\* rc_receiver_service_get_latest_frame, xQueueOverwrite.
Publish == Published(latest_frame) /\ UNCHANGED task_notified

TaskTick ==
  /\ task_pc # "none" =>
       task_pc = "wait" /\ task_notified = 0 /\ task_wait < Period
  /\ task_wait' = IF task_pc = "wait" THEN task_wait + 1 ELSE task_wait
  /\ latest_frame' = Older(latest_frame)
  /\ mailbox' = Older(mailbox)
  /\ UNCHANGED <<task_initialized, task_handle, task_pc, task_notified,
                 uart_unread, task_signalled>>

TaskInit ==
  /\ task_initialized = FALSE /\ task_handle = FALSE /\ mailbox = Nothing
  /\ task_pc = "none" /\ task_wait = 0 /\ task_notified = 0
  /\ latest_frame = Nothing
  /\ uart_unread = FALSE /\ task_signalled = FALSE

TaskNext ==
  \/ InitQueue \/ CreateTask \/ CreateFails \/ Deinit
  \/ FrameArrives
  \/ Wake \/ Process \/ Publish
  \/ TaskTick

TaskSpec == TaskInit /\ [][TaskNext]_taskVars

-----------------------------------------------------------------------------

TaskTypeOK ==
  /\ task_initialized \in BOOLEAN
  /\ task_handle \in BOOLEAN
  /\ mailbox \subseteq Frame
  /\ task_pc \in {"none", "wait", "process", "publish"}
  /\ task_wait \in 0..Period
  /\ task_notified \in 0..MaxNotified
  /\ latest_frame \subseteq Frame
  /\ uart_unread \in BOOLEAN
  /\ task_signalled \in BOOLEAN

\* A frame the task was told of is never left behind: until it is read, the
\* notification is still counted or the task is about to drain the UART.  An
\* interrupt that comes while the task is running is not lost.
SignalServed ==
  task_signalled => task_notified > 0 \/ task_pc = "process"

\* A consumer that peeks a valid frame peeks one not older than the failsafe
\* timeout and one period, though nothing is received and nobody notifies.
MailboxFresh ==
  \A f \in mailbox : f.valid => f.age <= FailsafeTimeout + Period

=============================================================================
