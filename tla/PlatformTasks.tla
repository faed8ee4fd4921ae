---------------------------- MODULE PlatformTasks ----------------------------
(***************************************************************************)
(* The platform task queue of src/src/task.c: the task runner the          *)
(* compositor hands to the Flutter engine.  Engine threads post tasks with *)
(* a target time; the platform thread, woken by an eventfd or by a timer   *)
(* of the Wayland event loop, takes the whole list, runs what is due with  *)
(* the (recursive) list mutex held, puts the rest back and arms the next   *)
(* wakeup.                                                                 *)
(*                                                                         *)
(* post_task holds the mutex from its first to its last access of the      *)
(* shared state, so it is one step; the pass of the platform thread is     *)
(* split where another thread, the clock, or a task that posts again from  *)
(* inside RunTask can come between.                                        *)
(***************************************************************************)
EXTENDS Integers, Sequences, SequencesExt

CONSTANTS
  Tasks,       \* the FlutterTask values the engine posts, each once
  MsTicks,     \* clock ticks per millisecond: 1000000 ns in the code
  StartTime,   \* the clock when the engine starts
  EndTime,     \* bound: the clock of the model stops here
  MaxTarget,   \* bound: the latest target time posted
  Uint16Max,   \* the constant schedule() compares with (UINT16_MAX)
  Never        \* UINT64_MAX, the minimum over an empty list

ASSUME ConstantsAssumption ==
  /\ MsTicks \in Nat \ {0}
  /\ StartTime \in Nat /\ EndTime \in Nat /\ MaxTarget \in Nat
  /\ Uint16Max \in Nat /\ Never \in Nat
  \* The clock counts nanoseconds since boot: it is past 65535 ns long
  \* before the engine exists, and never gets near 2^64.
  /\ Uint16Max < StartTime
  /\ StartTime <= MaxTarget /\ StartTime <= EndTime
  /\ EndTime < Never /\ MaxTarget < Never

VARIABLES
  now,        \* GetCurrentTime()
  target,     \* target[t]: target_time of t
  posted,     \* the tasks posted so far
  queue,      \* queued_platform_tasks, head first
  notify,     \* platform_notify_fd is readable
  timer,      \* expiry of platform_timer_event_source, or Off
  pc,         \* where the platform thread is
  sampled,    \* current_time_nanos of the pass
  head,       \* the pass's private list: tasks still to be looked at
  requeued,   \* the pass's private list new_head
  ran         \* tasks handed to RunTask

passVars == <<pc, sampled, head, requeued, ran>>
vars == <<now, target, posted, queue, notify, timer, pc, sampled, head,
          requeued, ran>>

Off == 0

PlatformStates == {"idle", "sample", "lock", "drain", "run"}

Targets == StartTime .. MaxTarget

\* platform_task_list_mutex is held by the platform thread.
MutexHeld == pc \in {"drain", "run"}

TypeOK ==
  /\ now \in StartTime .. EndTime
  /\ target \in [Tasks -> Targets \cup {0}]
  /\ posted \in SUBSET Tasks
  /\ queue \in Seq(Tasks) /\ head \in Seq(Tasks) /\ requeued \in Seq(Tasks)
  /\ notify \in BOOLEAN
  /\ timer \in Nat
  /\ pc \in PlatformStates
  /\ sampled \in Nat
  /\ ran \in SUBSET Tasks

Init ==
  /\ now = StartTime
  /\ target = [t \in Tasks |-> 0]
  /\ posted = {}
  /\ queue = <<>>
  /\ notify = FALSE
  /\ timer = Off
  /\ pc = "idle"
  /\ sampled = 0
  /\ head = <<>>
  /\ requeued = <<>>
  /\ ran = {}

-----------------------------------------------------------------------------
(* engine_platform_task_queue_schedule *)

\* f is the earliest target time of list q, Never when q is empty.
IsFirst(f, q, tgt) ==
  /\ f \in {tgt[t] : t \in ToSet(q)} \cup {Never}
  /\ \A t \in ToSet(q) : f <= tgt[t]

\* Mutant: the delay is rounded down.
ExpiryRoundedDown(first) == now + ((first - now) \div MsTicks) * MsTicks

\* The expiry of a timer armed for diff_ms + 1 milliseconds from now.
Expiry(first) == now + ((first - now) \div MsTicks + 1) * MsTicks

\* Mutant: the delay of an empty list reaches the timer as a negative number.
SetWakeupNegative(first) ==
  \/ /\ first <= now
     /\ notify' = TRUE
     /\ timer' = Off
  \/ /\ first > now
     /\ timer' = IF first = Never THEN now - first ELSE Expiry(first)
     /\ UNCHANGED notify

\* An empty list is not recognised (the test is against UINT16_MAX): the
\* delay is then Never - now narrowed to an int, which disarms the timer or
\* arms it for some unrelated moment.
SetWakeup(first) ==
  \/ /\ first <= now
     /\ notify' = TRUE
     /\ timer' = Off
  \/ /\ first > now /\ first # Never
     /\ timer' = Expiry(first)
     /\ UNCHANGED notify
  \/ /\ first = Never
     /\ timer' \in {Off} \cup (now + 1) .. EndTime
     /\ UNCHANGED notify

Schedule(q, tgt) ==
  \E f \in Targets \cup {Never} :
    /\ IsFirst(f, q, tgt)
    /\ IF f # Uint16Max THEN SetWakeup(f) ELSE UNCHANGED <<notify, timer>>

-----------------------------------------------------------------------------
(* engine_cb_platform_post_task *)

\* Push on the head of the list, then schedule.  A thread other than the
\* platform thread waits for the mutex; a task that RunTask is executing on
\* the platform thread takes it a second time.
PostTask(t, time) ==
  /\ pc # "drain"
  /\ t \notin posted
  /\ posted' = posted \cup {t}
  /\ target' = [target EXCEPT ![t] = time]
  /\ queue' = <<t>> \o queue
  /\ Schedule(queue', target')
  /\ UNCHANGED <<now, passVars>>

-----------------------------------------------------------------------------
(* The platform thread *)

\* engine_renderer_task_queue_notifyfd: reset the eventfd.
NotifyReadable ==
  /\ pc = "idle"
  /\ notify
  /\ notify' = FALSE
  /\ pc' = "sample"
  /\ UNCHANGED <<now, target, posted, queue, timer, sampled, head, requeued,
                 ran>>

\* engine_platform_task_queue_timer: the timer is one-shot.
TimerExpired ==
  /\ pc = "idle"
  /\ timer # Off
  /\ timer <= now
  /\ timer' = Off
  /\ pc' = "sample"
  /\ UNCHANGED <<now, target, posted, queue, notify, sampled, head, requeued,
                 ran>>

\* engine_platform_task_queue_process reads the clock before it locks.
SampleTime ==
  /\ pc = "sample"
  /\ sampled' = now
  /\ pc' = "lock"
  /\ UNCHANGED <<now, target, posted, queue, notify, timer, head, requeued,
                 ran>>

TakeQueue ==
  /\ pc = "lock"
  /\ head' = queue
  /\ queue' = <<>>
  /\ requeued' = <<>>
  /\ pc' = "drain"
  /\ UNCHANGED <<now, target, posted, notify, timer, sampled, ran>>

\* Mutant: the comparison schedule() makes.
IsDueNonStrict(t) == sampled >= target[t]

IsDue(t) == sampled > target[t]

\* RunTask; a failure is logged and the task is freed all the same.
RunTask ==
  /\ pc = "drain"
  /\ head # <<>>
  /\ IsDue(Head(head))
  /\ ran' = ran \cup {Head(head)}
  /\ head' = Tail(head)
  /\ pc' = "run"
  /\ UNCHANGED <<now, target, posted, queue, notify, timer, sampled, requeued>>

RunTaskReturns ==
  /\ pc = "run"
  /\ pc' = "drain"
  /\ UNCHANGED <<now, target, posted, queue, notify, timer, sampled, head,
                 requeued, ran>>

Requeue ==
  /\ pc = "drain"
  /\ head # <<>>
  /\ ~IsDue(Head(head))
  /\ requeued' = <<Head(head)>> \o requeued
  /\ head' = Tail(head)
  /\ UNCHANGED <<now, target, posted, queue, notify, timer, pc, sampled, ran>>

\* Mutant: the list is overwritten, as if nothing could be posted meanwhile.
FinishPassOverwrites ==
  /\ pc = "drain"
  /\ head = <<>>
  /\ queue' = requeued
  /\ requeued' = <<>>
  /\ Schedule(queue', target)
  /\ pc' = "idle"
  /\ UNCHANGED <<now, target, posted, sampled, head, ran>>

\* Mutant: the pass ends without scheduling what it put back.
FinishPassUnscheduled ==
  /\ pc = "drain"
  /\ head = <<>>
  /\ queue' = requeued \o queue
  /\ requeued' = <<>>
  /\ pc' = "idle"
  /\ UNCHANGED <<now, target, posted, notify, timer, sampled, head, ran>>

\* Put the requeued tasks before those posted meanwhile, schedule, unlock.
FinishPass ==
  /\ pc = "drain"
  /\ head = <<>>
  /\ queue' = requeued \o queue
  /\ requeued' = <<>>
  /\ Schedule(queue', target)
  /\ pc' = "idle"
  /\ UNCHANGED <<now, target, posted, sampled, head, ran>>

Tick ==
  /\ now < EndTime
  /\ now' = now + 1
  /\ UNCHANGED <<target, posted, queue, notify, timer, passVars>>

Next ==
  \/ \E t \in Tasks, time \in Targets : PostTask(t, time)
  \/ NotifyReadable
  \/ TimerExpired
  \/ SampleTime
  \/ TakeQueue
  \/ RunTask
  \/ RunTaskReturns
  \/ Requeue
  \/ FinishPass
  \/ Tick

Spec == Init /\ [][Next]_vars

\* The event loop dispatches a ready source, a started pass goes on, a task
\* returns, and time passes.  Nothing obliges anybody to post.
Fairness ==
  /\ WF_vars(NotifyReadable)
  /\ WF_vars(TimerExpired)
  /\ WF_vars(SampleTime)
  /\ WF_vars(TakeQueue)
  /\ WF_vars(RunTask)
  /\ WF_vars(RunTaskReturns)
  /\ WF_vars(Requeue)
  /\ WF_vars(FinishPass)
  /\ WF_vars(Tick)

FairSpec == Spec /\ Fairness

-----------------------------------------------------------------------------
(* Properties *)

\* No task is lost or duplicated by the list surgery of a pass: every posted
\* task is in exactly one place - the shared list, the two private lists of
\* the pass (tasks posted from inside RunTask while the rest waits there
\* included) or handed to RunTask - and at most once in that list.
TasksConserved ==
  /\ posted = ToSet(queue) \cup ToSet(head) \cup ToSet(requeued) \cup ran
  /\ ToSet(queue) \cap ToSet(head) = {}
  /\ ToSet(queue) \cap ToSet(requeued) = {}
  /\ ToSet(head) \cap ToSet(requeued) = {}
  /\ ran \cap (ToSet(queue) \cup ToSet(head) \cup ToSet(requeued)) = {}
  /\ IsInjective(queue) /\ IsInjective(head) /\ IsInjective(requeued)

\* No lost wakeup: whenever the list is not empty and nobody holds the mutex,
\* the platform thread is on its way to process it, the eventfd is readable,
\* or the timer is armed - although posts, the eventfd reset and the clock
\* sample of a pass interleave freely.
WakeupArmed ==
  ~MutexHeld /\ queue # <<>> => notify \/ timer # Off \/ pc \in {"sample", "lock"}

\* An armed timer belongs to the earliest task: it expires strictly after
\* that task's target, so the pass it starts finds the task due (the pass
\* compares with >, the timer counts whole milliseconds), and at most one
\* millisecond late.
TimerBracketsFirstTask ==
  ~MutexHeld /\ queue # <<>> /\ timer # Off =>
    /\ \E t \in ToSet(queue) : target[t] < timer
    /\ \A t \in ToSet(queue) : timer <= target[t] + MsTicks

\* Seen from the engine the queue is a task runner: each task runs at most
\* once and never before its target time, by the clock at the moment it runs.
Runner == INSTANCE TaskRunner WITH pending <- posted \ ran
RefinesTaskRunner == Runner!Spec

\* Every posted task is eventually run, whatever is posted around it.
EveryTaskRuns == \A t \in Tasks : t \in posted ~> t \in ran
=============================================================================
