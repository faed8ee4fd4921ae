-------------------------- MODULE PlatformTasksProofs --------------------------
(***************************************************************************)
(* Proofs about the platform task queue, for every set of tasks, every     *)
(* clock range and every clock resolution.                                 *)
(***************************************************************************)
EXTENDS PlatformTasks, SequenceTheorems, TLAPS

-----------------------------------------------------------------------------
(* What pushing, popping and joining lists do to their elements *)

\* Taking the first task off the private list removes exactly that task.
LEMMA PopElements ==
  ASSUME NEW S, NEW s \in Seq(S), s # <<>>
  PROVE  /\ Head(s) \in S /\ Tail(s) \in Seq(S)
         /\ ToSet(s) = {Head(s)} \cup ToSet(Tail(s))
         /\ IsInjective(s) => IsInjective(Tail(s)) /\ Head(s) \notin ToSet(Tail(s))
<1> DEFINE r == Tail(s)
<1>1. /\ r \in Seq(S) /\ Len(s) = Len(r) + 1 /\ Head(s) = s[1] /\ s[1] \in S
      /\ \A i \in 2 .. Len(s) : s[i] = r[i - 1]
      /\ \A i \in 1 .. Len(r) : r[i] = s[i + 1]
  OBVIOUS
<1>2. /\ Len(r) \in Nat /\ DOMAIN s = 1 .. Len(s) /\ DOMAIN r = 1 .. Len(r)
  BY <1>1, LenProperties
<1> HIDE DEF r
<1>3. ToSet(s) = {s[1]} \cup ToSet(r)
  <2>1. ASSUME NEW i \in 1 .. Len(s) PROVE s[i] = s[1] \/ s[i] \in ToSet(r)
    <3>1. CASE i = 1 BY <3>1
    <3>2. CASE i # 1
      <4>1. i - 1 \in 1 .. Len(r) /\ s[i] = r[i - 1]
        BY <3>2, <1>1, <1>2
      <4> QED BY <4>1, <1>2 DEF ToSet
    <3> QED BY <3>1, <3>2
  <2>2. ASSUME NEW i \in 1 .. Len(r) PROVE r[i] \in ToSet(s)
    <3>1. i + 1 \in 1 .. Len(s) /\ r[i] = s[i + 1]
      BY <1>1, <1>2
    <3> QED BY <3>1, <1>2 DEF ToSet
  <2>3. s[1] \in ToSet(s)
    <3>1. 1 \in 1 .. Len(s) BY <1>1, <1>2
    <3> QED BY <3>1, <1>2 DEF ToSet
  <2>4. ToSet(s) \subseteq {s[1]} \cup ToSet(r)
    BY <2>1, <1>2 DEF ToSet
  <2>5. ToSet(r) \subseteq ToSet(s)
    BY <2>2, <1>2 DEF ToSet
  <2> QED BY <2>3, <2>4, <2>5
<1>4. ASSUME IsInjective(s)
      PROVE  IsInjective(r) /\ s[1] \notin ToSet(r)
  <2>0. \A a, b \in 1 .. Len(s) : s[a] = s[b] => a = b
    BY <1>2, <1>4 DEF IsInjective
  <2>1. ASSUME NEW a \in 1 .. Len(r), NEW b \in 1 .. Len(r), r[a] = r[b]
        PROVE  a = b
    <3>1. /\ a + 1 \in 1 .. Len(s) /\ r[a] = s[a + 1]
          /\ b + 1 \in 1 .. Len(s) /\ r[b] = s[b + 1]
      BY <1>1, <1>2
    <3>2. a + 1 = b + 1 BY <3>1, <2>0, <2>1
    <3> QED BY <3>2
  <2>2. ASSUME NEW a \in 1 .. Len(r) PROVE r[a] # s[1]
    <3>1. a + 1 \in 1 .. Len(s) /\ 1 \in 1 .. Len(s) /\ r[a] = s[a + 1] /\ a + 1 # 1
      BY <1>1, <1>2
    <3> QED BY <3>1, <2>0
  <2>3. IsInjective(r) BY <2>1, <1>2 DEF IsInjective
  <2>4. s[1] \notin ToSet(r) BY <2>2, <1>2 DEF ToSet
  <2> QED BY <2>3, <2>4
<1> QED BY <1>1, <1>3, <1>4 DEF r

\* Putting the requeued tasks before those posted meanwhile keeps all of both.
LEMMA JoinElements ==
  ASSUME NEW S, NEW s \in Seq(S), NEW t \in Seq(S)
  PROVE  /\ s \o t \in Seq(S)
         /\ ToSet(s \o t) = ToSet(s) \cup ToSet(t)
         /\ IsInjective(s) /\ IsInjective(t) /\ ToSet(s) \cap ToSet(t) = {}
              => IsInjective(s \o t)
<1> DEFINE j == s \o t
<1>1. /\ j \in Seq(S) /\ Len(j) = Len(s) + Len(t)
      /\ \A i \in 1 .. Len(s) : j[i] = s[i]
      /\ \A i \in 1 .. Len(t) : j[i + Len(s)] = t[i]
      /\ \A i \in Len(s) + 1 .. Len(j) : j[i] = t[i - Len(s)]
  BY ConcatProperties
<1>2. /\ Len(s) \in Nat /\ Len(t) \in Nat
      /\ DOMAIN s = 1 .. Len(s) /\ DOMAIN t = 1 .. Len(t) /\ DOMAIN j = 1 .. Len(j)
  BY <1>1, LenProperties
<1> HIDE DEF j
<1>3. ToSet(j) = ToSet(s) \cup ToSet(t)
  <2>1. ASSUME NEW i \in 1 .. Len(j) PROVE j[i] \in ToSet(s) \cup ToSet(t)
    <3>1. CASE i <= Len(s) BY <3>1, <1>1, <1>2 DEF ToSet
    <3>2. CASE i > Len(s)
      <4>1. i - Len(s) \in 1 .. Len(t) /\ j[i] = t[i - Len(s)]
        BY <3>2, <1>1, <1>2
      <4> QED BY <4>1, <1>2 DEF ToSet
    <3> QED BY <3>1, <3>2, <1>2
  <2>2. ASSUME NEW i \in 1 .. Len(s) PROVE s[i] \in ToSet(j)
    BY <1>1, <1>2 DEF ToSet
  <2>3. ASSUME NEW i \in 1 .. Len(t) PROVE t[i] \in ToSet(j)
    <3>1. i + Len(s) \in 1 .. Len(j) /\ t[i] = j[i + Len(s)]
      BY <1>1, <1>2
    <3> QED BY <3>1, <1>2 DEF ToSet
  <2> QED BY <2>1, <2>2, <2>3, <1>2 DEF ToSet
<1>4. ASSUME IsInjective(s), IsInjective(t), ToSet(s) \cap ToSet(t) = {}
      PROVE  IsInjective(j)
  <2> SUFFICES ASSUME NEW a \in 1 .. Len(j), NEW b \in 1 .. Len(j), j[a] = j[b]
               PROVE  a = b
    BY <1>2 DEF IsInjective
  <2>1. ASSUME NEW i \in 1 .. Len(j)
        PROVE  \/ i \in 1 .. Len(s) /\ j[i] = s[i] /\ j[i] \in ToSet(s)
               \/ i - Len(s) \in 1 .. Len(t) /\ j[i] = t[i - Len(s)] /\ j[i] \in ToSet(t)
    <3>1. CASE i <= Len(s) BY <3>1, <1>1, <1>2 DEF ToSet
    <3>2. CASE i > Len(s)
      <4>1. i - Len(s) \in 1 .. Len(t) /\ j[i] = t[i - Len(s)]
        BY <3>2, <1>1, <1>2
      <4> QED BY <4>1, <1>2 DEF ToSet
    <3> QED BY <3>1, <3>2, <1>2
  <2>2. \/ a \in 1 .. Len(s) /\ b \in 1 .. Len(s) /\ s[a] = s[b]
        \/ a - Len(s) \in 1 .. Len(t) /\ b - Len(s) \in 1 .. Len(t)
             /\ t[a - Len(s)] = t[b - Len(s)]
    BY <2>1, <1>4
  <2> QED BY <2>2, <1>4, <1>2 DEF IsInjective
<1> QED BY <1>1, <1>3, <1>4 DEF j

\* Pushing a task that is not in the list (post_task, and the requeue branch
\* of a pass) adds exactly that task and repeats nothing.
LEMMA PushElements ==
  ASSUME NEW S, NEW s \in Seq(S), NEW x \in S
  PROVE  /\ <<x>> \o s \in Seq(S)
         /\ ToSet(<<x>> \o s) = {x} \cup ToSet(s)
         /\ IsInjective(s) /\ x \notin ToSet(s) => IsInjective(<<x>> \o s)
<1>1. <<x>> \in Seq(S) /\ DOMAIN <<x>> = {1} /\ <<x>>[1] = x
  OBVIOUS
<1>2. ToSet(<<x>>) = {x} /\ IsInjective(<<x>>)
  BY <1>1 DEF ToSet, IsInjective
<1>3. ToSet(<<x>> \o s) = ToSet(<<x>>) \cup ToSet(s) /\ <<x>> \o s \in Seq(S)
  BY <1>1, JoinElements
<1>4. IsInjective(<<x>>) /\ IsInjective(s) /\ ToSet(<<x>>) \cap ToSet(s) = {}
        => IsInjective(<<x>> \o s)
  BY <1>1, JoinElements
<1> QED BY <1>2, <1>3, <1>4


-----------------------------------------------------------------------------
(* The wakeup *)

\* Rounding to whole milliseconds and adding one puts the expiry strictly
\* after the target and at most one millisecond after it.
LEMMA ExpiryBracketsTarget ==
  ASSUME NEW first \in Nat, now \in Nat, first > now
  PROVE  /\ Expiry(first) \in Nat
         /\ first < Expiry(first)
         /\ Expiry(first) <= first + MsTicks
         /\ Expiry(first) # Off
<1> DEFINE d == first - now
           q == d \div MsTicks
<1>1. d \in Nat /\ MsTicks \in Nat /\ MsTicks > 0
  BY ConstantsAssumption
<1> HIDE DEF d
<1>2. q \in Int /\ MsTicks * q <= d /\ d < MsTicks * (q + 1)
  BY <1>1
<1> HIDE DEF q
<1>3. MsTicks * (q + 1) = MsTicks * q + MsTicks /\ (q + 1) * MsTicks = MsTicks * (q + 1)
  BY <1>1, <1>2
<1>4. Expiry(first) = now + (q + 1) * MsTicks
  BY DEF Expiry, q, d
<1>5. (q + 1) * MsTicks \in Int
  BY <1>1, <1>2
<1>6. d = first - now
  BY DEF d
<1> QED BY <1>1, <1>2, <1>3, <1>4, <1>5, <1>6 DEF Off

\* What schedule() leaves behind for a list q: the earliest task is covered
\* by the eventfd or by a timer that brackets it.
LEMMA ScheduleCovers ==
  ASSUME NEW q \in Seq(Tasks), NEW tgt, now \in Nat, notify \in BOOLEAN,
         timer \in Nat,
         \A t \in ToSet(q) : tgt[t] \in Targets,
         Schedule(q, tgt)
  PROVE  /\ notify' \in BOOLEAN /\ timer' \in Nat
         /\ q # <<>> => notify' \/ timer' # Off
         /\ q # <<>> /\ timer' # Off =>
              /\ \E t \in ToSet(q) : tgt[t] < timer'
              /\ \A t \in ToSet(q) : timer' <= tgt[t] + MsTicks
<1>1. PICK f \in Targets \cup {Never} :
         IsFirst(f, q, tgt) /\ (IF f # Uint16Max THEN SetWakeup(f)
                                ELSE UNCHANGED <<notify, timer>>)
  BY DEF Schedule
<1>2. f \in Nat /\ f # Uint16Max /\ SetWakeup(f)
  BY <1>1, ConstantsAssumption DEF Targets
<1>3. ASSUME q # <<>> PROVE f # Never /\ \E t \in ToSet(q) : tgt[t] = f
  <2>1. Head(q) \in ToSet(q)
    BY <1>3, PopElements
  <2>2. tgt[Head(q)] \in Nat /\ tgt[Head(q)] < Never /\ f <= tgt[Head(q)]
    BY <2>1, <1>1, ConstantsAssumption DEF Targets, IsFirst
  <2>3. f # Never
    BY <2>2, <1>2, ConstantsAssumption
  <2> QED BY <2>3, <1>1 DEF IsFirst
<1>4. \A t \in ToSet(q) : f <= tgt[t] /\ tgt[t] \in Nat
  BY <1>1, ConstantsAssumption DEF IsFirst, Targets
<1>5. CASE f <= now /\ notify' = TRUE /\ timer' = Off
  BY <1>5 DEF Off
<1>6. CASE f > now /\ f # Never /\ timer' = Expiry(f) /\ notify' = notify
  <2>1. timer' \in Nat /\ f < timer' /\ timer' <= f + MsTicks /\ timer' # Off
    BY <1>2, <1>6, ExpiryBracketsTarget
  <2>2. \A t \in ToSet(q) : timer' <= tgt[t] + MsTicks
    BY <2>1, <1>2, <1>4, ConstantsAssumption
  <2> QED BY <2>1, <2>2, <1>3, <1>6
<1>7. CASE f = Never /\ timer' \in {Off} \cup (now + 1) .. EndTime /\ notify' = notify
  BY <1>7, <1>3, ConstantsAssumption DEF Off
<1> QED BY <1>2, <1>5, <1>6, <1>7 DEF SetWakeup

-----------------------------------------------------------------------------
(* The inductive invariant *)

\* The private lists of a pass are empty between passes, posted tasks have
\* a target time, and a pass never works with a time from the future.
PassInv ==
  /\ ~MutexHeld => head = <<>> /\ requeued = <<>>
  /\ \A t \in posted : target[t] \in Targets
  /\ sampled <= now

IInv ==
  /\ TypeOK
  /\ PassInv
  /\ TasksConserved
  /\ WakeupArmed
  /\ TimerBracketsFirstTask

LEMMA EmptyList ==
  /\ ToSet(<<>>) = {} /\ IsInjective(<<>>)
  /\ \A S : <<>> \in Seq(S)
  BY DEF ToSet, IsInjective

\* The initial state satisfies the invariant: nothing is posted.
LEMMA InitIInv == Init => IInv
<1> SUFFICES ASSUME Init PROVE IInv OBVIOUS
<1> USE DEF Init
<1>1. TypeOK
  <2>1. now \in StartTime .. EndTime /\ timer \in Nat /\ sampled \in Nat
    BY ConstantsAssumption DEF Off
  <2>2. queue \in Seq(Tasks) /\ head \in Seq(Tasks) /\ requeued \in Seq(Tasks)
    BY EmptyList
  <2>3. target \in [Tasks -> Targets \cup {0}]
    OBVIOUS
  <2>4. notify \in BOOLEAN /\ pc \in PlatformStates
        /\ posted \in SUBSET Tasks /\ ran \in SUBSET Tasks
    BY DEF PlatformStates
  <2> QED BY <2>1, <2>2, <2>3, <2>4 DEF TypeOK
<1>2. PassInv
  BY ConstantsAssumption DEF PassInv, MutexHeld
<1>3. TasksConserved
  BY EmptyList DEF TasksConserved
<1>4. WakeupArmed /\ TimerBracketsFirstTask
  BY DEF WakeupArmed, TimerBracketsFirstTask
<1> QED BY <1>1, <1>2, <1>3, <1>4 DEF IInv

\* A post adds one task to the list and covers the list with a wakeup.
LEMMA PostIInv ==
  ASSUME IInv, NEW t \in Tasks, NEW time \in Targets, PostTask(t, time)
  PROVE  IInv'
<1> USE DEF IInv
<1>0. now \in Nat /\ sampled \in Nat
  BY ConstantsAssumption DEF TypeOK
<1>1. /\ queue' \in Seq(Tasks) /\ ToSet(queue') = {t} \cup ToSet(queue)
      /\ t \notin ToSet(queue) /\ IsInjective(queue')
  <2>1. t \notin posted /\ t \notin ToSet(queue) BY DEF PostTask, TasksConserved
  <2>2. queue \in Seq(Tasks) /\ IsInjective(queue) /\ queue' = <<t>> \o queue
    BY DEF TypeOK, PostTask, TasksConserved
  <2> QED BY <2>1, <2>2, PushElements
<1>2. target' \in [Tasks -> Targets \cup {0}] /\ posted' \in SUBSET Tasks
  BY DEF TypeOK, PostTask
<1>3. \A u \in posted' : target'[u] \in Targets
  BY DEF TypeOK, PassInv, PostTask
<1>4. TasksConserved'
  BY <1>1 DEF TasksConserved, PostTask, passVars
<1>5. \A u \in ToSet(queue') : target'[u] \in Targets
  BY <1>3, <1>4 DEF TasksConserved
<1>6. /\ notify' \in BOOLEAN /\ timer' \in Nat
      /\ queue' # <<>> => notify' \/ timer' # Off
      /\ queue' # <<>> /\ timer' # Off =>
           /\ \E u \in ToSet(queue') : target'[u] < timer'
           /\ \A u \in ToSet(queue') : timer' <= target'[u] + MsTicks
  BY <1>0, <1>1, <1>5, ScheduleCovers DEF TypeOK, PostTask
<1>7. TypeOK'
  BY <1>1, <1>2, <1>6 DEF TypeOK, PostTask, passVars
<1>8. PassInv'
  BY <1>3 DEF PassInv, PostTask, passVars, MutexHeld
<1>9. WakeupArmed' /\ TimerBracketsFirstTask'
  BY <1>6 DEF WakeupArmed, TimerBracketsFirstTask
<1> QED BY <1>4, <1>7, <1>8, <1>9

\* The steps of a pass move tasks between the lists and lose none.
LEMMA PassStepIInv ==
  ASSUME IInv,
         \/ NotifyReadable \/ TimerExpired \/ SampleTime \/ TakeQueue
         \/ RunTask \/ RunTaskReturns \/ Requeue \/ Tick
  PROVE  IInv'
<1> USE DEF IInv
<1>0. now \in Nat /\ sampled \in Nat
  BY ConstantsAssumption DEF TypeOK
<1>1. CASE NotifyReadable
  BY <1>1 DEF NotifyReadable, TypeOK, PassInv, TasksConserved, WakeupArmed,
              TimerBracketsFirstTask, MutexHeld, PlatformStates
<1>2. CASE TimerExpired
  BY <1>2 DEF TimerExpired, TypeOK, PassInv, TasksConserved, WakeupArmed,
              TimerBracketsFirstTask, MutexHeld, PlatformStates, Off
<1>3. CASE SampleTime
  BY <1>0, <1>3 DEF SampleTime, TypeOK, PassInv, TasksConserved, WakeupArmed,
              TimerBracketsFirstTask, MutexHeld, PlatformStates
<1>4. CASE TakeQueue
  <2>1. head = <<>> /\ requeued = <<>> BY <1>4 DEF TakeQueue, PassInv, MutexHeld
  <2>2. TasksConserved'
    BY <2>1, <1>4, EmptyList DEF TakeQueue, TasksConserved
  <2>3. TypeOK'
    BY <1>4, EmptyList DEF TakeQueue, TypeOK, PlatformStates
  <2> QED BY <2>2, <2>3, <1>4 DEF TakeQueue, PassInv, WakeupArmed,
              TimerBracketsFirstTask, MutexHeld
<1>5. CASE RunTask
  <2>1. /\ Head(head) \in Tasks /\ Tail(head) \in Seq(Tasks)
        /\ ToSet(head) = {Head(head)} \cup ToSet(Tail(head))
        /\ IsInjective(Tail(head)) /\ Head(head) \notin ToSet(Tail(head))
    BY <1>5, PopElements DEF RunTask, TypeOK, TasksConserved
  <2>2. TasksConserved'
    BY <2>1, <1>5 DEF RunTask, TasksConserved
  <2>3. TypeOK'
    BY <2>1, <1>5 DEF RunTask, TypeOK, PlatformStates
  <2> QED BY <2>2, <2>3, <1>5 DEF RunTask, PassInv, WakeupArmed,
              TimerBracketsFirstTask, MutexHeld
<1>6. CASE RunTaskReturns
  BY <1>6 DEF RunTaskReturns, TypeOK, PassInv, TasksConserved, WakeupArmed,
              TimerBracketsFirstTask, MutexHeld, PlatformStates
<1>7. CASE Requeue
  <2>1. /\ Head(head) \in Tasks /\ Tail(head) \in Seq(Tasks)
        /\ ToSet(head) = {Head(head)} \cup ToSet(Tail(head))
        /\ IsInjective(Tail(head)) /\ Head(head) \notin ToSet(Tail(head))
    BY <1>7, PopElements DEF Requeue, TypeOK, TasksConserved
  <2>2. Head(head) \notin ToSet(requeued) /\ requeued \in Seq(Tasks)
        /\ IsInjective(requeued)
    BY <2>1 DEF TasksConserved, TypeOK
  <2>3. /\ requeued' \in Seq(Tasks) /\ IsInjective(requeued')
        /\ ToSet(requeued') = {Head(head)} \cup ToSet(requeued)
    BY <2>1, <2>2, <1>7, PushElements DEF Requeue
  <2>4. TasksConserved'
    BY <2>1, <2>3, <1>7 DEF Requeue, TasksConserved
  <2>5. TypeOK'
    BY <2>1, <2>3, <1>7 DEF Requeue, TypeOK
  <2> QED BY <2>4, <2>5, <1>7 DEF Requeue, PassInv, WakeupArmed,
              TimerBracketsFirstTask, MutexHeld
<1>8. CASE Tick
  <2>1. now' \in StartTime .. EndTime /\ sampled' <= now'
    BY <1>0, <1>8, ConstantsAssumption DEF Tick, TypeOK, PassInv, passVars
  <2> QED BY <2>1, <1>8 DEF Tick, passVars, TypeOK, PassInv, TasksConserved,
              WakeupArmed, TimerBracketsFirstTask, MutexHeld
<1> QED BY <1>1, <1>2, <1>3, <1>4, <1>5, <1>6, <1>7, <1>8

\* The end of a pass joins the lists and covers the result with a wakeup.
LEMMA FinishPassIInv ==
  ASSUME IInv, FinishPass
  PROVE  IInv'
<1> USE DEF IInv
<1>0. now \in Nat /\ sampled \in Nat
  BY ConstantsAssumption DEF TypeOK
<1>1. /\ queue' \in Seq(Tasks)
      /\ ToSet(queue') = ToSet(requeued) \cup ToSet(queue)
      /\ IsInjective(queue')
  BY JoinElements DEF FinishPass, TypeOK, TasksConserved
<1>2. TasksConserved'
  BY <1>1, EmptyList DEF FinishPass, TasksConserved
<1>3. \A u \in ToSet(queue') : target[u] \in Targets
  BY <1>1 DEF TasksConserved, PassInv
<1>4. /\ notify' \in BOOLEAN /\ timer' \in Nat
      /\ queue' # <<>> => notify' \/ timer' # Off
      /\ queue' # <<>> /\ timer' # Off =>
           /\ \E u \in ToSet(queue') : target[u] < timer'
           /\ \A u \in ToSet(queue') : timer' <= target[u] + MsTicks
  BY <1>0, <1>1, <1>3, ScheduleCovers DEF TypeOK, FinishPass
<1>5. TypeOK'
  BY <1>1, <1>4, EmptyList DEF TypeOK, FinishPass, PlatformStates
<1>6. PassInv'
  BY DEF PassInv, FinishPass, MutexHeld
<1>7. WakeupArmed' /\ TimerBracketsFirstTask'
  BY <1>4 DEF WakeupArmed, TimerBracketsFirstTask, FinishPass
<1> QED BY <1>2, <1>5, <1>6, <1>7

\* Every step of the queue preserves the invariant.
LEMMA NextIInv == IInv /\ [Next]_vars => IInv'
<1> SUFFICES ASSUME IInv, [Next]_vars PROVE IInv' OBVIOUS
<1>1. ASSUME NEW t \in Tasks, NEW time \in Targets, PostTask(t, time)
      PROVE  IInv'
  BY <1>1, PostIInv
<1>2. CASE \/ NotifyReadable \/ TimerExpired \/ SampleTime \/ TakeQueue
           \/ RunTask \/ RunTaskReturns \/ Requeue \/ Tick
  BY <1>2, PassStepIInv
<1>3. CASE FinishPass
  BY <1>3, FinishPassIInv
<1>4. CASE UNCHANGED vars
  BY <1>4 DEF vars, IInv, TypeOK, PassInv, TasksConserved, WakeupArmed,
              TimerBracketsFirstTask, MutexHeld
<1> QED BY <1>1, <1>2, <1>3, <1>4 DEF Next

\* The invariant holds in every reachable state of the task queue.
THEOREM InvariantHolds == Spec => []IInv
<1> QED BY InitIInv, NextIInv, PTL DEF Spec

\* The queue's state is well formed: lists of tasks, target times from the
\* range the engine posts, one of the five places of the platform thread.
THEOREM TypeCorrect == Spec => []TypeOK
<1>1. IInv => TypeOK BY DEF IInv
<1> QED BY <1>1, InvariantHolds, PTL

\* The list surgery of task.c loses and duplicates no task, whatever is posted
\* from other threads or from inside RunTask.
THEOREM NoTaskLostOrDuplicated == Spec => []TasksConserved
<1>1. IInv => TasksConserved BY DEF IInv
<1> QED BY <1>1, InvariantHolds, PTL

\* A queued task is never left without a pending wakeup of the event loop.
THEOREM NoLostWakeup == Spec => []WakeupArmed
<1>1. IInv => WakeupArmed BY DEF IInv
<1> QED BY <1>1, InvariantHolds, PTL

\* An armed timer brackets the earliest target: strictly after it, by at most
\* one millisecond, for every clock resolution.
THEOREM TimerPrecision == Spec => []TimerBracketsFirstTask
<1>1. IInv => TimerBracketsFirstTask BY DEF IInv
<1> QED BY <1>1, InvariantHolds, PTL

-----------------------------------------------------------------------------
(* Refinement *)

\* Every step of the queue is a step of the abstract task runner or changes
\* nothing the engine can see.
LEMMA StepSimulation == IInv /\ [Next]_vars => [Runner!Next]_(Runner!vars)
<1> SUFFICES ASSUME IInv, [Next]_vars PROVE [Runner!Next]_(Runner!vars)
  OBVIOUS
<1> USE DEF Runner!vars, Runner!Next
<1>0. ran \subseteq posted /\ now \in Nat /\ sampled \in Nat /\ sampled <= now
  BY ConstantsAssumption DEF IInv, TypeOK, TasksConserved, PassInv
<1>1. ASSUME NEW t \in Tasks, NEW time \in Targets, PostTask(t, time)
      PROVE  Runner!Next
  <2>1. Runner!Post(t, time)
    BY <1>0, <1>1 DEF PostTask, passVars, Runner!Post
  <2> QED BY <2>1 DEF Targets
<1>2. CASE RunTask
  <2>1. /\ Head(head) \in Tasks /\ Head(head) \in posted /\ Head(head) \notin ran
    BY <1>2, PopElements DEF RunTask, IInv, TypeOK, TasksConserved
  <2>2. target[Head(head)] \in Nat /\ target[Head(head)] < now
    BY <2>1, <1>0, <1>2, ConstantsAssumption
       DEF RunTask, IsDue, IInv, PassInv, Targets
  <2>3. Runner!Run(Head(head))
    BY <2>1, <2>2, <1>2 DEF RunTask, Runner!Run
  <2> QED BY <2>1, <2>3
<1>3. CASE Tick
  <2>1. Runner!Tick BY <1>3 DEF Tick, passVars, Runner!Tick
  <2> QED BY <2>1
<1>4. CASE \/ NotifyReadable \/ TimerExpired \/ SampleTime \/ TakeQueue
           \/ RunTaskReturns \/ Requeue \/ FinishPass
  BY <1>4 DEF NotifyReadable, TimerExpired, SampleTime, TakeQueue,
              RunTaskReturns, Requeue, FinishPass
<1>5. CASE UNCHANGED vars
  BY <1>5 DEF vars
<1> QED BY <1>1, <1>2, <1>3, <1>4, <1>5 DEF Next

\* The platform task queue implements the task runner the engine expects.
THEOREM ImplementsTaskRunner == Spec => RefinesTaskRunner
<1>1. Init => Runner!Init
  BY DEF Init, Runner!Init
<1> QED BY <1>1, StepSimulation, InvariantHolds, PTL
        DEF Spec, RefinesTaskRunner, Runner!Spec
=============================================================================
