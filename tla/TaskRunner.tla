----------------------------- MODULE TaskRunner -----------------------------
(***************************************************************************)
(* What the Flutter engine may expect of an embedder's platform task       *)
(* runner: a task is posted once with a target time, is run at most once,  *)
(* only after its target time has passed, and is eventually run.  Nothing  *)
(* is said of the order in which due tasks run.                            *)
(***************************************************************************)
EXTENDS Naturals

CONSTANTS Tasks, StartTime, EndTime, MaxTarget

VARIABLES
  now,      \* the engine clock (FlutterEngineGetCurrentTime)
  target,   \* target[t]: the target time t was posted with
  pending,  \* posted and not yet run
  ran       \* handed to FlutterEngineRunTask

vars == <<now, target, pending, ran>>

Init ==
  /\ now = StartTime
  /\ target = [t \in Tasks |-> 0]
  /\ pending = {}
  /\ ran = {}

Tick ==
  /\ now < EndTime
  /\ now' = now + 1
  /\ UNCHANGED <<target, pending, ran>>

Post(t, time) ==
  /\ t \notin pending \cup ran
  /\ target' = [target EXCEPT ![t] = time]
  /\ pending' = pending \cup {t}
  /\ UNCHANGED <<now, ran>>

Run(t) ==
  /\ t \in pending
  /\ target[t] < now
  /\ pending' = pending \ {t}
  /\ ran' = ran \cup {t}
  /\ UNCHANGED <<now, target>>

Next ==
  \/ Tick
  \/ \E t \in Tasks, time \in StartTime .. MaxTarget : Post(t, time)
  \/ \E t \in Tasks : Run(t)

Spec == Init /\ [][Next]_vars
=============================================================================
