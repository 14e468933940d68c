----------------------------- MODULE TaskSystem -----------------------------
(***************************************************************************)
(* What the scheduler promises its tasks, without the task table, the      *)
(* round-robin scan, the registered waiters and the wrapping clock: at most *)
(* one task runs; it stops running only by its own call; a task that sleeps *)
(* or waits runs again only after its time or after its event was set; the *)
(* memory of a task is freed only after its end.  Scheduler implements it. *)
(***************************************************************************)
EXTENDS Integers

CONSTANTS Task, MainTask, KEvent, NoEvent, MayWait, MaxSleep

Event == Task \cup KEvent

VARIABLES
  status,   \* "none", "ready", "running", "asleep", "blocked", "ended"
  flag,     \* an event is set
  waits,    \* the event a task has called Wait on and not returned from
  left,     \* ticks a task has still to sleep
  stopped   \* the system has halted

vars == <<status, flag, waits, left, stopped>>

Init ==
  /\ status = [t \in Task |-> IF t = MainTask THEN "running" ELSE "none"]
  /\ flag = [e \in Event |-> FALSE]
  /\ waits = [t \in Task |-> NoEvent]
  /\ left = [t \in Task |-> 0]
  /\ stopped = FALSE

Idle == \A t \in Task : status[t] # "running"

\* The waiters of event e, which become ready when it is set.
Released(e, st) ==
  [t \in Task |-> IF st[t] = "blocked" /\ waits[t] = e THEN "ready" ELSE st[t]]

Start(t) ==
  /\ ~Idle /\ ~stopped /\ status[t] = "none"
  /\ status' = [status EXCEPT ![t] = "ready"]
  /\ flag' = [flag EXCEPT ![t] = FALSE]
  /\ UNCHANGED <<waits, left, stopped>>

Pause(t) ==
  /\ ~stopped /\ status[t] = "running"
  /\ status' = [status EXCEPT ![t] = "ready"]
  /\ UNCHANGED <<flag, waits, left, stopped>>

Sleep(t, n) ==
  /\ ~stopped /\ status[t] = "running"
  /\ status' = [status EXCEPT ![t] = "asleep"]
  /\ left' = [left EXCEPT ![t] = n]
  /\ UNCHANGED <<flag, waits, stopped>>

Wait(t, e) ==
  /\ ~stopped /\ status[t] = "running"
  /\ <<t, e>> \in MayWait /\ ~flag[e]
  /\ status' = [status EXCEPT ![t] = "blocked"]
  /\ waits' = [waits EXCEPT ![t] = e]
  /\ UNCHANGED <<flag, left, stopped>>

Signal(e) ==
  /\ ~stopped /\ e \in KEvent
  /\ flag' = [flag EXCEPT ![e] = TRUE]
  /\ status' = Released(e, status)
  /\ UNCHANGED <<waits, left, stopped>>

Reset(t, e) ==
  /\ ~stopped /\ status[t] = "running"
  /\ e \in KEvent /\ <<t, e>> \in MayWait
  /\ flag' = [flag EXCEPT ![e] = FALSE]
  /\ UNCHANGED <<status, waits, left, stopped>>

End(t) ==
  /\ ~stopped /\ status[t] = "running" /\ t # MainTask
  /\ flag' = [flag EXCEPT ![t] = TRUE]
  /\ status' = Released(t, [status EXCEPT ![t] = "ended"])
  /\ UNCHANGED <<waits, left, stopped>>

Run(t) ==
  /\ ~stopped /\ Idle
  /\ status[t] = "ready" \/ (status[t] = "asleep" /\ left[t] = 0)
  /\ waits[t] # NoEvent => flag[waits[t]]
  /\ status' = [status EXCEPT ![t] = "running"]
  /\ waits' = [waits EXCEPT ![t] = NoEvent]
  /\ UNCHANGED <<flag, left, stopped>>

Free(t) ==
  /\ ~stopped /\ Idle /\ status[t] = "ended"
  /\ status' = [status EXCEPT ![t] = "none"]
  /\ UNCHANGED <<flag, waits, left, stopped>>

Pass ==
  /\ ~stopped
  /\ left' = [t \in Task |-> IF left[t] > 0 THEN left[t] - 1 ELSE 0]
  /\ UNCHANGED <<status, flag, waits, stopped>>

\* Creating one task too many stops the system.
Panic(t) ==
  /\ ~stopped /\ ~Idle /\ status[t] = "none"
  /\ status' = [status EXCEPT ![t] = "ready"]
  /\ flag' = [flag EXCEPT ![t] = FALSE]
  /\ stopped' = TRUE
  /\ UNCHANGED <<waits, left>>

Next ==
  \/ \E t \in Task : \/ Start(t) \/ Pause(t) \/ End(t) \/ Run(t) \/ Free(t) \/ Panic(t)
                     \/ \E n \in 1 .. MaxSleep : Sleep(t, n)
                     \/ \E e \in Event : Wait(t, e) \/ Reset(t, e)
  \/ \E e \in Event : Signal(e)
  \/ Pass

Spec == Init /\ [][Next]_vars
=============================================================================
