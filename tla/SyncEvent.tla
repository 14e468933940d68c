------------------------------ MODULE SyncEvent ------------------------------
(***************************************************************************)
(* CSynchronizationEvent against interrupt handlers.  Scheduler treats a   *)
(* call of Wait as one step.  Here Wait and BlockTask are taken apart into *)
(* the accesses to m_bState, m_pWaitTask and m_State that an interrupt can *)
(* fall between: neither masks interrupts, and Set "can be called from     *)
(* interrupt context" (synchronizationevent.h).                            *)
(*                                                                         *)
(* Each task owns one event: it alone clears it and waits for it, as the   *)
(* main task does with CKernel::m_Event.  An interrupt handler runs to its *)
(* end before the interrupted task goes on.                                *)
(***************************************************************************)
CONSTANTS
  Task,      \* the tasks; the event of task t is written t
  NoTask

Place == {"run",      \* outside Wait
          "check",    \* Wait has seen m_bState = FALSE
          "store",    \* Wait has seen m_pWaitTask = 0; BlockTask is entered
          "mark",     \* m_pWaitTask is stored, m_State is still Ready
          "yield",    \* suspended in Yield
          "resume"}   \* back from BlockTask

VARIABLES
  pc,        \* the place of each task
  cpu,       \* the task that has the CPU; NoTask while Yield finds none ready
  state,     \* CTask::m_State
  bState,    \* CSynchronizationEvent::m_bState
  waitTask,  \* CSynchronizationEvent::m_pWaitTask
  failed     \* an assertion failed and halt () has stopped the system

vars == <<pc, cpu, state, bState, waitTask, failed>>

TypeOK ==
  /\ pc \in [Task -> Place]
  /\ cpu \in Task \cup {NoTask}
  /\ state \in [Task -> {"Ready", "Blocked"}]
  /\ bState \in [Task -> BOOLEAN]
  /\ waitTask \in [Task -> Task \cup {NoTask}]
  /\ failed \in BOOLEAN

Init ==
  /\ pc = [t \in Task |-> "run"]
  /\ cpu \in Task
  /\ state = [t \in Task |-> "Ready"]
  /\ bState = [t \in Task |-> FALSE]
  /\ waitTask = [t \in Task |-> NoTask]
  /\ failed = FALSE

At(t, place) == ~failed /\ cpu = t /\ pc[t] = place
Goto(t, place) == pc' = [pc EXCEPT ![t] = place]

Clear(t) ==
  /\ At(t, "run")
  /\ bState' = [bState EXCEPT ![t] = FALSE]
  /\ UNCHANGED <<pc, cpu, state, waitTask, failed>>

BugTestSkipped(t) ==
  At(t, "run") /\ Goto(t, "check") /\ UNCHANGED <<cpu, state, bState, waitTask, failed>>

\* Wait: if (!m_bState); on a set event it returns.
Test(t) ==
  /\ At(t, "run")
  /\ ~bState[t]
  /\ Goto(t, "check")
  /\ UNCHANGED <<cpu, state, bState, waitTask, failed>>

\* Wait: assert (m_pWaitTask == 0).
Check(t) ==
  /\ At(t, "check")
  /\ Goto(t, "store")
  /\ failed' = (waitTask[t] # NoTask)
  /\ UNCHANGED <<cpu, state, bState, waitTask>>

\* BlockTask: *ppTask = m_pCurrent.
Store(t) ==
  /\ At(t, "store")
  /\ Goto(t, "mark")
  /\ waitTask' = [waitTask EXCEPT ![t] = t]
  /\ UNCHANGED <<cpu, state, bState, failed>>

\* BlockTask: SetState (TaskStateBlocked) and Yield.
Mark(t) ==
  /\ At(t, "mark")
  /\ Goto(t, "yield")
  /\ state' = [state EXCEPT ![t] = "Blocked"]
  /\ cpu' = NoTask
  /\ UNCHANGED <<bState, waitTask, failed>>

\* A task calls Yield outside Wait.
Pause(t) ==
  /\ At(t, "run")
  /\ cpu' = NoTask
  /\ UNCHANGED <<pc, state, bState, waitTask, failed>>

\* The loop of Yield finds a ready task.  Module Scheduler says which.
Dispatch(t) ==
  /\ ~failed
  /\ cpu = NoTask
  /\ state[t] = "Ready"
  /\ cpu' = t
  /\ pc' = IF pc[t] = "yield" THEN [pc EXCEPT ![t] = "resume"] ELSE pc
  /\ UNCHANGED <<state, bState, waitTask, failed>>

\* Wait, after BlockTask: assert (m_bState).
Return(t) ==
  /\ At(t, "resume")
  /\ Goto(t, "run")
  /\ failed' = ~bState[t]
  /\ UNCHANGED <<cpu, state, bState, waitTask>>

BugWakeKeepsWaiter(t) ==
  state' = [state EXCEPT ![waitTask[t]] = "Ready"] /\ UNCHANGED <<waitTask, failed>>
BugWakeForgets(t) ==
  waitTask' = [waitTask EXCEPT ![t] = NoTask] /\ UNCHANGED <<state, failed>>

\* WakeTask asserts that the task it wakes is blocked.
Wake(t) ==
  /\ waitTask' = [waitTask EXCEPT ![t] = NoTask]
  /\ IF state[waitTask[t]] = "Blocked"
     THEN state' = [state EXCEPT ![waitTask[t]] = "Ready"] /\ UNCHANGED failed
     ELSE failed' = TRUE /\ UNCHANGED state

\* An interrupt handler calls Set on the event of t, wherever t is.
IrqSet(t) ==
  /\ ~failed
  /\ ~bState[t]
  /\ bState' = [bState EXCEPT ![t] = TRUE]
  /\ \/ waitTask[t] # NoTask /\ Wake(t)
     \/ waitTask[t] = NoTask /\ UNCHANGED <<waitTask, state, failed>>
  /\ UNCHANGED <<pc, cpu>>

\* The loop of Yield scans on while every task is blocked.
Idle == ~failed /\ cpu = NoTask /\ UNCHANGED vars

TaskStep(t) == Test(t) \/ Check(t) \/ Store(t) \/ Mark(t) \/ Return(t)

Next == \/ \E t \in Task : TaskStep(t) \/ Clear(t) \/ Pause(t) \/ Dispatch(t) \/ IrqSet(t)
        \/ Idle

\* A task computes until it gives up the CPU; the round robin of Scheduler
\* lets every ready task run; nothing makes the interrupt occur.
Fairness == \A t \in Task : /\ WF_vars(TaskStep(t) \/ Pause(t))
                            /\ SF_vars(Dispatch(t))

Spec == Init /\ [][Next]_vars
FairSpec == Spec /\ Fairness

-----------------------------------------------------------------------------
(* Properties.                                                              *)

\* Nobody is left to wake t: its event is set, so that Set does nothing any
\* more, and t is blocked or on its way to block.
Lost(t) ==
  /\ bState[t]
  /\ pc[t] \in {"check", "store", "mark"} \/ (pc[t] = "yield" /\ state[t] = "Blocked")

\* The registered waiter of an event is the blocked task that owns it, or is
\* just about to block: WakeTask never gets another one.  An interrupt at any
\* place leaves this so.
WaiterExact ==
  ~failed => \A t \in Task :
    /\ waitTask[t] \in {t, NoTask}
    /\ waitTask[t] = t <=> pc[t] = "mark" \/ (pc[t] = "yield" /\ state[t] = "Blocked")
    /\ state[t] = "Blocked" => pc[t] = "yield" /\ cpu # t

\* The only causes of a lost wake-up and of a failed assertion: a Set from an
\* interrupt between Wait's test of m_bState and the store of m_pWaitTask, and
\* one between that store and the marking as blocked.  Whatever else tasks and
\* interrupts do, a wake-up arrives and the assertions of Wait and WakeTask
\* hold.
LostOnlyInWindow ==
  [][/\ \A t \in Task : ~Lost(t) /\ Lost(t)' /\ ~failed' => pc[t] \in {"check", "store"} /\ IrqSet(t)
     /\ ~failed /\ failed' => \E t \in Task : pc[t] = "mark" /\ IrqSet(t)]_vars

\* A task is made waiting for an event and resumes when the event is set.
SetReturns == \A t \in Task : (pc[t] # "run" /\ bState[t]) ~> (pc[t] = "run" \/ failed)
=============================================================================
