------------------------------ MODULE Scheduler ------------------------------
(***************************************************************************)
(* The cooperative scheduler of PegasOS: CScheduler (the task table and    *)
(* its round-robin scan), CTask (life cycle of a task) and                 *)
(* CSynchronizationEvent (one waiter per event).                           *)
(*                                                                         *)
(* Grain.  A task keeps the CPU until it calls the scheduler, so one       *)
(* action is one call made by the running task (cpu = "task") or one pass  *)
(* of GetNextTask inside the loop of Yield (cpu = "scan").  Interrupt      *)
(* handlers may call Set between any two of these steps; the interleaving  *)
(* of an interrupt with the single instructions of Wait is the subject of  *)
(* module SyncEvent.                                                       *)
(***************************************************************************)
EXTENDS Integers

CONSTANTS
  Task,       \* addresses of CTask objects; delete makes an address reusable
  MainTask,   \* the task made by the constructor, which runs CKernel::Run
  NoTask,     \* the null CTask pointer
  KEvent,     \* events that belong to no task, e.g. CKernel::m_Event
  NoEvent,
  MayWait,    \* <<t, e>>: task t calls Wait (and Clear) on event e
  MAX_TASKS,
  TickMod,    \* 2^32: the clock and the wake times are unsigned
  MaxSleep,   \* longest usSleep, in ticks; the code keeps it below 2^31
  HoldBound   \* bound: ticks the scan may be late for an expired sleeper

\* The termination event CTask::m_Event of task t is written t itself.
Event == Task \cup KEvent
Half == TickMod \div 2

ASSUME TasksAssumption ==
  /\ MainTask \in Task /\ NoTask \notin Task
  /\ Task \cap KEvent = {} /\ NoEvent \notin Event
  /\ MAX_TASKS \in Nat /\ MAX_TASKS >= 1

\* An event has one waiter (assert in Wait), and a task does not wait for
\* its own end ("callable from other task only", task.h).
ASSUME WaitAssumption ==
  /\ MayWait \subseteq Task \X Event
  /\ \A p, q \in MayWait : p[2] = q[2] => p = q
  /\ \A p \in MayWait : p[1] # p[2]

ASSUME ClockAssumption ==
  /\ Half \in Nat /\ TickMod = 2 * Half /\ Half >= 2
  /\ MaxSleep \in Nat /\ 1 <= MaxSleep /\ MaxSleep < Half
  /\ HoldBound \in Nat /\ HoldBound < Half

VARIABLES
  slot,      \* m_pTask
  nTasks,    \* m_nTasks
  nCurrent,  \* m_nCurrent: index into slot, or MAX_TASKS
  current,   \* m_pCurrent: the task on whose stack the CPU executes
  state,     \* CTask::m_State, "Free" when no object lives at the address
  wake,      \* CTask::m_nWakeTicks
  bState,    \* CSynchronizationEvent::m_bState
  waitTask,  \* CSynchronizationEvent::m_pWaitTask
  waits,     \* the event in whose Wait a task is suspended
  cpu,       \* "task": the running task computes; "scan": inside Yield
  ticks,     \* CTimer::GetClockTicks
  left,      \* history: ticks a sleeping task has still to sleep
  halted     \* why the system has stopped in halt, if it has

slotVars == <<slot, nTasks>>
eventVars == <<bState, waitTask>>
sleepVars == <<wake, left>>
vars == <<slot, nTasks, nCurrent, current, state, wake, bState, waitTask,
          waits, cpu, ticks, left, halted>>

Index == 0 .. MAX_TASKS - 1
Used == 0 .. nTasks - 1

TypeOK ==
  /\ slot \in [Index -> Task \cup {NoTask}]
  /\ nTasks \in 0 .. MAX_TASKS
  /\ nCurrent \in 0 .. MAX_TASKS
  /\ current \in Task
  /\ state \in [Task -> {"Free", "Ready", "Blocked", "Sleeping", "Terminated"}]
  /\ wake \in [Task -> 0 .. TickMod - 1]
  /\ bState \in [Event -> BOOLEAN]
  /\ waitTask \in [Event -> Task \cup {NoTask}]
  /\ waits \in [Task -> Event \cup {NoEvent}]
  /\ cpu \in {"task", "scan"}
  /\ ticks \in 0 .. TickMod - 1
  /\ left \in [Task -> 0 .. MaxSleep]
  /\ halted \in {"no", "panic", "assert"}

-----------------------------------------------------------------------------
(* Sums and differences of ticks wrap around; Expired is the signed         *)
(* comparison (int) (nWakeTicks - nTicks) <= 0 of GetNextTask.              *)

TickSum(a, b) == IF a + b >= TickMod THEN a + b - TickMod ELSE a + b
TickDiff(a, b) == IF a >= b THEN a - b ELSE a - b + TickMod

BugExpiredUnsigned(t) == wake[t] <= ticks
BugExpiredExact(t) == wake[t] = ticks
Expired(t) == TickDiff(wake[t], ticks) = 0 \/ TickDiff(wake[t], ticks) >= Half

\* The constructors of CScheduler and of the main task.
Init ==
  /\ slot = [i \in Index |-> IF i = 0 THEN MainTask ELSE NoTask]
  /\ nTasks = 1
  /\ nCurrent = 0
  /\ current = MainTask
  /\ state = [t \in Task |-> IF t = MainTask THEN "Ready" ELSE "Free"]
  /\ wake = [t \in Task |-> 0]
  /\ bState = [e \in Event |-> FALSE]
  /\ waitTask = [e \in Event |-> NoTask]
  /\ waits = [t \in Task |-> NoEvent]
  /\ cpu = "task"
  /\ ticks = 0
  /\ left = [t \in Task |-> 0]
  /\ halted = "no"

-----------------------------------------------------------------------------
(* Calls of the running task.                                               *)

Running == halted = "no" /\ cpu = "task"

\* AddTask: the first hole, else the end of the table, else panic.  Every
\* task is added by its own constructor, which has just set weight = 0, so
\* the ordering by weight in AddTask is never reached.
AddTask(t) ==
  \/ \E i \in Used :
       /\ slot[i] = NoTask
       /\ \A j \in 0 .. i - 1 : slot[j] # NoTask
       /\ slot' = [slot EXCEPT ![i] = t]
       /\ UNCHANGED <<nTasks, halted>>
  \/ /\ \A i \in Used : slot[i] # NoTask
     /\ nTasks < MAX_TASKS
     /\ slot' = [slot EXCEPT ![nTasks] = t]
     /\ nTasks' = nTasks + 1
     /\ UNCHANGED halted
  \/ /\ \A i \in Used : slot[i] # NoTask
     /\ nTasks = MAX_TASKS
     /\ halted' = "panic"
     /\ UNCHANGED slotVars

\* new CTask: state, event and table entry of a fresh object.
NewTask(t) ==
  /\ Running
  /\ state[t] = "Free"
  /\ state' = [state EXCEPT ![t] = "Ready"]
  /\ bState' = [bState EXCEPT ![t] = FALSE]
  /\ waitTask' = [waitTask EXCEPT ![t] = NoTask]
  /\ waits' = [waits EXCEPT ![t] = NoEvent]
  /\ AddTask(t)
  /\ UNCHANGED <<nCurrent, current, sleepVars, cpu, ticks>>

BugNoYield == UNCHANGED cpu

\* The call of CScheduler::Yield that ends each blocking operation: the CPU
\* enters the loop around GetNextTask, on the stack of the caller.
CallYield == cpu' = "scan"

Yield ==
  /\ Running
  /\ CallYield
  /\ UNCHANGED <<slotVars, nCurrent, current, state, sleepVars, eventVars,
                 waits, ticks, halted>>

\* usSleep with a nonzero argument; with zero it returns at once.
UsSleep(n) ==
  /\ Running
  /\ wake' = [wake EXCEPT ![current] = TickSum(ticks, n)]
  /\ left' = [left EXCEPT ![current] = n]
  /\ state' = [state EXCEPT ![current] = "Sleeping"]
  /\ CallYield
  /\ UNCHANGED <<slotVars, nCurrent, current, eventVars, waits, ticks, halted>>

\* CSynchronizationEvent::Wait on an event that is not set, BlockTask
\* included; on a set event Wait returns at once.
Wait(e) ==
  /\ Running
  /\ <<current, e>> \in MayWait
  /\ e \in Task => state[e] # "Free"
  /\ ~bState[e]
  /\ \/ /\ waitTask[e] = NoTask
        /\ waitTask' = [waitTask EXCEPT ![e] = current]
        /\ state' = [state EXCEPT ![current] = "Blocked"]
        /\ waits' = [waits EXCEPT ![current] = e]
        /\ CallYield
        /\ UNCHANGED halted
     \/ /\ waitTask[e] # NoTask
        /\ halted' = "assert"
        /\ UNCHANGED <<waitTask, state, waits, cpu>>
  /\ UNCHANGED <<slotVars, nCurrent, current, sleepVars, bState, ticks>>

Clear(e) ==
  /\ Running
  /\ e \in KEvent /\ <<current, e>> \in MayWait
  /\ bState[e]
  /\ bState' = [bState EXCEPT ![e] = FALSE]
  /\ UNCHANGED <<slotVars, nCurrent, current, state, sleepVars, waitTask,
                 waits, cpu, ticks, halted>>

BugWakeTaskKeepsWaiter(e, st) ==
  /\ state' = [st EXCEPT ![waitTask[e]] = "Ready"]
  /\ UNCHANGED <<waitTask, halted>>

\* WakeTask, on the task states st.
WakeTask(e, st) ==
  /\ waitTask' = [waitTask EXCEPT ![e] = NoTask]
  /\ \/ /\ st[waitTask[e]] = "Blocked"
        /\ state' = [st EXCEPT ![waitTask[e]] = "Ready"]
        /\ UNCHANGED halted
     \/ /\ st[waitTask[e]] # "Blocked"
        /\ state' = st
        /\ halted' = "assert"

BugSetForgetsWaiter(e, st) ==
  /\ bState' = [bState EXCEPT ![e] = TRUE]
  /\ state' = st
  /\ UNCHANGED <<waitTask, halted>>

\* CSynchronizationEvent::Set.
SetEvent(e, st) ==
  /\ bState' = [bState EXCEPT ![e] = TRUE]
  /\ \/ /\ bState[e] \/ waitTask[e] = NoTask
        /\ state' = st
        /\ UNCHANGED <<waitTask, halted>>
     \/ /\ ~bState[e] /\ waitTask[e] # NoTask
        /\ WakeTask(e, st)

\* Set on a kernel event, by the running task or by an interrupt handler
\* such as CKernel::TimerHandler: possible in either mode of the CPU.
Set(e) ==
  /\ halted = "no"
  /\ e \in KEvent /\ ~bState[e]
  /\ SetEvent(e, state)
  /\ UNCHANGED <<slotVars, nCurrent, current, sleepVars, waits, cpu, ticks>>

\* The end of TaskEntry, and CTask::Terminate: state, event, Yield.  The
\* main task never ends: CKernel::Run returns only to shut down.
Terminate ==
  /\ Running
  /\ current # MainTask
  /\ SetEvent(current, [state EXCEPT ![current] = "Terminated"])
  /\ CallYield
  /\ UNCHANGED <<slotVars, nCurrent, current, sleepVars, waits, ticks>>

-----------------------------------------------------------------------------
(* One pass of GetNextTask, called in the loop of Yield.                    *)

BugVisitFromStart(i) == IF nTasks = 1 THEN 0 ELSE IF i < nTasks THEN i ELSE 0

\* The slot the pass inspects at its i-th iteration: it starts behind
\* m_nCurrent, or behind slot 0 when the last pass found no task.
Visit(i) ==
  LET first == IF nCurrent < MAX_TASKS THEN nCurrent + 1 ELSE 1
  IN  IF first >= nTasks THEN i - 1
      ELSE IF first + i - 1 < nTasks THEN first + i - 1 ELSE first + i - 1 - nTasks

BugRunnableBlocked(t) == state[t] \in {"Ready", "Blocked"} \/ (state[t] = "Sleeping" /\ Expired(t))
Runnable(t) == state[t] = "Ready" \/ (state[t] = "Sleeping" /\ Expired(t))

BugStopsNeverReaps(n) == slot[n] # NoTask /\ Runnable(slot[n])
Stops(n) == /\ slot[n] # NoTask
            /\ Runnable(slot[n]) \/ state[slot[n]] = "Terminated"

\* n is the first slot of the pass that ends it.
Found(n) == \E i \in 1 .. nTasks : /\ n = Visit(i)
                                   /\ Stops(n)
                                   /\ \A j \in 1 .. i - 1 : ~Stops(Visit(j))

Scanning == halted = "no" /\ cpu = "scan"

\* A runnable task is found: TaskSwitch, and the task returns from Yield.
\* If it was suspended in Wait it evaluates assert (m_bState).
Dispatch(n) ==
  LET t == slot[n]
  IN  /\ Scanning
      /\ Found(n) /\ Runnable(t)
      /\ nCurrent' = n
      /\ current' = t
      /\ state' = [state EXCEPT ![t] = "Ready"]
      /\ cpu' = "task"
      /\ halted' = IF waits[t] # NoEvent /\ ~bState[waits[t]] THEN "assert" ELSE "no"
      /\ waits' = [waits EXCEPT ![t] = NoEvent]
      /\ left' = [left EXCEPT ![t] = 0]
      /\ UNCHANGED <<slotVars, wake, eventVars, ticks>>

BugRemoveTaskShrinks(n) ==
  /\ slot' = [slot EXCEPT ![n] = NoTask]
  /\ nTasks' = nTasks - 1

RemoveTask(n) ==
  /\ slot' = [slot EXCEPT ![n] = NoTask]
  /\ nTasks' = IF n = nTasks - 1 THEN nTasks - 1 ELSE nTasks

\* A terminated task is found: it is removed and deleted (the destructor of
\* its event asserts that nobody waits), and the pass reports "no task".
Reap(n) ==
  /\ Scanning
  /\ Found(n) /\ state[slot[n]] = "Terminated"
  /\ RemoveTask(n)
  /\ state' = [state EXCEPT ![slot[n]] = "Free"]
  /\ halted' = IF waitTask[slot[n]] = NoTask THEN "no" ELSE "assert"
  /\ nCurrent' = MAX_TASKS
  /\ UNCHANGED <<current, sleepVars, eventVars, waits, cpu, ticks>>

\* No slot ends the pass; the loop of Yield asserts m_nTasks > 0.
FindNone ==
  /\ Scanning
  /\ \A n \in Used : ~Stops(n)
  /\ nCurrent' = MAX_TASKS
  /\ halted' = IF nTasks > 0 THEN "no" ELSE "assert"
  /\ UNCHANGED <<slotVars, current, state, sleepVars, eventVars, waits, cpu, ticks>>

-----------------------------------------------------------------------------
\* The clock.  Its guard is the assumption that a computing task yields
\* before an expired sleeper is HoldBound ticks late (35 minutes on the
\* machine): the signed comparison cannot see a greater delay.
Tick ==
  /\ halted = "no"
  /\ \A t \in Task : state[t] = "Sleeping" => TickDiff(ticks, wake[t]) # HoldBound
  /\ ticks' = TickSum(ticks, 1)
  /\ left' = [t \in Task |-> IF left[t] > 0 THEN left[t] - 1 ELSE 0]
  /\ UNCHANGED <<slotVars, nCurrent, current, state, wake, eventVars, waits, cpu, halted>>

\* halt() loops for ever after a panic or a failed assertion.
HaltLoop == halted # "no" /\ UNCHANGED vars

GiveUpCPU == \/ Yield
             \/ \E n \in 1 .. MaxSleep : UsSleep(n)
             \/ \E e \in Event : Wait(e)
             \/ Terminate

Scan == \/ \E n \in Used : Dispatch(n) \/ Reap(n)
        \/ FindNone

Next ==
  \/ \E t \in Task : NewTask(t)
  \/ \E e \in Event : Clear(e) \/ Set(e)
  \/ GiveUpCPU
  \/ Scan
  \/ Tick
  \/ HaltLoop

\* The scan never pauses, the clock never stops, and the scheduler is
\* cooperative: the tasks of the kernel call it in each of their loops.
Fairness == WF_vars(Scan) /\ WF_vars(Tick) /\ WF_vars(GiveUpCPU)

Spec == Init /\ [][Next]_vars
FairSpec == Spec /\ Fairness

-----------------------------------------------------------------------------
(* Properties.                                                              *)

Live(t) == state[t] # "Free"

\* The task table holds every live task exactly once, and nothing else: a
\* task that AddTask or RemoveTask loses would never run or be freed, one
\* in two slots would be deleted twice.
TableExact ==
  /\ \A i \in Index : slot[i] # NoTask => i < nTasks /\ Live(slot[i])
  /\ \A i, j \in Index : slot[i] # NoTask /\ slot[i] = slot[j] => i = j
  /\ halted # "panic" => \A t \in Task : Live(t) => \E i \in Index : slot[i] = t

\* Whoever computes is a ready task, and m_nCurrent is its slot: the next
\* pass starts behind it (a stale index would break the round robin).
CurrentExact ==
  halted = "no" /\ cpu = "task" =>
    /\ state[current] = "Ready" /\ waits[current] = NoEvent
    /\ nCurrent < nTasks /\ slot[nCurrent] = current

\* No wake-up is lost: a blocked task is the registered waiter of the event
\* in whose Wait it is, that event is not set, and nobody else is registered.
\* A task that BlockTask suspended and Set forgot would sleep for ever.
NoLostWakeup ==
  /\ \A t \in Task : state[t] = "Blocked" =>
        waits[t] # NoEvent /\ waitTask[waits[t]] = t /\ ~bState[waits[t]]
  /\ \A e \in Event : waitTask[e] # NoTask =>
        state[waitTask[e]] = "Blocked" /\ waits[waitTask[e]] = e

\* The assertions of Wait, WakeTask, the destructors and Yield never fail.
NoAssertionFails == halted # "assert"

\* A sleeping task is never made ready before its time, however the 32-bit
\* clock wraps around between usSleep and the pass that finds it.
NoEarlyWake ==
  [][\A t \in Task : state[t] = "Sleeping" /\ state'[t] # "Sleeping" => left[t] = 0]_vars

\* A ready task gets the CPU, although a pass that finds no task or deletes
\* one makes the next pass start again behind slot 0.
ReadyRuns ==
  \A t \in Task : state[t] = "Ready" ~> (halted # "no" \/ (cpu = "task" /\ current = t))

\* Every sleep ends, across the wrap-around of the clock.
SleepEnds ==
  \A t \in Task : state[t] = "Sleeping" ~> (halted # "no" \/ state[t] = "Ready")

\* The memory of a task that has ended is freed.
TerminatedFreed ==
  \A t \in Task : state[t] = "Terminated" ~> (halted # "no" \/ state[t] = "Free")

-----------------------------------------------------------------------------
(* Refinement.                                                              *)

Status(t) ==
  IF cpu = "task" /\ t = current THEN "running"
  ELSE CASE state[t] = "Free" -> "none"
         [] state[t] = "Ready" -> "ready"
         [] state[t] = "Blocked" -> "blocked"
         [] state[t] = "Sleeping" -> "asleep"
         [] state[t] = "Terminated" -> "ended"

Promise == INSTANCE TaskSystem WITH
             status <- [t \in Task |-> Status(t)],
             flag <- bState,
             stopped <- (halted # "no")

\* The scheduler keeps the promises of TaskSystem: it lets one task run at a
\* time, only one that may run, and wakes exactly the waiter of an event.
Implements == Promise!Spec

=============================================================================
