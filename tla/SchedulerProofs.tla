--------------------------- MODULE SchedulerProofs ---------------------------
(* Proofs about Scheduler, for every set of tasks and events, every size of *)
(* the task table and every width of the clock.                             *)
EXTENDS Scheduler, TLAPS

\* Every variable of the scheduler keeps its type: in particular m_nTasks
\* and m_nCurrent never leave the table, and m_pCurrent is never null.
THEOREM TypeCorrect == Spec => []TypeOK
<1> USE TasksAssumption, ClockAssumption
<1>1. Init => TypeOK
  BY DEF Init, TypeOK, Index, Event
<1>2. TypeOK /\ [Next]_vars => TypeOK'
  <2> SUFFICES ASSUME TypeOK, [Next]_vars PROVE TypeOK'
    OBVIOUS
  <2> USE DEF TypeOK, slotVars, eventVars, sleepVars
  <2>1. ASSUME NEW t \in Task, NewTask(t) PROVE TypeOK'
    <3>1. t \in Event
      BY DEF Event
    <3>2. /\ slot' \in [Index -> Task \cup {NoTask}]
          /\ nTasks' \in 0 .. MAX_TASKS
          /\ halted' \in {"no", "panic", "assert"}
      BY <2>1 DEF NewTask, AddTask
    <3> QED
      BY <2>1, <3>1, <3>2 DEF NewTask
  <2>2. ASSUME NEW e \in Event, Clear(e) PROVE TypeOK'
    BY <2>2 DEF Clear
  <2>3. ASSUME NEW e \in Event, Set(e) PROVE TypeOK'
    BY <2>3 DEF Set, SetEvent, WakeTask
  <2>4. CASE Yield
    BY <2>4 DEF Yield, CallYield
  <2>5. ASSUME NEW n \in 1 .. MaxSleep, UsSleep(n) PROVE TypeOK'
    <3>1. TickSum(ticks, n) \in 0 .. TickMod - 1
      BY DEF TickSum
    <3> QED
      BY <2>5, <3>1 DEF UsSleep, CallYield
  <2>6. ASSUME NEW e \in Event, Wait(e) PROVE TypeOK'
    BY <2>6 DEF Wait, CallYield
  <2>7. CASE Terminate
    <3>1. current \in Event
      BY DEF Event
    <3> DEFINE st == [state EXCEPT ![current] = "Terminated"]
    <3>2. /\ bState' \in [Event -> BOOLEAN]
          /\ waitTask' \in [Event -> Task \cup {NoTask}]
          /\ state' \in [Task -> {"Free", "Ready", "Blocked", "Sleeping", "Terminated"}]
          /\ halted' \in {"no", "panic", "assert"}
      BY <2>7, <3>1 DEF Terminate, SetEvent, WakeTask
    <3> QED
      BY <2>7, <3>2 DEF Terminate, CallYield
  <2>8. ASSUME NEW n \in Used, Dispatch(n) PROVE TypeOK'
    <3>1. n \in 0 .. MAX_TASKS /\ slot[n] \in Task
      BY <2>8 DEF Dispatch, Found, Stops, Used, Index
    <3> QED
      BY <2>8, <3>1 DEF Dispatch
  <2>9. ASSUME NEW n \in Used, Reap(n) PROVE TypeOK'
    <3>1. nTasks - 1 \in 0 .. MAX_TASKS
      BY DEF Used
    <3>2. /\ slot' \in [Index -> Task \cup {NoTask}]
          /\ nTasks' \in 0 .. MAX_TASKS
      BY <2>9, <3>1 DEF Reap, RemoveTask
    <3>3. /\ state' \in [Task -> {"Free", "Ready", "Blocked", "Sleeping", "Terminated"}]
          /\ halted' \in {"no", "panic", "assert"}
      BY <2>9 DEF Reap
    <3> QED
      BY <2>9, <3>2, <3>3 DEF Reap
  <2>10. CASE FindNone
    BY <2>10 DEF FindNone
  <2>11. CASE Tick
    <3>1. TickSum(ticks, 1) \in 0 .. TickMod - 1
      BY DEF TickSum
    <3> QED
      BY <2>11, <3>1 DEF Tick
  <2>12. CASE HaltLoop \/ UNCHANGED vars
    BY <2>12 DEF HaltLoop, vars
  <2> QED
    BY <2>1, <2>2, <2>3, <2>4, <2>5, <2>6, <2>7, <2>8, <2>9, <2>10, <2>11, <2>12
    DEF Next, GiveUpCPU, Scan
<1> QED
  BY <1>1, <1>2, PTL DEF Spec
-----------------------------------------------------------------------------
(* The inductive invariant.  TableExact, CurrentExact and NoLostWakeup are  *)
(* not inductive: a task that Reap frees must not be registered as a        *)
(* waiter's event, and a constructor must not reset one.                    *)

\* What the life cycle of a task says about its termination event, and the
\* waits of a task about its state.
LifeCycle ==
  /\ state[MainTask] \notin {"Free", "Terminated"}
  /\ \A t \in Task : state[t] = "Terminated" => bState[t]
  /\ \A t \in Task : state[t] = "Free" => waitTask[t] = NoTask
  /\ \A t \in Task : waits[t] # NoEvent =>
        state[t] \in {"Ready", "Blocked"} /\ <<t, waits[t]>> \in MayWait

\* A sleeper's distance from the wrapping clock is the time it has left.
SleepExact ==
  \A t \in Task : state[t] = "Sleeping" /\ left[t] > 0 =>
    TickDiff(wake[t], ticks) = left[t]

Inv == TypeOK /\ TableExact /\ CurrentExact /\ NoLostWakeup /\ LifeCycle /\ SleepExact

LEMMA InitInv == Init => Inv
<1> USE TasksAssumption, ClockAssumption
<1> SUFFICES ASSUME Init PROVE Inv
  OBVIOUS
<1>1. TypeOK
  BY DEF Init, TypeOK, Index, Event
<1>2. TableExact
  <2>1. 0 \in Index /\ slot[0] = MainTask /\ nTasks = 1
    BY DEF Init, Index
  <2>2. \A i \in Index : i # 0 => slot[i] = NoTask
    BY DEF Init
  <2>3. \A t \in Task : Live(t) <=> t = MainTask
    BY DEF Init, Live
  <2> QED
    BY <2>1, <2>2, <2>3 DEF TableExact
<1>3. CurrentExact
  BY DEF Init, CurrentExact, Index
<1>4. NoLostWakeup
  BY DEF Init, NoLostWakeup, Event
<1>5. LifeCycle
  BY DEF Init, LifeCycle, Event
<1>6. SleepExact
  BY DEF Init, SleepExact
<1> QED
  BY <1>1, <1>2, <1>3, <1>4, <1>5, <1>6 DEF Inv

\* A constructor: AddTask writes into a null slot below m_nTasks, or the
\* slot at m_nTasks, so no other entry of the table is touched.
LEMMA NewTaskInv ==
  ASSUME Inv, TypeOK', NEW t \in Task, NewTask(t) PROVE Inv'
<1> USE TasksAssumption DEF Inv
<1> USE DEF TypeOK
<1>0. halted = "no" /\ cpu = "task" /\ state[t] = "Free" /\ t \in Event
  BY DEF NewTask, Running, Event
<1>1. TableExact'
  <2>1. \A i \in Index : slot[i] # t
    BY <1>0 DEF TableExact, Live
  <2>2. CASE halted' = "panic"
    BY <1>0, <2>1, <2>2 DEF NewTask, AddTask, slotVars, TableExact, Live
  <2>3. CASE halted' # "panic"
    <3>1. PICK n \in Index : /\ slot[n] = NoTask
                             /\ slot' = [slot EXCEPT ![n] = t]
                             /\ n < nTasks' /\ nTasks <= nTasks'
      <4>1. CASE \E i \in Used : /\ slot[i] = NoTask
                                 /\ slot' = [slot EXCEPT ![i] = t]
                                 /\ UNCHANGED <<nTasks, halted>>
        <5>1. PICK i \in Used : /\ slot[i] = NoTask
                                /\ slot' = [slot EXCEPT ![i] = t]
                                /\ UNCHANGED nTasks
          BY <4>1
        <5>2. i \in Index /\ i < nTasks' /\ nTasks <= nTasks'
          BY <5>1 DEF Used, Index
        <5> QED
          BY <5>1, <5>2
      <4>2. CASE /\ nTasks < MAX_TASKS
                 /\ slot' = [slot EXCEPT ![nTasks] = t]
                 /\ nTasks' = nTasks + 1
        <5>1. nTasks \in Index
          BY <4>2 DEF Index
        <5>2. slot[nTasks] = NoTask
          BY <5>1 DEF TableExact
        <5>3. nTasks < nTasks' /\ nTasks <= nTasks'
          BY <4>2
        <5> QED
          BY <4>2, <5>1, <5>2, <5>3 DEF Index
      <4> QED
        <5>1. AddTask(t) /\ halted' # "panic"
          BY <2>3 DEF NewTask
        <5> QED
          BY <4>1, <4>2, <5>1 DEF AddTask
    <3>2. state' = [state EXCEPT ![t] = "Ready"]
      BY DEF NewTask
    <3>3. \A i \in Index : slot'[i] # NoTask => i < nTasks' /\ Live(slot[i])'
      <4> SUFFICES ASSUME NEW i \in Index, slot'[i] # NoTask
                   PROVE i < nTasks' /\ Live(slot[i])'
        OBVIOUS
      <4>1. CASE i = n
        BY <4>1, <3>1, <3>2 DEF Live
      <4>2. CASE i # n
        <5>1. slot'[i] = slot[i] /\ i < nTasks /\ Live(slot[i]) /\ slot[i] \in Task
          BY <4>2, <3>1 DEF TableExact
        <5>2. i < nTasks'
          BY <5>1, <3>1 DEF Index
        <5>3. state'[slot[i]] # "Free"
          BY <5>1, <3>2 DEF Live
        <5> QED
          BY <5>1, <5>2, <5>3 DEF Live
      <4> QED
        BY <4>1, <4>2
    <3>4. \A i, j \in Index : slot'[i] # NoTask /\ slot'[i] = slot'[j] => i = j
      BY <3>1, <2>1 DEF TableExact
    <3>5. \A u \in Task : Live(u)' => \E i \in Index : slot'[i] = u
      <4> SUFFICES ASSUME NEW u \in Task, Live(u)' PROVE \E i \in Index : slot'[i] = u
        OBVIOUS
      <4>1. CASE u = t
        BY <4>1, <3>1
      <4>2. CASE u # t
        <5>1. PICK i \in Index : slot[i] = u
          BY <4>2, <3>2, <1>0 DEF TableExact, Live
        <5>2. slot'[i] = u
          BY <5>1, <3>1
        <5> QED
          BY <5>2
      <4> QED
        BY <4>1, <4>2
    <3> QED
      BY <3>3, <3>4, <3>5 DEF TableExact
  <2> QED
    BY <2>2, <2>3
<1>2. CurrentExact'
  <2> SUFFICES ASSUME halted' = "no"
               PROVE /\ state'[current] = "Ready" /\ waits'[current] = NoEvent
                     /\ nCurrent < nTasks' /\ slot'[nCurrent] = current
    BY <1>0 DEF CurrentExact, NewTask
  <2>1. state[current] = "Ready" /\ nCurrent \in Used /\ slot[nCurrent] = current
    BY <1>0 DEF CurrentExact, Used
  <2>2. state'[current] = "Ready" /\ waits'[current] = NoEvent
    BY <2>1, <1>0 DEF NewTask, CurrentExact
  <2>3. nCurrent < nTasks' /\ slot'[nCurrent] = current
    <3>1. slot[nCurrent] # NoTask /\ nCurrent # nTasks
      BY <1>0, <2>1, TasksAssumption DEF TypeOK, Used
    <3>2. CASE \E i \in Used : slot[i] = NoTask /\ slot' = [slot EXCEPT ![i] = t] /\ nTasks' = nTasks
      BY <2>1, <3>1, <3>2 DEF Used
    <3>3. CASE slot' = [slot EXCEPT ![nTasks] = t] /\ nTasks' = nTasks + 1
      BY <1>0, <2>1, <3>1, <3>3 DEF TypeOK, Used
    <3>4. CASE UNCHANGED slotVars
      BY <2>1, <3>4 DEF Used, slotVars
    <3> QED
      BY <1>0, <3>2, <3>3, <3>4 DEF NewTask, AddTask
  <2> QED
    BY <2>2, <2>3
<1>3. NoLostWakeup'
  <2>1. waitTask[t] = NoTask
    BY <1>0 DEF LifeCycle
  <2>2. \A e \in Event : waitTask[e] # t
    BY <1>0 DEF NoLostWakeup
  <2>3. /\ state' = [state EXCEPT ![t] = "Ready"]
        /\ bState' = [bState EXCEPT ![t] = FALSE]
        /\ waitTask' = waitTask
        /\ waits' = [waits EXCEPT ![t] = NoEvent]
    BY <2>1, <1>0 DEF NewTask
  <2> QED
    BY <2>1, <2>2, <2>3, <1>0 DEF NoLostWakeup
<1>4. LifeCycle'
  BY <1>0 DEF NewTask, LifeCycle
<1>5. SleepExact'
  BY <1>0 DEF NewTask, SleepExact, sleepVars, TickDiff
<1> QED
  BY <1>1, <1>2, <1>3, <1>4, <1>5

\* Set, by the running task, an interrupt handler or a task that ends: the
\* registered waiter is blocked, so WakeTask's assertion holds.
LEMMA SetInv ==
  ASSUME Inv, NEW e \in Event, Set(e) PROVE Inv' /\ halted' = "no"
<1> USE TasksAssumption DEF Inv
<1>0. /\ halted = "no" /\ e \in KEvent /\ ~bState[e]
      /\ SetEvent(e, state)
      /\ UNCHANGED <<slot, nTasks, nCurrent, current, wake, left, waits, cpu, ticks>>
  BY DEF Set, slotVars, sleepVars
<1>1. CASE waitTask[e] = NoTask
  <2>1. bState' = [bState EXCEPT ![e] = TRUE] /\ UNCHANGED <<state, waitTask, halted>>
    BY <1>0, <1>1 DEF SetEvent
  <2>2. TypeOK'
    BY <1>0, <2>1 DEF TypeOK
  <2>3. TableExact' /\ CurrentExact' /\ SleepExact'
    BY <1>0, <2>1 DEF TableExact, Live, CurrentExact, SleepExact, TickDiff
  <2>4. NoLostWakeup' /\ LifeCycle'
    BY <1>0, <1>1, <2>1 DEF TypeOK, NoLostWakeup, LifeCycle
  <2> QED
    BY <1>0, <2>1, <2>2, <2>3, <2>4
<1>2. CASE waitTask[e] # NoTask
  <2> DEFINE w == waitTask[e]
  <2>1. w \in Task /\ state[w] = "Blocked" /\ waits[w] = e
    BY <1>2 DEF TypeOK, NoLostWakeup
  <2>2. /\ bState' = [bState EXCEPT ![e] = TRUE]
        /\ waitTask' = [waitTask EXCEPT ![e] = NoTask]
        /\ state' = [state EXCEPT ![w] = "Ready"]
        /\ UNCHANGED halted
    BY <1>0, <1>2, <2>1 DEF SetEvent, WakeTask
  <2> HIDE DEF w
  <2>3. TypeOK'
    BY <1>0, <2>1, <2>2 DEF TypeOK
  <2>4. TableExact' /\ CurrentExact' /\ SleepExact'
    BY <1>0, <2>1, <2>2 DEF TypeOK, TableExact, Live, CurrentExact, SleepExact, TickDiff
  <2>5. NoLostWakeup'
    BY <1>0, <2>1, <2>2 DEF TypeOK, NoLostWakeup
  <2>6. LifeCycle'
    BY <1>0, <2>1, <2>2 DEF TypeOK, LifeCycle
  <2> QED
    BY <1>0, <2>2, <2>3, <2>4, <2>5, <2>6
<1> QED
  BY <1>1, <1>2

\* The end of a task sets its own event; it is not its own waiter, being ready.
LEMMA TerminateInv ==
  ASSUME Inv, Terminate PROVE Inv' /\ halted' = "no"
<1> USE TasksAssumption DEF Inv
<1> DEFINE st == [state EXCEPT ![current] = "Terminated"]
<1>0. /\ halted = "no" /\ cpu = "task" /\ current # MainTask
      /\ SetEvent(current, st)
      /\ cpu' = "scan"
      /\ UNCHANGED <<slot, nTasks, nCurrent, current, wake, left, waits, ticks>>
  BY DEF Terminate, Running, CallYield, slotVars, sleepVars
<1>t. current \in Task /\ current \in Event
  BY DEF TypeOK, Event
<1>c. state[current] = "Ready" /\ waits[current] = NoEvent
  BY <1>0 DEF CurrentExact
<1>1. CASE bState[current] \/ waitTask[current] = NoTask
  <2>1. /\ bState' = [bState EXCEPT ![current] = TRUE]
        /\ state' = [state EXCEPT ![current] = "Terminated"]
        /\ UNCHANGED <<waitTask, halted>>
    BY <1>0, <1>1 DEF SetEvent, TypeOK
  <2>2. TypeOK'
    BY <1>0, <1>t, <2>1 DEF TypeOK
  <2>3. TableExact' /\ CurrentExact' /\ SleepExact'
    BY <1>0, <1>t, <1>c, <2>1 DEF TypeOK, TableExact, Live, CurrentExact, SleepExact, TickDiff
  <2>4. NoLostWakeup'
    BY <1>0, <1>1, <1>t, <1>c, <2>1 DEF TypeOK, NoLostWakeup
  <2>5. LifeCycle'
    BY <1>0, <1>t, <1>c, <2>1 DEF TypeOK, LifeCycle
  <2> QED
    BY <1>0, <2>1, <2>2, <2>3, <2>4, <2>5
<1>2. CASE ~bState[current] /\ waitTask[current] # NoTask
  <2> DEFINE w == waitTask[current]
  <2>1. w \in Task /\ state[w] = "Blocked" /\ waits[w] = current /\ w # current
    BY <1>2, <1>t, <1>c DEF TypeOK, NoLostWakeup
  <2>2. /\ bState' = [bState EXCEPT ![current] = TRUE]
        /\ waitTask' = [waitTask EXCEPT ![current] = NoTask]
        /\ state' = [st EXCEPT ![w] = "Ready"]
        /\ UNCHANGED halted
    <3>1. st[w] = "Blocked"
      BY <2>1, <1>t DEF TypeOK
    <3> QED
      BY <1>0, <1>2, <3>1 DEF SetEvent, WakeTask
  <2>3. \A t \in Task : state'[t] = IF t = current THEN "Terminated"
                                    ELSE IF t = w THEN "Ready" ELSE state[t]
    BY <1>t, <2>1, <2>2 DEF TypeOK
  <2>4. TypeOK'
    BY <1>0, <1>t, <2>1, <2>2 DEF TypeOK
  <2> HIDE DEF w, st
  <2>5. TableExact'
    BY <1>0, <1>t, <1>c, <2>1, <2>2, <2>3 DEF TypeOK, TableExact, Live
  <2>6. CurrentExact' /\ SleepExact'
    BY <1>0, <1>t, <1>c, <2>1, <2>3 DEF CurrentExact, SleepExact, TickDiff
  <2>7. NoLostWakeup'
    BY <1>0, <1>t, <1>c, <2>1, <2>2, <2>3 DEF TypeOK, NoLostWakeup
  <2>8. LifeCycle'
    BY <1>0, <1>t, <1>c, <2>1, <2>2, <2>3 DEF TypeOK, LifeCycle
  <2> QED
    BY <1>0, <2>2, <2>4, <2>5, <2>6, <2>7, <2>8
<1> QED
  BY <1>1, <1>2, <1>t DEF TypeOK

\* BlockTask: the assertion of Wait that nobody else waits holds, because an
\* event has one waiter and the caller is not waiting already.
LEMMA WaitInv ==
  ASSUME Inv, NEW e \in Event, Wait(e) PROVE Inv' /\ halted' = "no"
<1> USE TasksAssumption, WaitAssumption DEF Inv
<1>0. /\ halted = "no" /\ cpu = "task" /\ ~bState[e] /\ <<current, e>> \in MayWait
      /\ (e \in Task => state[e] # "Free")
      /\ UNCHANGED <<slot, nTasks, nCurrent, current, wake, left, bState, ticks>>
  BY DEF Wait, Running, slotVars, sleepVars
<1>c. current \in Task /\ state[current] = "Ready" /\ waits[current] = NoEvent /\ e # NoEvent
  BY <1>0 DEF TypeOK, CurrentExact
<1>w. waitTask[e] = NoTask
  <2> SUFFICES ASSUME waitTask[e] # NoTask PROVE FALSE
    OBVIOUS
  <2>1. waitTask[e] \in Task /\ waits[waitTask[e]] = e
    BY DEF TypeOK, NoLostWakeup
  <2>2. <<waitTask[e], e>> \in MayWait
    BY <2>1, <1>c DEF LifeCycle
  <2>3. waitTask[e] = current
    BY <2>2, <1>0
  <2> QED
    BY <2>1, <2>3, <1>c
<1>1. /\ waitTask' = [waitTask EXCEPT ![e] = current]
      /\ state' = [state EXCEPT ![current] = "Blocked"]
      /\ waits' = [waits EXCEPT ![current] = e]
      /\ cpu' = "scan"
      /\ UNCHANGED halted
  BY <1>w DEF Wait, CallYield
<1>2. TypeOK'
  BY <1>0, <1>c, <1>1 DEF TypeOK
<1>3. TableExact' /\ CurrentExact' /\ SleepExact'
  BY <1>0, <1>c, <1>1 DEF TypeOK, TableExact, Live, CurrentExact, SleepExact, TickDiff
<1>4. NoLostWakeup'
  BY <1>0, <1>c, <1>w, <1>1 DEF TypeOK, NoLostWakeup
<1>5. LifeCycle'
  BY <1>0, <1>c, <1>1 DEF TypeOK, LifeCycle
<1> QED
  BY <1>0, <1>1, <1>2, <1>3, <1>4, <1>5

\* usSleep and the clock: as the sleep is shorter than half the range of the
\* clock, the difference of wake time and clock is the time still to sleep.
LEMMA UsSleepInv ==
  ASSUME Inv, TypeOK', NEW n \in 1 .. MaxSleep, UsSleep(n) PROVE Inv' /\ halted' = "no"
<1> USE TasksAssumption, ClockAssumption DEF Inv
<1>0. /\ halted = "no" /\ cpu = "task" /\ cpu' = "scan"
      /\ wake' = [wake EXCEPT ![current] = TickSum(ticks, n)]
      /\ left' = [left EXCEPT ![current] = n]
      /\ state' = [state EXCEPT ![current] = "Sleeping"]
      /\ UNCHANGED <<slot, nTasks, nCurrent, current, bState, waitTask, waits, ticks, halted>>
  BY DEF UsSleep, Running, CallYield, slotVars, eventVars
<1>c. current \in Task /\ state[current] = "Ready" /\ waits[current] = NoEvent
  BY <1>0 DEF TypeOK, CurrentExact
<1>1. TableExact' /\ CurrentExact'
  BY <1>0, <1>c DEF TypeOK, TableExact, Live, CurrentExact
<1>2. NoLostWakeup' /\ LifeCycle'
  BY <1>0, <1>c DEF TypeOK, NoLostWakeup, LifeCycle
<1>3. SleepExact'
  <2>1. TickDiff(TickSum(ticks, n), ticks) = n
    BY DEF TypeOK, TickDiff, TickSum
  <2>2. \A t \in Task : t # current => state'[t] = state[t] /\ wake'[t] = wake[t] /\ left'[t] = left[t]
    BY <1>0, <1>c DEF TypeOK
  <2>3. wake'[current] = TickSum(ticks, n) /\ left'[current] = n
    BY <1>0, <1>c DEF TypeOK
  <2> QED
    BY <1>0, <2>1, <2>2, <2>3 DEF SleepExact, TickDiff
<1> QED
  BY <1>0, <1>1, <1>2, <1>3

LEMMA TickInv ==
  ASSUME Inv, TypeOK', Tick PROVE Inv' /\ halted' = "no"
<1> USE TasksAssumption, ClockAssumption DEF Inv
<1>0. /\ ticks' = TickSum(ticks, 1)
      /\ left' = [t \in Task |-> IF left[t] > 0 THEN left[t] - 1 ELSE 0]
      /\ halted = "no"
      /\ UNCHANGED <<slot, nTasks, nCurrent, current, state, wake, bState, waitTask, waits,
                     cpu, halted>>
  BY DEF Tick, slotVars, eventVars
<1>1. TableExact' /\ CurrentExact' /\ NoLostWakeup' /\ LifeCycle'
  BY <1>0 DEF TableExact, Live, CurrentExact, NoLostWakeup, LifeCycle
<1>2. SleepExact'
  <2> SUFFICES ASSUME NEW t \in Task, state[t] = "Sleeping", left'[t] > 0
               PROVE TickDiff(wake[t], ticks') = left'[t]
    BY <1>0 DEF SleepExact, TickDiff
  <2>1. left[t] \in 0 .. MaxSleep /\ wake[t] \in 0 .. TickMod - 1 /\ ticks \in 0 .. TickMod - 1
    BY DEF TypeOK
  <2>2. left[t] > 1 /\ left'[t] = left[t] - 1
    BY <1>0, <2>1
  <2>3. TickDiff(wake[t], ticks) = left[t]
    BY <2>1, <2>2 DEF SleepExact
  <2> QED
    BY <1>0, <2>1, <2>2, <2>3 DEF TickDiff, TickSum
<1> QED
  BY <1>0, <1>1, <1>2

\* The pass finds a runnable task; a blocked one is not runnable.
LEMMA DispatchInv ==
  ASSUME Inv, TypeOK', NEW n \in Used, Dispatch(n) PROVE Inv'
<1> USE TasksAssumption DEF Inv
<1> DEFINE t == slot[n]
<1>0. /\ Runnable(t) /\ t # NoTask
      /\ nCurrent' = n /\ current' = t
      /\ state' = [state EXCEPT ![t] = "Ready"]
      /\ waits' = [waits EXCEPT ![t] = NoEvent]
      /\ left' = [left EXCEPT ![t] = 0]
      /\ cpu' = "task" /\ halted = "no" /\ halted' # "panic"
      /\ UNCHANGED <<slot, nTasks, wake, bState, waitTask, ticks>>
  BY DEF Dispatch, Found, Stops, slotVars, eventVars, Scanning
<1>1. n \in Index /\ n < nTasks /\ t \in Task
  BY <1>0 DEF TypeOK, Used, Index
<1>2. state[t] \in {"Ready", "Sleeping"}
  BY <1>0 DEF Runnable
<1> HIDE DEF t
<1>3. TableExact' 
  BY <1>0, <1>1, <1>2 DEF TypeOK, TableExact, Live
<1>4. CurrentExact'
  BY <1>0, <1>1 DEF TypeOK, CurrentExact, t
<1>5. NoLostWakeup' /\ LifeCycle'
  BY <1>0, <1>1, <1>2 DEF TypeOK, NoLostWakeup, LifeCycle
<1>6. SleepExact'
  BY <1>0, <1>1 DEF TypeOK, SleepExact, TickDiff
<1> QED
  BY <1>3, <1>4, <1>5, <1>6

\* A terminated task leaves the table: its event is set, so nobody waits.
LEMMA ReapInv ==
  ASSUME Inv, TypeOK', NEW n \in Used, Reap(n) PROVE Inv' /\ halted' = "no"
<1> USE TasksAssumption DEF Inv
<1> DEFINE t == slot[n]
<1>0. /\ t # NoTask /\ state[t] = "Terminated"
      /\ slot' = [slot EXCEPT ![n] = NoTask]
      /\ nTasks' = IF n = nTasks - 1 THEN nTasks - 1 ELSE nTasks
      /\ state' = [state EXCEPT ![t] = "Free"]
      /\ halted' = IF waitTask[t] = NoTask THEN "no" ELSE "assert"
      /\ halted = "no" /\ cpu = "scan"
      /\ UNCHANGED <<current, wake, left, bState, waitTask, waits, cpu, ticks>>
  BY DEF Reap, Found, Stops, RemoveTask, eventVars, sleepVars, Scanning
<1>1. n \in Index /\ n < nTasks /\ t \in Task /\ t \in Event
  BY <1>0 DEF TypeOK, Used, Index, Event
<1>2. bState[t] /\ waitTask[t] = NoTask /\ waits[t] = NoEvent
  <2>1. bState[t] /\ waits[t] = NoEvent
    BY <1>0, <1>1 DEF LifeCycle
  <2>2. waitTask[t] \in Task \cup {NoTask}
    BY <1>1 DEF TypeOK
  <2> QED
    BY <1>1, <2>1, <2>2 DEF NoLostWakeup
<1>3. TableExact'
  <2>1. \A i \in Index : slot[i] = t <=> i = n
    BY <1>0, <1>1 DEF TableExact
  <2>2. \A i \in Index : slot'[i] # NoTask => i # n /\ slot'[i] = slot[i] /\ slot[i] # t
    BY <1>0, <1>1, <2>1 DEF TypeOK
  <2> HIDE DEF t
  <2>3. ASSUME NEW i \in Index, slot'[i] # NoTask PROVE i < nTasks' /\ Live(slot[i])'
    <3>1. i # n /\ slot'[i] = slot[i] /\ slot[i] # t /\ slot[i] \in Task
      BY <2>2, <2>3 DEF TypeOK
    <3>2. i < nTasks /\ state[slot[i]] # "Free"
      BY <3>1, <2>3 DEF TableExact, Live
    <3>3. i < nTasks'
      BY <3>1, <3>2, <1>0, <1>1 DEF TypeOK, Index
    <3>4. state'[slot[i]] # "Free"
      BY <3>1, <3>2, <1>0 DEF TypeOK
    <3> QED
      BY <3>1, <3>3, <3>4 DEF Live
  <2>4. \A i, j \in Index : slot'[i] # NoTask /\ slot'[i] = slot'[j] => i = j
    BY <2>2 DEF TableExact
  <2>5. ASSUME NEW u \in Task, Live(u)' PROVE \E i \in Index : slot'[i] = u
    <3>1. u # t /\ state[u] # "Free"
      BY <2>5, <1>0, <1>1 DEF Live, TypeOK
    <3>2. PICK i \in Index : slot[i] = u
      BY <3>1, <1>0 DEF TableExact, Live
    <3>3. i # n
      BY <3>1, <3>2, <2>1, <1>1
    <3> QED
      BY <3>2, <3>3, <1>0 DEF TypeOK
  <2> QED
    BY <2>3, <2>4, <2>5 DEF TableExact
<1> HIDE DEF t
<1>4. CurrentExact'
  BY <1>0 DEF CurrentExact
<1>5. NoLostWakeup' /\ LifeCycle'
  BY <1>0, <1>1, <1>2 DEF TypeOK, NoLostWakeup, LifeCycle
<1>6. SleepExact'
  BY <1>0, <1>1 DEF TypeOK, SleepExact, TickDiff
<1> QED
  BY <1>0, <1>2, <1>3, <1>4, <1>5, <1>6

\* The main task is always in the table, so a pass never finds it empty.
LEMMA FindNoneInv ==
  ASSUME Inv, FindNone PROVE Inv' /\ halted' = "no"
<1> USE TasksAssumption DEF Inv
<1>0. /\ halted = "no" /\ cpu = "scan"
      /\ halted' = IF nTasks > 0 THEN "no" ELSE "assert"
      /\ UNCHANGED <<slot, nTasks, current, state, wake, left, bState, waitTask, waits, cpu, ticks>>
      /\ nCurrent' = MAX_TASKS
  BY DEF FindNone, Scanning, slotVars, eventVars, sleepVars
<1>1. nTasks > 0
  <2>1. PICK i \in Index : slot[i] = MainTask
    BY <1>0 DEF LifeCycle, TableExact, Live
  <2>2. i < nTasks
    BY <2>1 DEF TableExact
  <2> QED
    BY <2>2 DEF TypeOK, Index
<1>2. TypeOK'
  BY <1>0, <1>1 DEF TypeOK
<1>3. TableExact' /\ CurrentExact' /\ NoLostWakeup' /\ LifeCycle' /\ SleepExact'
  BY <1>0, <1>1 DEF TableExact, Live, CurrentExact, NoLostWakeup, LifeCycle, SleepExact, TickDiff
<1> QED
  BY <1>0, <1>1, <1>2, <1>3

\* Every step keeps the invariant; the actions that change little are done here.
LEMMA StepInv == Inv /\ TypeOK' /\ [Next]_vars => Inv'
<1> SUFFICES ASSUME Inv, TypeOK', [Next]_vars PROVE Inv'
  OBVIOUS
<1>1. ASSUME NEW t \in Task, NewTask(t) PROVE Inv'
  BY <1>1, NewTaskInv
<1>2. ASSUME NEW e \in Event, Clear(e) PROVE Inv'
  <2>1. /\ bState[e] /\ bState' = [bState EXCEPT ![e] = FALSE] /\ e \in KEvent
        /\ UNCHANGED <<slot, nTasks, nCurrent, current, state, wake, left, waitTask, waits,
                       cpu, ticks, halted>>
    BY <1>2 DEF Clear, slotVars, sleepVars
  <2>2. TableExact' /\ CurrentExact' /\ SleepExact'
    BY <2>1 DEF Inv, TableExact, Live, CurrentExact, SleepExact, TickDiff
  <2>3. NoLostWakeup' /\ LifeCycle'
    BY <2>1, TasksAssumption DEF Inv, TypeOK, NoLostWakeup, LifeCycle
  <2> QED
    BY <2>2, <2>3 DEF Inv
<1>3. ASSUME NEW e \in Event, Set(e) PROVE Inv'
  BY <1>3, SetInv
<1>4. CASE Yield
  <2>1. /\ cpu' = "scan"
        /\ UNCHANGED <<slot, nTasks, nCurrent, current, state, wake, left, bState, waitTask,
                       waits, ticks, halted>>
    BY <1>4 DEF Yield, CallYield, slotVars, sleepVars, eventVars
  <2> QED
    BY <2>1 DEF Inv, TableExact, Live, CurrentExact, NoLostWakeup, LifeCycle, SleepExact, TickDiff
<1>5. ASSUME NEW n \in 1 .. MaxSleep, UsSleep(n) PROVE Inv'
  BY <1>5, UsSleepInv
<1>6. ASSUME NEW e \in Event, Wait(e) PROVE Inv'
  BY <1>6, WaitInv
<1>7. CASE Terminate
  BY <1>7, TerminateInv
<1>8. ASSUME NEW n \in Used, Dispatch(n) PROVE Inv'
  BY <1>8, DispatchInv
<1>9. ASSUME NEW n \in Used, Reap(n) PROVE Inv'
  BY <1>9, ReapInv
<1>10. CASE FindNone
  BY <1>10, FindNoneInv
<1>11. CASE Tick
  BY <1>11, TickInv
<1>12. CASE HaltLoop \/ UNCHANGED vars
  BY <1>12 DEF HaltLoop, vars, Inv, TypeOK, TableExact, Live, CurrentExact, NoLostWakeup,
               LifeCycle, SleepExact, TickDiff
<1> QED
  BY <1>1, <1>2, <1>3, <1>4, <1>5, <1>6, <1>7, <1>8, <1>9, <1>10, <1>11, <1>12
  DEF Next, GiveUpCPU, Scan

\* In every state the table, the life cycle of the tasks, who waits for what
\* and the sleeps are as the code takes them to be.
THEOREM Invariance == Spec => []Inv
<1>1. Inv /\ TypeOK' /\ [Next]_vars => Inv'
  BY StepInv
<1> QED
  BY <1>1, InitInv, TypeCorrect, PTL DEF Spec

\* AddTask and RemoveTask keep every live task in exactly one slot, holes and
\* reused addresses notwithstanding.
THEOREM TableCorrect == Spec => []TableExact
<1>1. Inv => TableExact
  BY DEF Inv
<1> QED
  BY <1>1, Invariance, PTL

\* m_nCurrent is the slot of the running task whenever a task computes.
THEOREM CurrentCorrect == Spec => []CurrentExact
<1>1. Inv => CurrentExact
  BY DEF Inv
<1> QED
  BY <1>1, Invariance, PTL

\* No wake-up is lost between Wait, Set and WakeTask, at the grain of calls.
THEOREM WakeupsKept == Spec => []NoLostWakeup
<1>1. Inv => NoLostWakeup
  BY DEF Inv
<1> QED
  BY <1>1, Invariance, PTL

\* The signed comparison of GetNextTask ends no sleep early, whatever the
\* width of the clock, as long as sleeps are shorter than half its range.
THEOREM SleepsLastLongEnough == Spec => NoEarlyWake
<1>1. Inv /\ [Next]_vars =>
        [\A t \in Task : state[t] = "Sleeping" /\ state'[t] # "Sleeping" => left[t] = 0]_vars
  <2> SUFFICES ASSUME Inv, Next, NEW t \in Task, state[t] = "Sleeping", state'[t] # "Sleeping"
               PROVE left[t] = 0
    BY DEF vars
  <2> USE TasksAssumption DEF Inv
  <2>1. ASSUME NEW u \in Task, NewTask(u) PROVE FALSE
    BY <2>1 DEF NewTask, TypeOK
  <2>2. ASSUME NEW e \in Event, Set(e) PROVE FALSE
    <3>1. CASE waitTask[e] = NoTask
      BY <2>2, <3>1 DEF Set, SetEvent
    <3>2. CASE waitTask[e] # NoTask
      BY <2>2, <3>2 DEF Set, SetEvent, WakeTask, TypeOK, NoLostWakeup
    <3> QED
      BY <3>1, <3>2
  <2>3. CASE Terminate
    <3>1. state[current] = "Ready" /\ current \in Task /\ current # t /\ current \in Event
      BY <2>3 DEF Terminate, Running, CurrentExact, TypeOK, Event
    <3> DEFINE st == [state EXCEPT ![current] = "Terminated"]
    <3>2. SetEvent(current, st) /\ st[t] = "Sleeping"
      BY <2>3, <3>1 DEF Terminate, TypeOK
    <3> HIDE DEF st
    <3>3. waitTask[current] # t
      BY <3>1 DEF NoLostWakeup, TypeOK
    <3>4. st \in [Task -> {"Free", "Ready", "Blocked", "Sleeping", "Terminated"}]
      BY <3>1 DEF TypeOK, st
    <3> QED
      BY <3>2, <3>3, <3>4 DEF SetEvent, WakeTask
  <2>4. ASSUME NEW n \in Used, Dispatch(n) PROVE left[t] = 0
    <3>1. t = slot[n] /\ Expired(t)
      BY <2>4 DEF Dispatch, Runnable, TypeOK
    <3>2. left[t] \in 0 .. MaxSleep
      BY DEF TypeOK
    <3>3. left[t] > 0 => TickDiff(wake[t], ticks) = left[t]
      BY DEF SleepExact
    <3> QED
      BY <3>1, <3>2, <3>3, ClockAssumption DEF Expired
  <2>5. ASSUME NEW n \in Used, Reap(n) PROVE FALSE
    BY <2>5 DEF Reap, TypeOK
  <2>6. CASE UNCHANGED state \/ \E n \in 1 .. MaxSleep : UsSleep(n)
    BY <2>6 DEF UsSleep, TypeOK
  <2>7. ASSUME NEW e \in Event, Wait(e) PROVE FALSE
    <3>1. state[current] = "Ready" /\ current # t
      BY <2>7 DEF Wait, Running, CurrentExact, TypeOK
    <3> QED
      BY <2>7, <3>1 DEF Wait, TypeOK
  <2> QED
    BY <2>1, <2>2, <2>3, <2>4, <2>5, <2>6, <2>7
    DEF Next, GiveUpCPU, Scan, Clear, Yield, FindNone, Tick, HaltLoop, vars
<1> QED
  BY <1>1, Invariance, PTL DEF Spec, NoEarlyWake

\* When tasks wait for kernel events only, as the tasks of the kernel do, a
\* woken task finds its event still set: only the waiter itself clears it.
WokenExact ==
  halted = "no" => \A t \in Task : waits[t] # NoEvent /\ state[t] = "Ready" => bState[waits[t]]

LEMMA WokenStep ==
  ASSUME MayWait \subseteq Task \X KEvent,
         Inv, TypeOK', WokenExact, NoAssertionFails, [Next]_vars
  PROVE  WokenExact' /\ NoAssertionFails'
<1> USE TasksAssumption, WaitAssumption DEF Inv, NoAssertionFails
<1>k. \A t \in Task : waits[t] # NoEvent => waits[t] \in KEvent /\ waits[t] \in Event
  BY DEF LifeCycle, Event
<1>1. ASSUME NEW t \in Task, NewTask(t) PROVE WokenExact' /\ NoAssertionFails'
  <2>1. /\ state' = [state EXCEPT ![t] = "Ready"]
        /\ bState' = [bState EXCEPT ![t] = FALSE]
        /\ waits' = [waits EXCEPT ![t] = NoEvent]
        /\ halted = "no" /\ halted' \in {"no", "panic"}
    BY <1>1 DEF NewTask, Running, AddTask
  <2>2. \A u \in Task : waits[u] # t
    BY <1>k DEF Event
  <2> QED
    BY <2>1, <2>2, <1>k DEF TypeOK, WokenExact
<1>2. ASSUME NEW e \in Event, Clear(e) PROVE WokenExact' /\ NoAssertionFails'
  <2>1. /\ halted = "no" /\ cpu = "task" /\ <<current, e>> \in MayWait
        /\ bState' = [bState EXCEPT ![e] = FALSE]
        /\ UNCHANGED <<state, waits, halted>>
    BY <1>2 DEF Clear, Running
  <2>2. \A t \in Task : waits[t] # e
    <3> SUFFICES ASSUME NEW t \in Task, waits[t] = e PROVE FALSE
      OBVIOUS
    <3>1. e # NoEvent /\ <<t, e>> \in MayWait
      BY DEF LifeCycle
    <3>2. t = current
      BY <3>1, <2>1
    <3> QED
      BY <3>1, <3>2, <2>1 DEF CurrentExact
  <2> QED
    BY <2>1, <2>2, <1>k DEF TypeOK, WokenExact
<1>3. ASSUME NEW e \in Event, Set(e) PROVE WokenExact' /\ NoAssertionFails'
  <2>1. halted' = "no" /\ halted = "no"
    BY <1>3, SetInv DEF Set
  <2>2. bState' = [bState EXCEPT ![e] = TRUE] /\ waits' = waits
    BY <1>3 DEF Set, SetEvent
  <2>3. \A t \in Task : state'[t] = "Ready" => state[t] = "Ready" \/ (state[t] = "Blocked" /\ waits[t] = e)
    BY <1>3 DEF Set, SetEvent, WakeTask, TypeOK, NoLostWakeup
  <2> QED
    BY <2>1, <2>2, <2>3, <1>k DEF WokenExact, TypeOK
<1>4. CASE Terminate
  <2>1. halted' = "no" /\ halted = "no"
    BY <1>4, TerminateInv DEF Terminate, Running
  <2>2. current \in Task /\ current \in Event
    BY DEF TypeOK, Event
  <2>3. bState' = [bState EXCEPT ![current] = TRUE] /\ waits' = waits
    BY <1>4 DEF Terminate, SetEvent
  <2>4. waitTask[current] = NoTask
    <3> SUFFICES ASSUME waitTask[current] # NoTask PROVE FALSE
      OBVIOUS
    <3>1. waitTask[current] \in Task /\ waits[waitTask[current]] = current
      BY <2>2 DEF TypeOK, NoLostWakeup
    <3> QED
      BY <3>1, <2>2, <1>k
  <2>5. state' = [state EXCEPT ![current] = "Terminated"]
    BY <1>4, <2>2, <2>4 DEF Terminate, SetEvent
  <2> QED
    BY <2>1, <2>2, <2>3, <2>5, <1>k DEF WokenExact, TypeOK
<1>5. ASSUME NEW e \in Event, Wait(e) PROVE WokenExact' /\ NoAssertionFails'
  <2>1. halted' = "no" /\ halted = "no"
    BY <1>5, WaitInv DEF Wait, Running
  <2>2. /\ state' = [state EXCEPT ![current] = "Blocked"]
        /\ waits' = [waits EXCEPT ![current] = e] /\ bState' = bState
    BY <1>5, <2>1 DEF Wait
  <2> QED
    BY <2>1, <2>2 DEF WokenExact, TypeOK
<1>6. ASSUME NEW n \in Used, Dispatch(n) PROVE WokenExact' /\ NoAssertionFails'
  <2> DEFINE t == slot[n]
  <2>1. /\ t # NoTask /\ Runnable(t)
        /\ halted = "no" /\ bState' = bState
        /\ halted' = IF waits[t] # NoEvent /\ ~bState[waits[t]] THEN "assert" ELSE "no"
        /\ state' = [state EXCEPT ![t] = "Ready"]
        /\ waits' = [waits EXCEPT ![t] = NoEvent]
    BY <1>6 DEF Dispatch, Found, Stops, Scanning, eventVars
  <2>2. t \in Task
    BY <2>1 DEF TypeOK, Used, Index
  <2> HIDE DEF t
  <2>3. waits[t] # NoEvent => state[t] = "Ready"
    BY <2>1, <2>2 DEF Runnable, LifeCycle
  <2> QED
    BY <2>1, <2>2, <2>3 DEF WokenExact, TypeOK
<1>7. ASSUME NEW n \in Used, Reap(n) PROVE WokenExact' /\ NoAssertionFails'
  <2>1. halted' = "no" /\ halted = "no"
    BY <1>7, ReapInv DEF Reap, Scanning
  <2>2. state' = [state EXCEPT ![slot[n]] = "Free"] /\ waits' = waits /\ bState' = bState
    BY <1>7 DEF Reap, eventVars
  <2> QED
    BY <2>1, <2>2 DEF WokenExact, TypeOK
<1>8. CASE FindNone
  <2>1. halted' = "no" /\ halted = "no"
    BY <1>8, FindNoneInv DEF FindNone, Scanning
  <2> QED
    BY <1>8, <2>1 DEF FindNone, eventVars, WokenExact
<1>9. ASSUME NEW n \in 1 .. MaxSleep, UsSleep(n) PROVE WokenExact' /\ NoAssertionFails'
  <2>1. state' = [state EXCEPT ![current] = "Sleeping"] /\ UNCHANGED <<waits, bState, halted>>
    BY <1>9 DEF UsSleep, eventVars
  <2> QED
    BY <2>1 DEF WokenExact, TypeOK
<1>10. CASE Yield \/ Tick \/ HaltLoop \/ UNCHANGED vars
  BY <1>10 DEF Yield, Tick, HaltLoop, vars, eventVars, WokenExact
<1> QED
  BY <1>1, <1>2, <1>3, <1>4, <1>5, <1>6, <1>7, <1>8, <1>9, <1>10 DEF Next, GiveUpCPU, Scan

\* With waits on kernel events only, none of the assertions of Wait, WakeTask,
\* Yield and the destructors fails.  (WaitForTermination can make one fail.)
THEOREM AssertionsHold ==
  ASSUME MayWait \subseteq Task \X KEvent PROVE Spec => []NoAssertionFails
<1>1. Init => WokenExact /\ NoAssertionFails
  BY DEF Init, WokenExact, NoAssertionFails
<1>2. Inv /\ TypeOK' /\ (WokenExact /\ NoAssertionFails) /\ [Next]_vars
        => (WokenExact /\ NoAssertionFails)'
  BY WokenStep
<1> QED
  BY <1>1, <1>2, Invariance, TypeCorrect, PTL DEF Spec
-----------------------------------------------------------------------------
(* Scheduler implements TaskSystem.                                         *)

\* Only a sleeper has time left to sleep.
LeftExact == \A t \in Task : left[t] > 0 => state[t] = "Sleeping"

LEMMA LeftStep ==
  ASSUME Inv, TypeOK', LeftExact, [Next]_vars PROVE LeftExact'
<1> USE TasksAssumption DEF Inv
<1>t. \A t \in Task : left[t] \in 0 .. MaxSleep /\ left'[t] \in 0 .. MaxSleep
  BY DEF TypeOK
<1>1. ASSUME NEW t \in Task, NewTask(t) PROVE LeftExact'
  BY <1>1 DEF NewTask, sleepVars, LeftExact, TypeOK
<1>2. ASSUME NEW e \in Event, Set(e) PROVE LeftExact'
  <2>1. \A t \in Task : state[t] = "Sleeping" => state'[t] = "Sleeping"
    BY <1>2 DEF Set, SetEvent, WakeTask, TypeOK, NoLostWakeup
  <2> QED
    BY <1>2, <2>1 DEF Set, sleepVars, LeftExact
<1>3. CASE Terminate
  <2>1. halted = "no" /\ cpu = "task" /\ state[current] = "Ready" /\ current \in Task /\ current \in Event
    BY <1>3 DEF Terminate, Running, CurrentExact, TypeOK, Event
  <2> DEFINE st == [state EXCEPT ![current] = "Terminated"]
  <2>2. SetEvent(current, st) /\ UNCHANGED left
    BY <1>3 DEF Terminate, sleepVars
  <2>3. st \in [Task -> {"Free", "Ready", "Blocked", "Sleeping", "Terminated"}]
        /\ \A t \in Task : state[t] = "Sleeping" => st[t] = "Sleeping"
    BY <2>1 DEF TypeOK
  <2> HIDE DEF st
  <2>4. \A t \in Task : state[t] = "Sleeping" => state'[t] = "Sleeping"
    BY <2>1, <2>2, <2>3 DEF SetEvent, WakeTask, TypeOK, NoLostWakeup
  <2> QED
    BY <2>2, <2>4 DEF LeftExact
<1>4. ASSUME NEW e \in Event, Wait(e) PROVE LeftExact'
  <2>1. state[current] = "Ready" /\ UNCHANGED left
    BY <1>4 DEF Wait, Running, CurrentExact, sleepVars
  <2>2. \A t \in Task : t # current => state'[t] = state[t]
    BY <1>4 DEF Wait, TypeOK
  <2> QED
    BY <2>1, <2>2 DEF LeftExact
<1>5. ASSUME NEW n \in 1 .. MaxSleep, UsSleep(n) PROVE LeftExact'
  BY <1>5 DEF UsSleep, LeftExact, TypeOK
<1>6. ASSUME NEW n \in Used, Dispatch(n) PROVE LeftExact'
  BY <1>6, <1>t DEF Dispatch, LeftExact, TypeOK
<1>7. ASSUME NEW n \in Used, Reap(n) PROVE LeftExact'
  BY <1>7 DEF Reap, sleepVars, LeftExact, TypeOK
<1>8. CASE Tick
  <2>1. \A t \in Task : left'[t] > 0 => left[t] > 0
    BY <1>8, <1>t DEF Tick
  <2> QED
    BY <1>8, <2>1 DEF Tick, LeftExact
<1>9. CASE (\E e \in Event : Clear(e)) \/ Yield \/ FindNone \/ HaltLoop \/ UNCHANGED vars
  BY <1>9 DEF Clear, Yield, FindNone, HaltLoop, vars, sleepVars, LeftExact
<1> QED
  BY <1>1, <1>2, <1>3, <1>4, <1>5, <1>6, <1>7, <1>8, <1>9 DEF Next, GiveUpCPU, Scan

\* What a reader of Status needs of the invariant: the running task, if any.
LEMMA StatusFacts ==
  ASSUME Inv, halted = "no"
  PROVE  /\ current \in Task
         /\ cpu = "task" => Status(current) = "running" /\ state[current] = "Ready"
         /\ \A t \in Task : Status(t) = "running" <=> cpu = "task" /\ t = current
         /\ \A t \in Task : ~(cpu = "task" /\ t = current) =>
              /\ Status(t) = "none" <=> state[t] = "Free"
              /\ Status(t) = "ready" <=> state[t] = "Ready"
              /\ Status(t) = "blocked" <=> state[t] = "Blocked"
              /\ Status(t) = "asleep" <=> state[t] = "Sleeping"
              /\ Status(t) = "ended" <=> state[t] = "Terminated"
BY DEF Inv, TypeOK, CurrentExact, Status

\* A new task is ready; one too many stops the system.
LEMMA NewTaskImplements ==
  ASSUME Inv, Inv', NEW t \in Task, NewTask(t) PROVE Promise!Start(t) \/ Promise!Panic(t)
<1> DEFINE st == [u \in Task |-> Status(u)]
<1>1. /\ halted = "no" /\ cpu = "task" /\ state[t] = "Free"
      /\ state' = [state EXCEPT ![t] = "Ready"]
      /\ bState' = [bState EXCEPT ![t] = FALSE]
      /\ waits' = [waits EXCEPT ![t] = NoEvent]
      /\ halted' \in {"no", "panic"}
      /\ UNCHANGED <<current, left, cpu>>
  <2>1. halted' \in {"no", "panic"}
    BY DEF NewTask, Running, AddTask
  <2> QED
    BY <2>1 DEF NewTask, Running, sleepVars
<1>2. t # current /\ waits' = waits
  <2>1. waits[t] = NoEvent /\ waits \in [Task -> Event \cup {NoEvent}]
    BY <1>1 DEF Inv, TypeOK, LifeCycle
  <2>2. t # current
    BY <1>1 DEF Inv, CurrentExact
  <2> QED
    BY <1>1, <2>1, <2>2
<1>3. \A u \in Task : Status(u)' = IF u = t THEN "ready" ELSE Status(u)
  BY <1>1, <1>2 DEF Inv, TypeOK, Status
<1>4. st' = [st EXCEPT ![t] = "ready"]
  BY <1>3
<1>5. st[t] = "none" /\ st[current] = "running" /\ current \in Task
  BY <1>1, <1>2, StatusFacts
<1> HIDE DEF st
<1>6. ~Promise!Idle
  BY <1>5 DEF Promise!Idle, st
<1>7. (halted # "no") = FALSE /\ (halted' = "panic" => (halted' # "no") = TRUE)
  BY <1>1
<1> QED
  BY <1>1, <1>2, <1>4, <1>5, <1>6, <1>7 DEF Promise!Start, Promise!Panic, st

\* Yield, usSleep and Wait: the running task stops by its own call.
LEMMA GivesUpImplements ==
  ASSUME Inv, Inv', NEW s, cpu = "task", halted = "no", cpu' = "scan", UNCHANGED current,
         \/ s = "ready" /\ state' = state
         \/ s = "asleep" /\ state' = [state EXCEPT ![current] = "Sleeping"]
         \/ s = "blocked" /\ state' = [state EXCEPT ![current] = "Blocked"]
  PROVE  /\ [t \in Task |-> Status(t)][current] = "running"
         /\ [t \in Task |-> Status(t)]' = [[t \in Task |-> Status(t)] EXCEPT ![current] = s]
<1>1. current \in Task /\ state[current] = "Ready" /\ Status(current) = "running"
  BY StatusFacts
<1>2. \A u \in Task : Status(u)' = IF u = current THEN s ELSE Status(u)
  BY <1>1 DEF Inv, TypeOK, Status
<1> QED
  BY <1>1, <1>2

\* A kernel event releases exactly its waiter.
LEMMA SetImplements ==
  ASSUME Inv, Inv', NEW e \in Event, Set(e), halted' = "no" PROVE Promise!Signal(e)
<1> DEFINE st == [u \in Task |-> Status(u)]
<1>1. /\ halted = "no" /\ e \in KEvent /\ ~bState[e] /\ SetEvent(e, state)
      /\ bState' = [bState EXCEPT ![e] = TRUE]
      /\ UNCHANGED <<current, left, waits, cpu>>
  BY DEF Set, SetEvent, sleepVars
<1>2. \A u \in Task : state[u] = "Blocked" /\ waits[u] = e <=> u = waitTask[e] /\ waitTask[e] # NoTask
  BY TasksAssumption DEF Inv, TypeOK, NoLostWakeup
<1>3. \A u \in Task : state'[u] = IF state[u] = "Blocked" /\ waits[u] = e THEN "Ready" ELSE state[u]
  BY <1>1, <1>2 DEF SetEvent, WakeTask, Inv, TypeOK, NoLostWakeup
<1>4. \A u \in Task : Status(u)' = IF Status(u) = "blocked" /\ waits[u] = e THEN "ready" ELSE Status(u)
  BY <1>1, <1>3, StatusFacts DEF Inv, TypeOK, Status
<1>5. st' = Promise!Released(e, st)
  BY <1>4 DEF Promise!Released
<1> HIDE DEF st
<1>6. (halted # "no") = FALSE /\ (halted' # "no") = FALSE
  BY <1>1
<1> QED
  BY <1>1, <1>5, <1>6 DEF Promise!Signal, st

\* The end of a task releases the one that waits for it.
LEMMA TerminateImplements ==
  ASSUME Inv, Inv', Terminate, halted' = "no" PROVE Promise!End(current)
<1> DEFINE st == [u \in Task |-> Status(u)]
           ended == [state EXCEPT ![current] = "Terminated"]
<1>1. /\ halted = "no" /\ cpu = "task" /\ cpu' = "scan" /\ current # MainTask
      /\ SetEvent(current, ended)
      /\ bState' = [bState EXCEPT ![current] = TRUE]
      /\ UNCHANGED <<current, left, waits>>
  BY DEF Terminate, Running, CallYield, SetEvent, sleepVars
<1>c. /\ current \in Task /\ current \in Event
      /\ state[current] = "Ready" /\ Status(current) = "running"
  BY <1>1, StatusFacts DEF Event
<1>2. \A u \in Task : state[u] = "Blocked" /\ waits[u] = current
                        <=> u = waitTask[current] /\ waitTask[current] # NoTask
  BY <1>c, TasksAssumption DEF Inv, TypeOK, NoLostWakeup
<1>w. \A u \in Task : state[u] = "Blocked" /\ waits[u] = current => ~bState[current]
  BY <1>2 DEF Inv, NoLostWakeup
<1>e. /\ ended[current] = "Terminated"
      /\ \A u \in Task : u # current => ended[u] = state[u]
      /\ ended \in [Task -> {"Free", "Ready", "Blocked", "Sleeping", "Terminated"}]
  BY <1>c DEF Inv, TypeOK
<1> HIDE DEF ended
<1>3. \A u \in Task : state'[u] = IF u = current THEN "Terminated"
                                  ELSE IF state[u] = "Blocked" /\ waits[u] = current THEN "Ready"
                                  ELSE state[u]
  <2>1. CASE bState[current] \/ waitTask[current] = NoTask
    BY <2>1, <1>1, <1>2, <1>w, <1>e, <1>c DEF SetEvent, Inv, TypeOK
  <2>2. CASE ~bState[current] /\ waitTask[current] # NoTask
    BY <2>2, <1>1, <1>2, <1>e, <1>c DEF SetEvent, WakeTask, Inv, TypeOK, NoLostWakeup
  <2> QED
    BY <2>1, <2>2, <1>c DEF Inv, TypeOK
<1>4. \A u \in Task : Status(u)' = IF u = current THEN "ended"
                                   ELSE IF Status(u) = "blocked" /\ waits[u] = current THEN "ready"
                                   ELSE Status(u)
  BY <1>1, <1>3, <1>c DEF Inv, TypeOK, Status
<1>5. st' = Promise!Released(current, [st EXCEPT ![current] = "ended"])
  BY <1>4, <1>c DEF Promise!Released
<1>6. st[current] = "running"
  BY <1>c
<1> HIDE DEF st
<1>7. (halted # "no") = FALSE /\ (halted' # "no") = FALSE
  BY <1>1
<1> QED
  BY <1>1, <1>5, <1>6, <1>7 DEF Promise!End, st

\* A pass lets a task run only if it is ready or has slept its time, and
\* only if the event it has waited for is set.
LEMMA DispatchImplements ==
  ASSUME Inv, Inv', LeftExact, WokenExact, NEW n \in Used, Dispatch(n), halted' = "no"
  PROVE  Promise!Run(slot[n])
<1> DEFINE st == [u \in Task |-> Status(u)]
<1> DEFINE t == slot[n]
<1>1. /\ halted = "no" /\ cpu = "scan" /\ cpu' = "task" /\ t # NoTask /\ Runnable(t)
      /\ current' = t
      /\ state' = [state EXCEPT ![t] = "Ready"]
      /\ waits' = [waits EXCEPT ![t] = NoEvent]
      /\ left' = [left EXCEPT ![t] = 0]
      /\ bState' = bState
  BY DEF Dispatch, Found, Stops, Scanning, eventVars
<1>2. t \in Task
  BY <1>1 DEF Inv, TypeOK, Used, Index
<1> HIDE DEF t
<1>3. left[t] = 0
  <2>1. left[t] \in 0 .. MaxSleep
    BY <1>2 DEF Inv, TypeOK
  <2>2. CASE state[t] # "Sleeping"
    BY <2>1, <2>2, <1>2, ClockAssumption DEF LeftExact
  <2>3. CASE state[t] = "Sleeping"
    <3>1. left[t] > 0 => TickDiff(wake[t], ticks) = left[t]
      BY <1>2, <2>3 DEF Inv, SleepExact
    <3>2. Expired(t)
      BY <1>1, <2>3 DEF Runnable
    <3> QED
      BY <2>1, <3>1, <3>2, ClockAssumption DEF Expired
  <2> QED
    BY <2>2, <2>3
<1>4. left' = left
  BY <1>1, <1>2, <1>3 DEF Inv, TypeOK
<1>5. waits[t] # NoEvent => bState[waits[t]]
  BY <1>1, <1>2 DEF Inv, LifeCycle, WokenExact, Runnable
<1>6. Promise!Idle
  BY <1>1, StatusFacts DEF Promise!Idle
<1>7. Status(t) = "ready" \/ Status(t) = "asleep"
  BY <1>1, <1>2, StatusFacts DEF Runnable
<1>8. \A u \in Task : Status(u)' = IF u = t THEN "running" ELSE Status(u)
  BY <1>1, <1>2 DEF Inv, TypeOK, Status
<1>9. st' = [st EXCEPT ![t] = "running"]
  BY <1>8
<1>10. st[t] = "ready" \/ st[t] = "asleep"
  BY <1>2, <1>7
<1> HIDE DEF st
<1>11. (halted # "no") = FALSE /\ (halted' # "no") = FALSE
  BY <1>1
<1> QED
  BY <1>1, <1>3, <1>4, <1>5, <1>6, <1>9, <1>10, <1>11 DEF Promise!Run, st, t

\* Only the memory of a task that has ended is freed.
LEMMA ReapImplements ==
  ASSUME Inv, Inv', NEW n \in Used, Reap(n), halted' = "no" PROVE Promise!Free(slot[n])
<1> DEFINE st == [u \in Task |-> Status(u)]
<1> DEFINE t == slot[n]
<1>1. /\ halted = "no" /\ cpu = "scan" /\ t # NoTask /\ state[t] = "Terminated"
      /\ state' = [state EXCEPT ![t] = "Free"]
      /\ UNCHANGED <<current, left, bState, waits, cpu>>
  BY DEF Reap, Found, Stops, Scanning, eventVars, sleepVars
<1>2. t \in Task
  BY <1>1 DEF Inv, TypeOK, Used, Index
<1> HIDE DEF t
<1>3. Promise!Idle
  BY <1>1, StatusFacts DEF Promise!Idle
<1>4. \A u \in Task : Status(u)' = IF u = t THEN "none" ELSE Status(u)
  BY <1>1, <1>2 DEF Inv, TypeOK, Status
<1>5. st' = [st EXCEPT ![t] = "none"] /\ st[t] = "ended"
  BY <1>1, <1>2, <1>4, StatusFacts
<1> HIDE DEF st
<1>6. (halted # "no") = FALSE /\ (halted' # "no") = FALSE
  BY <1>1
<1> QED
  BY <1>1, <1>3, <1>5, <1>6 DEF Promise!Free, st, t

\* Every step of the scheduler is a step of TaskSystem or changes nothing
\* that TaskSystem shows: a pass that finds no task is invisible.
LEMMA StepImplements ==
  ASSUME Inv, Inv', LeftExact, WokenExact, NoAssertionFails', [Next]_vars
  PROVE  [Promise!Next]_Promise!vars
<1> USE DEF Promise!Next, Promise!Event
<1>a. halted' # "assert" /\ halted' \in {"no", "panic", "assert"}
  BY DEF NoAssertionFails, Inv, TypeOK
<1>e. Promise!Event = Event
  BY DEF Event
<1>1. ASSUME NEW t \in Task, NewTask(t) PROVE Promise!Next
  BY <1>1, NewTaskImplements
<1>2. ASSUME NEW e \in Event, Clear(e) PROVE Promise!Next
  <2> DEFINE st == [u \in Task |-> Status(u)]
  <2>1. /\ halted = "no" /\ cpu = "task" /\ e \in KEvent /\ <<current, e>> \in MayWait
        /\ bState' = [bState EXCEPT ![e] = FALSE]
        /\ UNCHANGED <<state, current, waits, left, cpu, halted>>
    BY <1>2 DEF Clear, Running, sleepVars
  <2>2. st' = st
    BY <2>1 DEF Status
  <2>3. current \in Task /\ st[current] = "running"
    BY <2>1, StatusFacts
  <2> HIDE DEF st
  <2>4. (halted # "no") = FALSE /\ (halted' # "no") = FALSE
    BY <2>1
  <2>5. Promise!Reset(current, e)
    BY <2>1, <2>2, <2>3, <2>4 DEF Promise!Reset, st
  <2> QED
    BY <2>3, <2>5, <1>e
<1>3. ASSUME NEW e \in Event, Set(e) PROVE Promise!Next
  <2>1. halted' = "no"
    BY <1>3, SetInv
  <2> QED
    BY <1>3, <2>1, SetImplements, <1>e
<1>4. CASE Yield
  <2>1. /\ halted = "no" /\ cpu = "task" /\ cpu' = "scan"
        /\ UNCHANGED <<state, current, waits, left, bState, halted>>
    BY <1>4 DEF Yield, Running, CallYield, sleepVars, eventVars
  <2>2. (halted # "no") = FALSE /\ (halted' # "no") = FALSE
    BY <2>1
  <2>3. Promise!Pause(current)
    BY <2>1, <2>2, GivesUpImplements DEF Promise!Pause
  <2> QED
    BY <2>3, <2>1, StatusFacts
<1>5. ASSUME NEW n \in 1 .. MaxSleep, UsSleep(n) PROVE Promise!Next
  <2>1. /\ halted = "no" /\ cpu = "task" /\ cpu' = "scan"
        /\ state' = [state EXCEPT ![current] = "Sleeping"]
        /\ left' = [left EXCEPT ![current] = n]
        /\ UNCHANGED <<current, waits, bState, halted>>
    BY <1>5 DEF UsSleep, Running, CallYield, eventVars
  <2>2. (halted # "no") = FALSE /\ (halted' # "no") = FALSE
    BY <2>1
  <2>3. Promise!Sleep(current, n)
    BY <2>1, <2>2, GivesUpImplements DEF Promise!Sleep
  <2> QED
    BY <2>3, <2>1, StatusFacts
<1>6. ASSUME NEW e \in Event, Wait(e) PROVE Promise!Next
  <2>1. halted' = "no"
    BY <1>6, WaitInv
  <2>2. /\ halted = "no" /\ cpu = "task" /\ cpu' = "scan"
        /\ <<current, e>> \in MayWait /\ ~bState[e]
        /\ state' = [state EXCEPT ![current] = "Blocked"]
        /\ waits' = [waits EXCEPT ![current] = e]
        /\ UNCHANGED <<current, left, bState, halted>>
    BY <1>6, <2>1 DEF Wait, Running, CallYield, sleepVars
  <2>3. (halted # "no") = FALSE /\ (halted' # "no") = FALSE
    BY <2>2
  <2>4. Promise!Wait(current, e)
    BY <2>2, <2>3, GivesUpImplements DEF Promise!Wait
  <2> QED
    BY <2>2, <2>4, StatusFacts, <1>e
<1>7. CASE Terminate
  <2>1. halted' = "no" /\ current \in Task
    BY <1>7, TerminateInv DEF Inv, TypeOK
  <2> QED
    BY <1>7, <2>1, TerminateImplements
<1>8. ASSUME NEW n \in Used, Dispatch(n) PROVE Promise!Next
  <2>1. halted' = "no"
    BY <1>8, <1>a DEF Dispatch
  <2>2. slot[n] \in Task
    BY <1>8 DEF Dispatch, Found, Stops, Inv, TypeOK, Used, Index
  <2> QED
    BY <1>8, <2>1, <2>2, DispatchImplements
<1>9. ASSUME NEW n \in Used, Reap(n) PROVE Promise!Next
  <2>1. halted' = "no"
    BY <1>9, ReapInv DEF Inv
  <2>2. slot[n] \in Task
    BY <1>9 DEF Reap, Found, Stops, Inv, TypeOK, Used, Index
  <2> QED
    BY <1>9, <2>1, <2>2, ReapImplements
<1>10. CASE Tick
  <2>1. /\ halted = "no" /\ left' = [t \in Task |-> IF left[t] > 0 THEN left[t] - 1 ELSE 0]
        /\ UNCHANGED <<state, current, waits, bState, cpu, halted>>
    BY <1>10 DEF Tick, eventVars
  <2>2. [u \in Task |-> Status(u)]' = [u \in Task |-> Status(u)]
    BY <2>1 DEF Status
  <2>3. Promise!Pass
    BY <2>1, <2>2 DEF Promise!Pass
  <2> QED
    BY <2>3
<1>11. CASE FindNone \/ HaltLoop \/ UNCHANGED vars
  <2>1. UNCHANGED <<state, current, waits, left, bState, cpu, halted>>
    <3>1. CASE FindNone
      BY <3>1, FindNoneInv DEF FindNone, Scanning, sleepVars, eventVars
    <3>2. CASE HaltLoop \/ UNCHANGED vars
      BY <3>2 DEF HaltLoop, vars
    <3> QED
      BY <1>11, <3>1, <3>2
  <2>2. [u \in Task |-> Status(u)]' = [u \in Task |-> Status(u)]
    BY <2>1 DEF Status
  <2> QED
    BY <2>1, <2>2 DEF Promise!vars
<1> QED
  BY <1>1, <1>2, <1>3, <1>4, <1>5, <1>6, <1>7, <1>8, <1>9, <1>10, <1>11
  DEF Next, GiveUpCPU, Scan

\* The scheduler keeps the promises of TaskSystem, when tasks wait for kernel
\* events only: its table, its scan, the registered waiters and the wrapping
\* clock show nothing that the abstract system would not do.
THEOREM SchedulerImplements ==
  ASSUME MayWait \subseteq Task \X KEvent PROVE Spec => Implements
<1>1. Init => WokenExact /\ NoAssertionFails /\ LeftExact
  BY DEF Init, WokenExact, NoAssertionFails, LeftExact
<1>2. Inv /\ TypeOK' /\ (WokenExact /\ NoAssertionFails) /\ [Next]_vars
        => (WokenExact /\ NoAssertionFails)'
  BY WokenStep
<1>3. Inv /\ TypeOK' /\ LeftExact /\ [Next]_vars => LeftExact'
  BY LeftStep
<1>4. Init => Promise!Init
  BY TasksAssumption DEF Init, Status, Promise!Init, Promise!Event, Event
<1>5. Inv /\ Inv' /\ LeftExact /\ WokenExact /\ NoAssertionFails' /\ [Next]_vars
        => [Promise!Next]_Promise!vars
  BY StepImplements
<1> QED
  BY <1>1, <1>2, <1>3, <1>4, <1>5, Invariance, TypeCorrect, PTL DEF Spec, Implements, Promise!Spec
=============================================================================
