--------------------------- MODULE MainLoopProofs ---------------------------
(* Proofs about MainLoop and the event it waits for (module SyncEvent), for  *)
(* any number of tasks and interrupts at any place: a wake-up is lost only   *)
(* in the window that TLC shows it lost in, and outside of it the main task  *)
(* is never left waiting without a wake-up on its way.                       *)
EXTENDS MainLoop, TLAPS

-----------------------------------------------------------------------------
(* Events.                                                                   *)

\* What the place of a task says about its state and the waiter of its event;
\* its event may be set at any place, except where Wait relies on it.
EventPlaces ==
  \A t \in Task :
    /\ pc[t] \in {"run", "resume"} => state[t] = "Ready" /\ waitTask[t] = NoTask
    /\ pc[t] = "resume" => bState[t]
    /\ pc[t] \in {"check", "store", "mark"} => state[t] = "Ready" /\ cpu = t
    /\ pc[t] \in {"check", "store"} => waitTask[t] = NoTask
    /\ pc[t] = "mark" => waitTask[t] = t
    /\ pc[t] = "yield" => /\ cpu # t
                          /\ \/ state[t] = "Blocked" /\ waitTask[t] = t
                             \/ state[t] = "Ready" /\ bState[t] /\ waitTask[t] = NoTask

EventInv == Event!TypeOK /\ (~failed => EventPlaces)

\* What LostOnlyInWindow says of a step.
LosesInWindow ==
  /\ \A t \in Task : ~Event!Lost(t) /\ Event!Lost(t)' /\ ~failed' =>
       pc[t] \in {"check", "store"} /\ Event!IrqSet(t)
  /\ ~failed /\ failed' => \E t \in Task : pc[t] = "mark" /\ Event!IrqSet(t)

LEMMA EventInitInv == Event!Init => EventInv
  BY MainAssumption DEF Event!Init, EventInv, Event!TypeOK, EventPlaces, Event!Place

\* Set from an interrupt: by the place of the task.
LEMMA IrqSetStep ==
  ASSUME EventInv, NEW t \in Task, Event!IrqSet(t)
  PROVE  EventInv' /\ LosesInWindow
<1> USE MainAssumption DEF EventInv
<1>1. /\ ~failed /\ ~bState[t] /\ pc' = pc /\ cpu' = cpu
      /\ bState' = [bState EXCEPT ![t] = TRUE]
  BY DEF Event!IrqSet
<1>2. Event!TypeOK /\ EventPlaces
  BY <1>1
<1>3. pc[t] \in {"run", "resume", "check", "store", "mark", "yield"}
  BY <1>2 DEF Event!TypeOK, Event!Place
<1>4. CASE pc[t] \in {"run", "resume", "check", "store"}
  <2>1. UNCHANGED <<waitTask, state, failed>>
    BY <1>2, <1>4 DEF Event!IrqSet, EventPlaces
  <2>2. EventInv'
    BY <1>1, <1>2, <1>4, <2>1 DEF Event!TypeOK, EventPlaces
  <2>3. ASSUME NEW x \in Task, ~Event!Lost(x), Event!Lost(x)'
        PROVE  pc[x] \in {"check", "store"} /\ Event!IrqSet(x)
    BY <1>1, <1>2, <1>4, <2>1, <2>3 DEF Event!TypeOK, Event!Lost
  <2> QED
    BY <1>1, <2>1, <2>2, <2>3 DEF LosesInWindow
<1>5. CASE pc[t] = "mark"
  <2>1. waitTask[t] = t /\ waitTask[t] # NoTask /\ state[t] # "Blocked"
    BY <1>2, <1>5 DEF EventPlaces
  <2>2. failed' = TRUE /\ state' = state /\ waitTask' = [waitTask EXCEPT ![t] = NoTask]
    BY <2>1 DEF Event!IrqSet, Event!Wake
  <2>3. EventInv'
    BY <1>1, <1>2, <2>2 DEF Event!TypeOK
  <2> QED
    BY <1>5, <2>2, <2>3 DEF LosesInWindow
<1>6. CASE pc[t] = "yield"
  <2>1. waitTask[t] = t /\ waitTask[t] # NoTask /\ state[t] = "Blocked"
    BY <1>1, <1>2, <1>6 DEF EventPlaces
  <2>2. /\ waitTask' = [waitTask EXCEPT ![t] = NoTask]
        /\ state' = [state EXCEPT ![t] = "Ready"]
        /\ failed' = failed
    BY <2>1 DEF Event!IrqSet, Event!Wake
  <2>3. EventInv'
    BY <1>1, <1>2, <1>6, <2>2 DEF Event!TypeOK, EventPlaces
  <2>4. ASSUME NEW x \in Task, ~Event!Lost(x) PROVE ~Event!Lost(x)'
    BY <1>1, <1>2, <1>6, <2>2, <2>4 DEF Event!TypeOK, Event!Lost
  <2> QED
    BY <1>1, <2>2, <2>3, <2>4 DEF LosesInWindow
<1> QED
  BY <1>3, <1>4, <1>5, <1>6

LEMMA EventStep ==
  ASSUME EventInv, [Event!Next]_(Event!vars)
  PROVE  EventInv' /\ [LosesInWindow]_(Event!vars)
<1> USE MainAssumption DEF EventInv
<1> DEFINE Goal == EventInv' /\ LosesInWindow
<1>1. ASSUME NEW t \in Task, Event!Clear(t) PROVE Goal
  BY <1>1 DEF Event!Clear, Event!At, Event!TypeOK, EventPlaces, LosesInWindow, Event!Lost
<1>2. ASSUME NEW t \in Task, Event!Test(t) PROVE Goal
  BY <1>2 DEF Event!Test, Event!At, Event!Goto, Event!TypeOK, EventPlaces, Event!Place, LosesInWindow, Event!Lost
<1>3. ASSUME NEW t \in Task, Event!Check(t) PROVE Goal
  BY <1>3 DEF Event!Check, Event!At, Event!Goto, Event!TypeOK, EventPlaces, Event!Place, LosesInWindow, Event!Lost
<1>4. ASSUME NEW t \in Task, Event!Store(t) PROVE Goal
  BY <1>4 DEF Event!Store, Event!At, Event!Goto, Event!TypeOK, EventPlaces, Event!Place, LosesInWindow, Event!Lost
<1>5. ASSUME NEW t \in Task, Event!Mark(t) PROVE Goal
  BY <1>5 DEF Event!Mark, Event!At, Event!Goto, Event!TypeOK, EventPlaces, Event!Place, LosesInWindow, Event!Lost
<1>6. ASSUME NEW t \in Task, Event!Return(t) PROVE Goal
  BY <1>6 DEF Event!Return, Event!At, Event!Goto, Event!TypeOK, EventPlaces, Event!Place, LosesInWindow, Event!Lost
<1>7. ASSUME NEW t \in Task, Event!Pause(t) PROVE Goal
  BY <1>7 DEF Event!Pause, Event!At, Event!TypeOK, EventPlaces, LosesInWindow, Event!Lost
<1>8. ASSUME NEW t \in Task, Event!Dispatch(t) PROVE Goal
  BY <1>8 DEF Event!Dispatch, Event!TypeOK, EventPlaces, Event!Place, LosesInWindow, Event!Lost
<1>9. CASE Event!Idle \/ UNCHANGED Event!vars
  <2>1. UNCHANGED Event!vars
    BY <1>9 DEF Event!Idle
  <2>2. EventInv'
    BY <2>1 DEF Event!vars, Event!TypeOK, EventPlaces
  <2> QED
    BY <2>1, <2>2
<1> QED
  BY <1>1, <1>2, <1>3, <1>4, <1>5, <1>6, <1>7, <1>8, <1>9, IrqSetStep DEF Event!Next, Event!TaskStep

\* With any number of tasks and interrupts that set events at any place, a
\* wake-up is lost only by a Set between Wait's test and its store, and an
\* assertion of Wait or WakeTask fails only by a Set between store and mark.
THEOREM EventLosesInWindow == Event!Spec => Event!LostOnlyInWindow
<1>1. EventInv /\ [Event!Next]_(Event!vars) => EventInv'
  BY EventStep
<1>2. EventInv /\ [Event!Next]_(Event!vars) => [LosesInWindow]_(Event!vars)
  BY EventStep
<1> QED
  BY <1>1, <1>2, EventInitInv, PTL DEF Event!Spec, Event!LostOnlyInWindow, LosesInWindow

\* With any number of tasks and interrupts that set events at any place, the
\* registered waiter of an event is its owner, blocked or just about to block.
THEOREM EventWaiterExact == Event!Spec => []Event!WaiterExact
<1>1. EventInv /\ [Event!Next]_(Event!vars) => EventInv'
  BY EventStep
<1>2. EventInv => Event!WaiterExact
  <2> SUFFICES ASSUME EventInv, ~failed, NEW t \in Task
               PROVE  /\ waitTask[t] \in {t, NoTask}
                      /\ waitTask[t] = t <=> pc[t] = "mark" \/ (pc[t] = "yield" /\ state[t] = "Blocked")
                      /\ state[t] = "Blocked" => pc[t] = "yield" /\ cpu # t
    BY DEF Event!WaiterExact
  <2>1. pc[t] \in {"run", "resume", "check", "store", "mark", "yield"} /\ t # NoTask
    BY MainAssumption DEF EventInv, Event!TypeOK, Event!Place
  <2> QED
    BY <2>1 DEF EventInv, EventPlaces
<1> QED
  BY <1>1, <1>2, EventInitInv, PTL DEF Event!Spec

-----------------------------------------------------------------------------
(* The main loop.                                                            *)

\* The other tasks wait for no event.
OthersRun == \A t \in Task \ {Main} : pc[t] = "run" /\ state[t] = "Ready" /\ waitTask[t] = NoTask

\* What the place of the main task inside Wait says about its event; it is
\* inside Wait only when Run is at the call.
MainPlaces ==
  /\ line # "wait" => pc[Main] = "run"
  /\ pc[Main] \in {"run", "check", "store"} => state[Main] = "Ready" /\ waitTask[Main] = NoTask
  /\ pc[Main] = "resume" => bState[Main] /\ state[Main] = "Ready" /\ waitTask[Main] = NoTask
  /\ pc[Main] = "mark" => state[Main] = "Ready" /\ waitTask[Main] = Main
  /\ pc[Main] \in {"check", "store", "mark"} => ~bState[Main] \/ missed
  /\ pc[Main] = "yield" => cpu # Main
  /\ pc[Main] = "yield" => \/ state[Main] = "Blocked" /\ (~bState[Main] \/ missed) /\ waitTask[Main] = Main
                           \/ state[Main] = "Ready" /\ bState[Main] /\ waitTask[Main] = NoTask

\* Where Run is, against its timer and the event.
Turn ==
  /\ timers \in {0, 1}
  /\ line = "wait" => (timers = 1 <=> ~bState[Main])
  /\ line # "wait" => timers = 0
  /\ line = "start" => ~bState[Main]

Inv ==
  /\ TypeOK
  /\ failed => missed
  /\ ~failed => OthersRun /\ MainPlaces /\ Turn

LEMMA InitInv == Init => Inv
<1> SUFFICES ASSUME Init PROVE Inv
  OBVIOUS
<1> USE MainAssumption DEF Init, Event!Init
<1>1. TypeOK
  BY DEF TypeOK, Line, Mode, Event!TypeOK, Event!Place
<1>2. OthersRun
  BY DEF OthersRun
<1>3. pc[Main] = "run" /\ state[Main] = "Ready" /\ waitTask[Main] = NoTask
  OBVIOUS
<1>4. MainPlaces
  BY <1>3 DEF MainPlaces
<1>5. Turn
  BY DEF Turn
<1> QED
  BY <1>1, <1>2, <1>4, <1>5 DEF Inv

\* The timer fires: by the place of the main task.
LEMMA TimerHandlerInv == ASSUME Inv, TimerHandler PROVE Inv'
<1> USE MainAssumption DEF Inv
<1>1. ~failed
  BY DEF TimerHandler, Event!IrqSet
<1>2. TypeOK /\ OthersRun /\ MainPlaces /\ Turn
  BY <1>1
<1>3. timers = 1 /\ line = "wait" /\ ~bState[Main]
  BY <1>2 DEF TimerHandler, TypeOK, Turn, Event!TypeOK
<1>4. /\ bState' = [bState EXCEPT ![Main] = TRUE]
      /\ timers' = 0
      /\ missed' = (missed \/ pc[Main] \in {"check", "store", "mark"})
      /\ UNCHANGED <<pc, cpu, asleep, line, shutdownMode, returned>>
  BY <1>3 DEF TimerHandler, Event!IrqSet
<1>5. missed' \in BOOLEAN /\ (missed => missed')
  BY <1>2, <1>4 DEF TypeOK
<1>6. pc[Main] \in {"run", "resume", "check", "store", "mark", "yield"}
  BY <1>2 DEF TypeOK, Event!TypeOK, Event!Place
<1>7. CASE pc[Main] \in {"run", "resume", "check", "store"}
  <2>1. waitTask[Main] = NoTask
    BY <1>2, <1>7 DEF MainPlaces
  <2>2. UNCHANGED <<waitTask, state, failed>>
    BY <1>3, <2>1 DEF TimerHandler, Event!IrqSet
  <2>3. TypeOK'
    BY <1>2, <1>4, <1>5, <2>2 DEF TypeOK, Event!TypeOK
  <2>4. OthersRun'
    BY <1>2, <1>4, <2>2 DEF OthersRun
  <2>5. bState'[Main] = TRUE
    BY <1>2, <1>4 DEF TypeOK, Event!TypeOK
  <2>6. MainPlaces'
    BY <1>2, <1>3, <1>4, <1>7, <2>2, <2>5 DEF MainPlaces
  <2>7. Turn'
    BY <1>3, <1>4, <2>5 DEF Turn
  <2> QED
    BY <1>1, <2>2, <2>3, <2>4, <2>6, <2>7
<1>8. CASE pc[Main] = "mark"
  <2>1. waitTask[Main] = Main /\ waitTask[Main] # NoTask /\ state[Main] # "Blocked"
    BY <1>2, <1>8 DEF MainPlaces
  <2>2. failed' = TRUE /\ state' = state /\ waitTask' = [waitTask EXCEPT ![Main] = NoTask]
    BY <1>3, <2>1 DEF TimerHandler, Event!IrqSet, Event!Wake
  <2> QED
    BY <1>2, <1>4, <1>8, <2>2 DEF TypeOK, Event!TypeOK
<1>9. CASE pc[Main] = "yield"
  <2>1. waitTask[Main] = Main /\ state[Main] = "Blocked"
    BY <1>2, <1>3, <1>9 DEF MainPlaces
  <2>2. /\ waitTask' = [waitTask EXCEPT ![Main] = NoTask]
        /\ state' = [state EXCEPT ![Main] = "Ready"]
        /\ failed' = failed
    BY <1>3, <2>1 DEF TimerHandler, Event!IrqSet, Event!Wake
  <2> QED
    BY <1>2, <1>3, <1>4, <1>5, <1>9, <2>2 DEF TypeOK, Event!TypeOK, OthersRun, MainPlaces, Turn
<1> QED
  BY <1>6, <1>7, <1>8, <1>9

LEMMA StepInv ==
  ASSUME Inv, [Next \/ Stop]_vars
  PROVE  Inv'
<1> USE MainAssumption DEF Inv
<1> USE DEF Event!At, Event!Goto, Event!TypeOK, Event!Place
<1>1. CASE TestMode \/ Body \/ SkipWait \/ Return
  BY <1>1 DEF TestMode, Body, SkipWait, Return, RunAt, TypeOK, OthersRun, MainPlaces, Turn, Line, Mode
<1>2. CASE ClearEvent
  BY <1>2 DEF ClearEvent, RunAt, Event!Clear, TypeOK, OthersRun, MainPlaces, Turn, Line
<1>3. CASE StartTimer
  BY <1>3 DEF StartTimer, RunAt, TypeOK, OthersRun, MainPlaces, Turn, Line
<1>4. CASE WaitStep
  <2> USE <1>4 DEF WaitStep, TypeOK, OthersRun, MainPlaces, Turn, Line
  <2>1. CASE Event!Test(Main)
    BY <2>1 DEF Event!Test
  <2>2. CASE Event!Check(Main)
    BY <2>2 DEF Event!Check
  <2>3. CASE Event!Store(Main)
    BY <2>3 DEF Event!Store
  <2>4. CASE Event!Mark(Main)
    BY <2>4 DEF Event!Mark
  <2>5. CASE Event!Return(Main)
    BY <2>5 DEF Event!Return
  <2> QED
    BY <2>1, <2>2, <2>3, <2>4, <2>5 DEF Event!TaskStep
<1>5. CASE TimerHandler
  BY <1>5, TimerHandlerInv
<1>6. ASSUME NEW t \in Task \ {Main}, GiveUp(t) PROVE Inv'
  BY <1>6 DEF GiveUp, Event!Pause, TypeOK, OthersRun, MainPlaces, Turn
<1>7. ASSUME NEW t \in Task \ {Main}, Awake(t) PROVE Inv'
  BY <1>7 DEF Awake, TypeOK, OthersRun, MainPlaces, Turn
<1>8. ASSUME NEW t \in Task, Resume(t) PROVE Inv'
  <2>1. CASE t = Main
    BY <1>8, <2>1 DEF Resume, loopVars, Event!Dispatch, TypeOK, OthersRun, MainPlaces, Turn
  <2>2. CASE t # Main
    BY <1>8, <2>2 DEF Resume, loopVars, Event!Dispatch, TypeOK, OthersRun, MainPlaces, Turn
  <2> QED
    BY <2>1, <2>2
<1>9. ASSUME NEW mode \in Mode \ {"None"}, Shutdown(mode) PROVE Inv'
  BY <1>9 DEF Shutdown, TypeOK, OthersRun, MainPlaces, Turn
<1>10. CASE Stop \/ UNCHANGED vars
  BY <1>10 DEF Stop, vars, TypeOK, OthersRun, MainPlaces, Turn
<1> QED
  BY <1>1, <1>2, <1>3, <1>4, <1>5, <1>6, <1>7, <1>8, <1>9, <1>10 DEF Next

\* Whatever the other tasks do and wherever the timer fires: at most one timer
\* runs, and only before the event is set; and the main task is suspended with
\* its timer running, unless that fired inside Wait before the suspension.
THEOREM MainNeverStranded == Spec => [](TypeOK /\ WakeupPending)
<1>1. Inv /\ [Next \/ Stop]_vars => Inv'
  BY StepInv
<1>2. Inv => TypeOK /\ WakeupPending
  BY MainAssumption DEF Inv, TypeOK, MainPlaces, Turn, WakeupPending, Event!TypeOK, Event!Place
<1> QED
  BY <1>1, <1>2, InitInv, PTL DEF Spec

\* Of the event, the steps of the main loop and of the tasks beside it are the
\* steps of SyncEvent that own it, and no others.
LEMMA LoopIsEventStep ==
  ASSUME [Next \/ Stop]_vars
  PROVE  [Event!Next]_(Event!vars)
<1> USE MainAssumption DEF Event!vars
<1>1. CASE TestMode \/ Body \/ StartTimer \/ SkipWait \/ Return \/ Stop \/ UNCHANGED vars
  BY <1>1 DEF TestMode, Body, StartTimer, SkipWait, Return, Stop, vars
<1>2. CASE ClearEvent
  BY <1>2 DEF ClearEvent, Event!Next
<1>3. CASE WaitStep
  BY <1>3 DEF WaitStep, Event!Next
<1>4. CASE TimerHandler
  BY <1>4 DEF TimerHandler, Event!Next
<1>5. ASSUME NEW t \in Task \ {Main}, GiveUp(t) PROVE [Event!Next]_(Event!vars)
  BY <1>5 DEF GiveUp, Event!Next
<1>6. ASSUME NEW t \in Task \ {Main}, Awake(t) PROVE [Event!Next]_(Event!vars)
  BY <1>6 DEF Awake
<1>7. ASSUME NEW t \in Task, Resume(t) PROVE [Event!Next]_(Event!vars)
  BY <1>7 DEF Resume, Event!Next
<1>8. ASSUME NEW mode \in Mode \ {"None"}, Shutdown(mode) PROVE [Event!Next]_(Event!vars)
  BY <1>8 DEF Shutdown
<1> QED
  BY <1>1, <1>2, <1>3, <1>4, <1>5, <1>6, <1>7, <1>8 DEF Next

\* The main loop, its timer handler and the tasks beside it use the event as
\* SyncEvent describes it.
THEOREM LoopUsesEvent == Spec => Event!Spec
<1>1. Init => Event!Init
  BY DEF Init
<1>2. [Next \/ Stop]_vars => [Event!Next]_(Event!vars)
  BY LoopIsEventStep
<1> QED
  BY <1>1, <1>2, PTL DEF Spec, Event!Spec

\* In the main loop, with any number of tasks beside it and the timer firing at
\* any place, the waiter registered with an event is its owner.
THEOREM LoopWaiterExact == Spec => []WaiterExact
  BY LoopUsesEvent, EventWaiterExact, PTL DEF WaiterExact

\* In the main loop, with any number of tasks beside it, a wake-up is lost only
\* by the timer firing between Wait's test and its store, and an assertion fails
\* only by the timer firing between store and mark.
THEOREM LoopLosesInWindow == Spec => LostOnlyInWindow
  BY LoopUsesEvent, EventLosesInWindow, PTL DEF LostOnlyInWindow
=============================================================================
