------------------------------ MODULE MainLoop ------------------------------
(***************************************************************************)
(* CKernel::Run: the main task of PegasOS.  Every turn of its loop clears  *)
(* m_Event, starts a kernel timer whose handler sets it, and waits for it; *)
(* the reboot and power commands and Ctrl-Alt-Del, all of them executed in *)
(* interrupt context, end the loop through m_ShutdownMode.                 *)
(*                                                                         *)
(* The event and the scheduler are those of module SyncEvent.  Of the      *)
(* kernel timers only their number is kept: module KernelTimer says when   *)
(* each of them fires.  The other tasks of PegasOS (CScreenTask,           *)
(* CPrimeTask, CLEDTask) give up the CPU with Yield and MsSleep and wait   *)
(* for no event.                                                           *)
(***************************************************************************)
EXTENDS Naturals

CONSTANTS
  Task, NoTask,   \* as in SyncEvent
  Main            \* the main task

VARIABLES
  pc, cpu, state, bState, waitTask, failed,   \* as in SyncEvent
  asleep,        \* the tasks in MsSleep whose time has not come
  line,          \* the statement of Run the main task is at
  timers,        \* the kernel timers started by Run that have not fired
  shutdownMode,  \* CKernel::m_ShutdownMode
  returned,      \* what Run has returned
  missed         \* (history) the timer handler has interrupted Wait after its
                 \* test of the event and before the main task was suspended

Event == INSTANCE SyncEvent

ASSUME MainAssumption == Main \in Task /\ NoTask \notin Task

loopVars == <<asleep, line, timers, shutdownMode, returned, missed>>
vars == <<pc, cpu, state, bState, waitTask, failed, asleep, line, timers, shutdownMode, returned, missed>>

Line == {"test",       \* the condition of the loop
         "body",       \* UpdateLEDs, Rotor, MsDelay, Write
         "clear",      \* m_Event.Clear ()
         "start",      \* m_Timer.StartKernelTimer ()
         "wait",       \* m_Event.Wait ()
         "return",     \* the loop has ended
         "returned"}
Mode == {"None", "Halt", "Reboot"}

TypeOK ==
  /\ Event!TypeOK
  /\ asleep \subseteq Task \ {Main}
  /\ line \in Line
  /\ timers \in Nat
  /\ shutdownMode \in Mode
  /\ returned \in Mode
  /\ missed \in BOOLEAN

Init ==
  /\ Event!Init
  /\ cpu = Main
  /\ asleep = {}
  /\ line = "test"
  /\ timers = 0
  /\ shutdownMode = "None"
  /\ returned = "None"
  /\ missed = FALSE

RunAt(l) == line = l /\ Event!At(Main, "run")

BugTestModeReboot ==
  /\ RunAt("test")
  /\ line' = IF shutdownMode # "Reboot" THEN "body" ELSE "return"
  /\ UNCHANGED <<pc, cpu, state, bState, waitTask, failed, asleep, timers, shutdownMode, returned, missed>>

\* The condition of the loop.
TestMode ==
  /\ RunAt("test")
  /\ line' = IF shutdownMode = "None" THEN "body" ELSE "return"
  /\ UNCHANGED <<pc, cpu, state, bState, waitTask, failed, asleep, timers, shutdownMode, returned, missed>>

\* 100 ms and more of work that changes nothing of this.
Body ==
  /\ RunAt("body")
  /\ line' = "clear"
  /\ UNCHANGED <<pc, cpu, state, bState, waitTask, failed, asleep, timers, shutdownMode, returned, missed>>

BugClearNotAtAll ==
  /\ RunAt("clear")
  /\ line' = "start"
  /\ UNCHANGED <<pc, cpu, state, bState, waitTask, failed, asleep, timers, shutdownMode, returned, missed>>

ClearEvent ==
  /\ RunAt("clear")
  /\ Event!Clear(Main)
  /\ line' = "start"
  /\ UNCHANGED <<asleep, timers, shutdownMode, returned, missed>>

BugStartFails ==
  /\ RunAt("start")
  /\ line' = "wait"
  /\ UNCHANGED <<pc, cpu, state, bState, waitTask, failed, asleep, timers, shutdownMode, returned, missed>>

StartTimer ==
  /\ RunAt("start")
  /\ timers' = timers + 1
  /\ line' = "wait"
  /\ UNCHANGED <<pc, cpu, state, bState, waitTask, failed, asleep, shutdownMode, returned, missed>>

\* Wait, on an event that is set already.
SkipWait ==
  /\ RunAt("wait")
  /\ bState[Main]
  /\ line' = "test"
  /\ UNCHANGED <<pc, cpu, state, bState, waitTask, failed, asleep, timers, shutdownMode, returned, missed>>

\* Wait, on an event that is not set: Event!Test up to Event!Return.
WaitStep ==
  /\ line = "wait"
  /\ Event!TaskStep(Main)
  /\ line' = IF pc[Main] = "resume" THEN "test" ELSE line
  /\ UNCHANGED <<asleep, timers, shutdownMode, returned, missed>>

\* f_mount (0) and return m_ShutdownMode, which is read a second time here.
Return ==
  /\ RunAt("return")
  /\ returned' = shutdownMode
  /\ line' = "returned"
  /\ UNCHANGED <<pc, cpu, state, bState, waitTask, failed, asleep, timers, shutdownMode, missed>>

\* Another task calls Yield or MsSleep.
GiveUp(t) ==
  /\ Event!Pause(t)
  /\ asleep' \in {asleep, asleep \cup {t}}
  /\ UNCHANGED <<line, timers, shutdownMode, returned, missed>>

\* The time of a sleeping task comes.
Awake(t) ==
  /\ ~failed
  /\ t \in asleep
  /\ asleep' = asleep \ {t}
  /\ UNCHANGED <<pc, cpu, state, bState, waitTask, failed, line, timers, shutdownMode, returned, missed>>

\* The scheduler finds a task that is ready or whose time has come.
Resume(t) == t \notin asleep /\ Event!Dispatch(t) /\ UNCHANGED loopVars

\* A timer of Run fires: TimerHandler calls Set, in interrupt context.  Nothing
\* keeps it out of Wait but the half second the timer runs.
TimerHandler ==
  /\ timers > 0
  /\ timers' = timers - 1
  /\ missed' = (missed \/ pc[Main] \in {"check", "store", "mark"})
  /\ \/ ~bState[Main] /\ Event!IrqSet(Main)
     \/ bState[Main] /\ ~failed /\ UNCHANGED <<pc, cpu, state, bState, waitTask, failed>>
  /\ UNCHANGED <<asleep, line, shutdownMode, returned>>

\* ShutdownHandler, SystemReboot and SystemOff, from the keyboard interrupt.
Shutdown(mode) ==
  /\ ~failed
  /\ line # "returned"
  /\ shutdownMode' = mode
  /\ UNCHANGED <<pc, cpu, state, bState, waitTask, failed, asleep, line, timers, returned, missed>>

\* main () halts or reboots, a failed assertion halts.
Stop == (line = "returned" \/ failed) /\ UNCHANGED vars

Next ==
  /\ line # "returned"
  /\ \/ TestMode \/ Body \/ ClearEvent \/ StartTimer \/ SkipWait \/ WaitStep \/ Return
     \/ TimerHandler
     \/ \E t \in Task \ {Main} : GiveUp(t) \/ Awake(t)
     \/ \E t \in Task : Resume(t)
     \/ \E mode \in Mode \ {"None"} : Shutdown(mode)

\* The main task computes while it has the CPU, the others yield it, every
\* ready task gets it again (Scheduler), and a started timer fires
\* (KernelTimer); nobody need ever ask for a shutdown.
Fairness ==
  /\ WF_vars(TestMode \/ Body \/ ClearEvent \/ StartTimer \/ SkipWait \/ WaitStep \/ Return)
  /\ WF_vars(TimerHandler)
  /\ \A t \in Task \ {Main} : WF_vars(GiveUp(t)) /\ WF_vars(Awake(t))
  /\ \A t \in Task : SF_vars(Resume(t))

Spec == Init /\ [][Next \/ Stop]_vars
FairSpec == Spec /\ Fairness

-----------------------------------------------------------------------------
(* Properties.                                                              *)

\* While the main task waits, its wake-up is on its way: exactly one timer is
\* running or the event is set, never neither (it would sleep for ever) and
\* never both (the timer would cut the next turn short).  Once suspended it
\* waits for a running timer, and no assertion of Wait and WakeTask fails; both
\* unless the timer has fired inside Wait, before the suspension.
WakeupPending ==
  /\ failed => missed
  /\ ~failed =>
       /\ timers <= 1
       /\ line = "wait" => (timers = 1 <=> ~bState[Main])
       /\ line # "wait" => timers = 0
       /\ state[Main] = "Blocked" => timers = 1 \/ missed

\* While the loop runs, the registered waiter of its event is the main task,
\* blocked or just about to block, and no interrupt finds another one.
WaiterExact == Event!WaiterExact

\* Only the two gaps inside Wait lose the wake-up of the main task or fail an
\* assertion: the timer handler between the test of m_bState and the store of
\* m_pWaitTask, and between that store and the marking as blocked.
LostOnlyInWindow == Event!LostOnlyInWindow

\* The loop goes on for ever unless a shutdown is asked for or the timer has
\* fired inside Wait (see SyncEvent!Lost).
LoopTurns == []<>(line = "clear" \/ shutdownMode # "None" \/ missed)

\* A reboot or power-off asked for at any moment ends Run, with a mode that
\* main () acts on, under the same condition.
ShutdownEnds == (shutdownMode # "None") ~> (returned # "None" \/ missed)
=============================================================================
