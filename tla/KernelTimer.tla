----------------------------- MODULE KernelTimer -----------------------------
(***************************************************************************)
(* The kernel timers of CTimer: a list of pending timers, sorted by the    *)
(* tick at which they elapse, which the timer interrupt polls HZ times a   *)
(* second.                                                                 *)
(*                                                                         *)
(* Grain.  The list is accessed with interrupts masked, so one critical    *)
(* section is one step.  StartKernelTimer reads m_nTicks before it enters  *)
(* its critical section: ticks may pass in between.  The poll leaves its   *)
(* critical section to call the handler of an elapsed timer, which may     *)
(* start and cancel timers, and then goes on with the next element it has  *)
(* saved before the call.                                                  *)
(***************************************************************************)
EXTENDS Integers, SequencesExt

CONSTANTS
  Timer,       \* addresses of TKernelTimer objects, the timer handles
  NoTimer,     \* the null pointer
  Dangling,    \* a pointer to a list element that was deleted
  TickMod,     \* 2^32: m_nTicks and m_nElapsesAt are unsigned
  Delay,       \* delays passed to StartKernelTimer, in ticks
  HoldBound,   \* bound: ticks that may pass inside StartKernelTimer
  LateBound    \* bound: ticks that a pending timer may be late

Half == TickMod \div 2

ASSUME TimerAssumption ==
  /\ NoTimer \notin Timer /\ Dangling \notin Timer /\ Dangling # NoTimer
  /\ Half \in Nat /\ TickMod = 2 * Half
  /\ HoldBound \in Nat /\ LateBound \in Nat /\ HoldBound < LateBound /\ LateBound < Half
  /\ Delay \subseteq 0 .. Half - 1
  /\ \A d \in Delay : d + LateBound < Half

VARIABLES
  list,       \* m_KernelTimerList: the pending timers in list order
  ticks,      \* m_nTicks
  elapsesAt,  \* TKernelTimer::m_nElapsesAt
  mode,       \* "task": no timer interrupt; "poll": in PollKernelTimers;
              \* "handler": in the handler of the timer "firing"
  firing,
  nextEl,     \* pElement of PollKernelTimers, named by its timer
  draft,      \* a timer a task has set up and not inserted yet
  failed,     \* an assertion failed, the system has halted
  left,       \* (history) ticks from now until the timer is due, at least -Half
  due,        \* (history) pending timers that were due at the last tick
  cut         \* (history) since the last tick a handler has cancelled the timer
              \* of pElement

vars == <<list, ticks, elapsesAt, mode, firing, nextEl, draft, failed, left, due, cut>>

Pending == ToSet(list)
Allocated(t) == t \in Pending \cup {firing, draft}

TypeOK ==
  /\ list \in Seq(Timer)
  /\ ticks \in 0 .. TickMod - 1
  /\ elapsesAt \in [Timer -> 0 .. TickMod - 1]
  /\ mode \in {"task", "poll", "handler"}
  /\ firing \in Timer \cup {NoTimer}
  /\ nextEl \in Timer \cup {NoTimer, Dangling}
  /\ draft \in Timer \cup {NoTimer}
  /\ failed \in BOOLEAN
  /\ left \in [Timer -> Int]
  /\ due \subseteq Timer
  /\ cut \in BOOLEAN

Init ==
  /\ list = <<>>
  /\ ticks \in 0 .. TickMod - 1
  /\ elapsesAt = [t \in Timer |-> 0]
  /\ mode = "task" /\ firing = NoTimer /\ nextEl = NoTimer /\ draft = NoTimer
  /\ failed = FALSE
  /\ left = [t \in Timer |-> 0]
  /\ due = {}
  /\ cut = FALSE

\* Unsigned arithmetic on ticks wraps around; for -TickMod <= n < 2 * TickMod.
Wrap(n) == IF n < 0 THEN n + TickMod ELSE IF n >= TickMod THEN n - TickMod ELSE n

BugAfterUnsigned(a, b) == a > b
BugAfterOffByOne(a, b) == Wrap(a - b) \in 2 .. Half - 1

\* (int) (a - b) > 0
After(a, b) == Wrap(a - b) \in 1 .. Half - 1

\* StartKernelTimer walks to the first element that elapses later.
Position(p, at) ==
  /\ \A i \in 1 .. p - 1 : ~After(elapsesAt[list[i]], at)
  /\ p <= Len(list) => After(elapsesAt[list[p]], at)

Insert(t, at) == \E p \in 1 .. Len(list) + 1 : Position(p, at) /\ list' = InsertAt(list, p, t)

Deadline(d) == Wrap(ticks + d)

\* The saved element if it was deleted and the allocator hands out its memory
\* again for the element of t, and the element of t only then.
Reused(t) == IF nextEl = Dangling THEN {Dangling, t} ELSE {nextEl}

\* StartKernelTimer in an interrupt handler: no tick can pass inside it.
Start(t, d) ==
  /\ ~failed
  /\ mode \in {"task", "handler"}
  /\ ~Allocated(t)
  /\ Insert(t, Deadline(d))
  /\ elapsesAt' = [elapsesAt EXCEPT ![t] = Deadline(d)]
  /\ left' = [left EXCEPT ![t] = d]
  /\ nextEl' \in Reused(t)
  /\ UNCHANGED <<ticks, mode, firing, draft, failed, due, cut>>

\* StartKernelTimer in a task: up to reading m_nTicks ...
StartRead(t, d) ==
  /\ ~failed
  /\ mode = "task"
  /\ draft = NoTimer
  /\ ~Allocated(t)
  /\ draft' = t
  /\ elapsesAt' = [elapsesAt EXCEPT ![t] = Deadline(d)]
  /\ left' = [left EXCEPT ![t] = d]
  /\ UNCHANGED <<list, ticks, mode, firing, nextEl, failed, due, cut>>

\* ... and its critical section.
StartInsert ==
  /\ ~failed
  /\ mode = "task"
  /\ draft # NoTimer
  /\ Insert(draft, elapsesAt[draft])
  /\ draft' = NoTimer
  /\ UNCHANGED <<ticks, elapsesAt, mode, firing, nextEl, failed, left, due, cut>>

\* delete: what the memory of t held no longer matters.
Delete(t) ==
  /\ elapsesAt' = [elapsesAt EXCEPT ![t] = 0]
  /\ left' = [left EXCEPT ![t] = 0]

\* CancelKernelTimer; it does nothing if it does not find the timer.
Cancel(t) ==
  /\ ~failed
  /\ mode \in {"task", "handler"}
  /\ \E i \in DOMAIN list : list[i] = t /\ list' = RemoveAt(list, i)
  /\ nextEl' = IF nextEl = t THEN Dangling ELSE nextEl
  /\ due' = due \ {t}
  /\ cut' = (cut \/ nextEl = t)
  /\ Delete(t)
  /\ UNCHANGED <<ticks, mode, firing, draft, failed>>

BugElementAt(i) == IF i < Len(list) THEN list[i + 1] ELSE NoTimer

\* The list element at position i, the null pointer behind the last one.
ElementAt(i) == IF i <= Len(list) THEN list[i] ELSE NoTimer

\* InterruptHandler: ++m_nTicks, then PollKernelTimers begins.
Tick ==
  /\ ~failed
  /\ mode = "task"
  /\ draft # NoTimer => left[draft] > -HoldBound
  /\ \A t \in Pending : left[t] > -LateBound
  /\ cut' = FALSE
  /\ ticks' = Wrap(ticks + 1)
  /\ left' = [t \in Timer |-> IF Allocated(t) /\ left[t] > -Half THEN left[t] - 1 ELSE left[t]]
  /\ due' = {t \in Pending : left'[t] <= 0}
  /\ mode' = "poll"
  /\ nextEl' = ElementAt(1)
  /\ UNCHANGED <<list, elapsesAt, firing, draft, failed>>

BugSuccessorNone(i) == NoTimer

\* pNextElement, read before the element at position i is removed.
Successor(i) == ElementAt(i + 1)

Elapsed(t) == ~After(elapsesAt[t], ticks)

\* The timer at pElement has elapsed: it is removed and its handler called.
Fire ==
  /\ ~failed
  /\ mode = "poll"
  /\ nextEl \in Timer
  /\ Elapsed(nextEl)
  /\ \E i \in DOMAIN list : list[i] = nextEl /\ list' = RemoveAt(list, i) /\ nextEl' = Successor(i)
  /\ firing' = nextEl
  /\ due' = due \ {nextEl}
  /\ mode' = "handler"
  /\ UNCHANGED <<ticks, elapsesAt, draft, failed, left, cut>>

\* The handler returns, the timer is deleted.
HandlerReturn ==
  /\ ~failed
  /\ mode = "handler"
  /\ mode' = "poll"
  /\ firing' = NoTimer
  /\ Delete(firing)
  /\ UNCHANGED <<list, ticks, nextEl, draft, failed, due, cut>>

\* The list ends or the timer at pElement has not elapsed; the periodic
\* handlers, which nothing registers, are left out.
PollEnd ==
  /\ ~failed
  /\ mode = "poll"
  /\ nextEl = NoTimer \/ (nextEl \in Timer /\ ~Elapsed(nextEl))
  /\ mode' = "task"
  /\ nextEl' = NoTimer
  /\ UNCHANGED <<list, ticks, elapsesAt, firing, draft, failed, left, due, cut>>

\* GetPtr: assert (pElement->nMagic == PTR_LIST_MAGIC); Remove has cleared it.
PollDangling ==
  /\ ~failed
  /\ mode = "poll"
  /\ nextEl = Dangling
  /\ failed' = TRUE
  /\ UNCHANGED <<list, ticks, elapsesAt, mode, firing, nextEl, draft, left, due, cut>>

\* halt() after a failed assertion.
Halted == failed /\ UNCHANGED vars

Poll == Fire \/ PollEnd \/ PollDangling

Next ==
  \/ \E t \in Timer : Cancel(t) \/ \E d \in Delay : Start(t, d) \/ StartRead(t, d)
  \/ StartInsert
  \/ Tick
  \/ Poll
  \/ HandlerReturn
  \/ Halted

\* The timer interrupt keeps coming, and code in interrupt handlers and
\* critical sections runs to its end.
Fairness == WF_vars(Tick) /\ WF_vars(Poll) /\ WF_vars(HandlerReturn) /\ WF_vars(StartInsert)

Spec == Init /\ [][Next]_vars
FairSpec == Spec /\ Fairness

-----------------------------------------------------------------------------
(* Properties.                                                              *)

\* The list holds every pending timer once, in the order in which the timers
\* are due, over the wrap-around of the tick counter too: the poll stops at
\* the first timer that has not elapsed.
Sorted ==
  /\ \A i, j \in DOMAIN list : i < j => list[i] # list[j] /\ left[list[i]] <= left[list[j]]
  /\ \A t \in Pending : t # firing /\ t # draft

\* The handler of a timer is not called before its delay is over, and when the
\* timer interrupt returns every timer that was due has fired or is cancelled.
\* A handler that cancels the timer which the poll has saved can lead the poll
\* past due timers, if it also starts a timer in the same memory: only the
\* interrupt of that tick may leave timers unfired, the next one makes up for it.
OnTime ==
  /\ mode = "handler" => left[firing] <= 0
  /\ mode = "task" /\ ~cut => due = {}

\* A started timer fires or is cancelled.
Elapses == \A t \in Timer : (t \in Pending) ~> (t \notin Pending \/ failed)

\* The timer interrupt returns: the handlers cannot keep the poll going.
PollReturns == (mode # "task") ~> (mode = "task" \/ failed)
=============================================================================
