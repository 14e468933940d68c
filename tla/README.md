# Verification of PegasOS

PegasOS is a small operating system for the Raspberry Pi: a kernel
(`src/sample/00-pegasos/kernel.cpp`) with a login dialogue and a command shell
(`src/lib/pegasos/shell.cpp`), built on the Circle library (`src/lib`), whose
scheduler, events, timers, drivers and file system it uses.  This directory
holds TLA+ models of its core, the TLC configurations that check them, and
proofs for TLAPS.

The build that is modelled: 64 bit, Raspberry Pi 4, one core
(`ARM_ALLOW_MULTI_CORE` is not defined, so a spin lock is a critical section
and a critical section masks interrupts), physical counter, assertions
compiled in.  A failed assertion logs with `LogPanic`, and `LogPanic` ends in
`halt()` (`lib/assert.cpp:31`, `lib/logger.cpp:155`).

Contents: 1 inventory; 2 plan; 3 the modules and the code; 4 the runs, their
bounds and what they show; 5 fairness; 6 what is proved; 7 disagreements found
and known limits; 8 what is not modelled.  `PROJECT.json` has the same in
machine-readable form: components, runs, a mutant of the code for every
property, the source lines of every definition, hazards and theorems.

To repeat a run: `tlc -config MCScheduler_safety.cfg MCScheduler`, and a proof:
`tlapm SchedulerProofs.tla`.

## 1 Inventory

### Who acts

There are two kinds of actors on the one core:

- **tasks**, which are cooperative: a task keeps the CPU until it calls
  `Yield`, `usSleep`, `Wait` or ends;
- **interrupt handlers**, which run to their end between any two instructions
  of a task that does not mask interrupts.  The timer interrupt runs the kernel
  timers; the USB interrupt delivers keys, and *the whole of the login dialogue
  and of the shell, with all their accesses to the card, runs inside it*.

So the hard behaviours are: interrupts against tasks (events, timers, the
shutdown mode), the life cycle of tasks and of their memory, counters that wrap
around, and in the dialogue and the shell the failure of some of the steps of a
command, and state that outlives a command.  Power may be cut at any time; only
the card keeps anything.

### Components

| Component | State | Operations | Interacts with | What makes it correct |
|---|---|---|---|---|
| Task scheduler (`lib/sched/scheduler.cpp`, `task.cpp`) | task table `m_pTask`, `m_nTasks`, `m_nCurrent`, `m_pCurrent`; per task state and wake time | `AddTask`, `Yield`, `usSleep`, `BlockTask`, `WakeTask`, `GetNextTask`, `RemoveTask`, end of a task | called by every task; `WakeTask` from interrupts; reads the clock | table holds each task once; round robin reaches every ready task; sleeps neither end early nor for ever; memory of ended tasks is freed |
| Events (`synchronizationevent.cpp`) | `m_bState`, `m_pWaitTask` | `Clear`, `Wait`, `Set` | `Set` from interrupts, `Wait` blocks in the scheduler | no wake-up is lost; assertions hold |
| Kernel timers (`timer.cpp:377-475`) | sorted list, `m_nTicks` | start, cancel, poll from the timer interrupt, handlers that start timers | handlers set events | sorted; fire on time across the wrap-around; poll returns |
| System clock (`timer.cpp`) | hardware counter and compare value, ticks, uptime, local time, zone | timer interrupt, `SetTime`, `SetTimeZone`, the `Get...` calls | scheduler and timers read it | no tick lost, exact uptime, monotone time |
| Main loop and shutdown (`kernel.cpp:170-214`) | the statement of `Run`, `m_Event`, its timer, `m_ShutdownMode` | turn of the loop, timer handler, shutdown requests from interrupts | event, timer, scheduler | never waits for nothing; a shutdown ends it |
| Login dialogue (`kernel.cpp:219-600`) | `_OffBoot`, three input buffers, `_UserNameMatch`; on the card users, desktops, password files | keys, backspace, Enter in each of five questions | FatFs; hands over to the shell | questions start empty; a session starts where it says; no dead end |
| Command shell (`pegasos/shell.cpp`) | text of the working directory, parameter buffers; the current directory of FatFs | the commands of a line | FatFs; shutdown of the main loop | the two directories agree; parameters are those typed |
| Heap allocators (`heapallocator.cpp`, `alloc.cpp`, `new.cpp`) | per heap free lists per size, `m_pNext`, `m_nReserve` | allocate, reallocate, free, panic when full | everybody, from tasks and interrupts | the blocks partition the memory; no byte has two owners; the panic message has its memory |
| Page allocator (`pageallocator.cpp`) | free list, `m_pNext` | allocate, free | everybody, under a spin lock | every page in one place |
| Critical sections (`synchronize64.cpp`, `spinlock.cpp`, `exceptionstub64.S`) | interrupt mask, saved masks per level, `spsr_el1` | enter, leave, interrupt entry and exit | everybody | who interrupts a section has a higher level; what was masked before is restored |
| Logger (`logger.cpp`) | text ring, event queue | write, read, read event | everybody; halts on panic | oldest entries are dropped, nothing is mixed up |
| USB keyboard (`usbkeyboard.cpp`, `usbhiddevice.cpp`, `input/keyboardbehaviour.cpp`, `input/keymap.cpp`) | last report, last key, modifiers, locks, LED state sent last | report, update of LEDs | USB interrupt, main loop, endpoints | every key makes one event; the lamps show the locks |
| xHCI rings, commands, events (`xhciring.cpp`, `xhcicommandmanager.cpp`, `xhcieventmanager.cpp`) | rings with cycle bits, the command under way | command, its completion or timeout, event | tasks, USB interrupt, the controller | rings are queues; a command gets its own result |
| xHCI endpoints (`xhciendpoint.cpp`, `usbrequest.cpp`) | the request under way, `m_bTransferCompleted` | transfer, asynchronous transfer, completion, timeout | keyboard, USB interrupt, the controller | completions reach their requests |
| FatFs (`lib/fs/fatfs`, third-party) | the volume, its current directory | as used by login and shell | SD card driver | modelled as far as the two use it |

`PROJECT.json` lists the others (interrupt controller, boot, USB device
drivers, SD card, screen, calendar, drivers that the kernel does not use,
network, strings) with the reason why each is left out.

### How the modelled components interact

    controller -> rings -> events -> endpoints -> Keyboard -> key handler
                    ^                    ^            |          |
       commands ----+                    +--- LEDs ---+    Login dialogue -> Command shell
                                                                |                |
                                                                +---- FatFs -----+
                                                                                 |
                                              Main loop <-- m_ShutdownMode ------+
                                        Clear, Wait | start
    timer interrupt -> System clock -> Kernel timers --(Set)-> Event
                                                                 | BlockTask, WakeTask
                                                              Scheduler

    all of them: heap and page allocators, whose locks are critical sections

## 2 Plan

Built in this order: `TaskSystem` (abstract), `Scheduler`, `SyncEvent`,
`KernelTimer`, `SystemClock`, `MainLoop` (composes `SyncEvent`), `Shell`,
`Login`; then `BlockStore` (abstract) and `Memory`, `CriticalSection` and
`PageAllocator`, `XhciRing` and `XhciCommand`, `XhciEndpoint` and `Keyboard`.
Then the proofs of section 6, the invariants first, then the refinements.

Every safety invariant and action property of the runs is now stated by a
theorem.  Left: that `Scheduler` implements `TaskSystem` also when tasks wait
for the end of others, up to the assertion this can fail.

Not next, but within reach: `Session` (`Login` and `Shell` composed over one
file system), the queue of log events, the calendar.  Runs are few and each asks
one question; these would take the place of one.

## 3 Modules and code

A step is what an interrupt cannot divide: a critical section, an interrupt
handler, or a stretch of task code between two accesses to shared state.

| Module | Models | Uses |
|---|---|---|
| `TaskSystem` | what tasks are promised, without table, scan, registered waiters and clock width | |
| `Scheduler` | `CScheduler`, `CTask`, and `CSynchronizationEvent` with each call one step | implements `TaskSystem` |
| `SyncEvent` | `Wait`, `BlockTask`, `Set`, `WakeTask`, access by access | |
| `KernelTimer` | the timer list of `CTimer` | |
| `SystemClock` | counter, compare value, ticks and times of `CTimer` | |
| `MainLoop` | `CKernel::Run`, its timer handler and shutdown | `INSTANCE SyncEvent` |
| `BlockStore` | what `malloc`, `realloc` and `free` promise their callers | |
| `Memory` | `CMemorySystem`, two `CHeapAllocator`s | implements `BlockStore` |
| `CriticalSection` | `EnterCritical`, `LeaveCritical`, `IRQStub`, `FIQStub` | |
| `PageAllocator` | `CPageAllocator`, its lock access by access | extends `CriticalSection` |
| `XhciRing` | `CXHCIRing` | |
| `XhciCommand` | `CXHCICommandManager`, `CXHCIEventManager` | extends `XhciRing` |
| `XhciEndpoint` | `CXHCIEndpoint`, as a record with operators | |
| `Keyboard` | `CUSBKeyboardDevice`, `CUSBHIDDevice`, `CKeyboardBehaviour`, the locks of `CKeyMap` | extends `XhciEndpoint` |
| `Shell` | `PShell` with FatFs as it uses it | |
| `Login` | `KeyPressedHandler`, `LoginInput`, `commenceLogin`, `EditUserName` | |
| `MC...` | instances for TLC | |
| `SchedulerProofs`, `KernelTimerProofs`, `SystemClockProofs`, `MemoryProofs`, `XhciCommandProofs` | proofs about the module named | |
| `MainLoopProofs` | proofs about `MainLoop` and its `SyncEvent` | |
| `PageAllocatorProofs` | proofs about `CriticalSection` and `PageAllocator` | |
| `InputProofs` | proofs about `Keyboard`, `Login` and `Shell`, what the interrupt of a key runs | |

**Scheduler.** `slot`, `nTasks`, `nCurrent`, `current` are the members of
`CScheduler`; `state`, `wake` those of `CTask`; `bState`, `waitTask` those of an
event.  `cpu` tells whether a task computes or the loop of `Yield` scans: each
pass of `GetNextTask` is an action (`Dispatch`, `Reap` or `FindNone`), on the
stack of the task that called it, because interrupts fall between passes.  Task
identities are addresses: `Reap` makes one free and `NewTask` may take it again.
`waits` is the program counter of a task suspended in `Wait`; `left` is a
history variable, the true time a sleeper still has, against which the wrapping
`wake` is judged.  All tasks are added with weight 0, so the sorting by weight
in `AddTask` is unreachable and left out; so are the task switch handlers, which
nobody registers.

**SyncEvent.** `pc` marks the points of `Wait` and `BlockTask` between which an
interrupt can fall, one per access to `m_bState`, `m_pWaitTask`, `m_State`.
The interrupt that sets an event may fall at each of them, as nothing in the
code masks it.  `Lost` says that nobody is left to wake a task;
`LostOnlyInWindow` confines the steps that lead there, and those that fail an
assertion, to two gaps in `Wait`, before the store of the waiter and before its
marking as blocked.

**KernelTimer.** `list` is `m_KernelTimerList`; its elements and the timers are
named by the timers.  A task's `StartKernelTimer` is two steps, because ticks
may pass between its reading of `m_nTicks` and its critical section.  In a
handler, what it starts and cancels, and its return, are one step: nothing
interrupts it.  `nextEl` is the element saved over the call of the handler,
`Dangling` when the handler has deleted it, and possibly the element of a new
timer when its memory is handed out again.  `left` and `due` are history
variables, and so is `cut`: since the last tick a handler has cancelled the
timer whose element the poll had saved.  The timers the poll then skips are late
by one tick (`LateBound` bounds how late), and the next tick makes up for them.

**SystemClock.** The width 2^32, the counter frequency and `HZ` are constants.  `TimerIrq` is the interrupt handler without the timers.
`utc` is a history variable: the universal time that should now be returned.

**MainLoop.** `line` is the statement of `Run`.  The event and the CPU are the
variables of `SyncEvent`, whose actions are used as they are.  The other tasks
yield and sleep.  `timers` counts the timers started and not fired.  The timer
may fire at any place, also inside `Wait`; `missed` is a history variable that
says it has done so before the main task was suspended.

**Shell.** A command line is one step, as it is one interrupt.  `SplitCommandLine`,
`FixWorkingDirectory` and path walking in FatFs work on characters (`a`, `b`,
dot, slash and backslash), because the properties are about what they do with
them.  FatFs takes both slashes for separators, `FixWorkingDirectory` counts only
one of them.  `p1` has the cells of the parameter buffer, with what earlier
commands left.  A line has the length of its command's name and what older lines
left behind it in the input buffer (`older`), since with one parameter
`SplitCommandLine` copies as many cells as the whole line has.
`directory` is the text, `cwd` the directory of FatFs.  A path is `Regular` if it
is what `FixWorkingDirectory` is made for: one slash and no backslash before each
name, first names, in which no two dots stand together, then only `..`.
Three variables are history: `strayed`, the last `changedir` took another path;
`got`, how the parameter a command got compares with the one typed; `early`, the
last command returned early and so did not clear its parameters.  `Faults` lets
any access to the card fail: writes stop part of the way, and an `f_open` that
creates may leave an existing file empty (`Spoiled`).

**Login.** `offBoot` has names for the numbers of `_OffBoot`; one action per
question.  `fault` is whether accesses to the card may fail in this step;
`cardFailed` remembers it until the next restart.  `Rest` is what the
uninitialised remainder of `Buffer` may hold, with which the password is
compared.  A fault in the search of a name ends the search silently, so that an
existing user may be taken for a new one (`CheckName`).

**Memory.** A block has the address behind it (`room`), the size its header
records (`head`, modulo 2^32 as the header is a `u32`, which no heap is big
enough to exceed) and what was asked for.  Blocks have no contents.
What runs under the lock is a step; interrupt handlers allocate and free between
the steps of a task: between the two heaps of `HEAP_ANY`, between the
allocation, the copy and the free of `realloc`, and between the release of the
lock and the panic message.  `lost` are the freed blocks too big for a bucket,
which no list takes.  `raided` remembers that a handler took memory after the
reserve was opened.

**CriticalSection, PageAllocator.** `ctx` is the stack of what runs: the task,
the IRQ handler on it, the FIQ handler on either.  `EnterCritical` and
`LeaveCritical` are one action per access to the mask, the counter
`s_nCriticalLevel` and the array `s_nFlags`.  `PageAllocator` puts a read and a
write of its list between the two, so that a lock that does not exclude loses a
page.  `owners` counts who holds each page, and in one more place (`Behind`) who
got a page behind the limit.

**XhciRing, XhciCommand.** A TRB is a body and a cycle bit; for a command the
body is a serial number, which stands for its parameters and its result.
`DoCommand` is one action per store that the interrupt handler or the
controller can see.  The controller (`hc`) has its own index and cycle state,
runs on as long as it finds commands and posts events while there is room
before ERDP.  `queued` and `posted` are history variables: what the rings should
contain.

The names of `Shell` and `Keyboard` differ from those of `Login` (`ShellInit`,
`KeyboardSpec`, `PutFile`, ...), because `InputProofs` extends all three.

**XhciEndpoint, Keyboard.** The transfer ring is the queue that `RingsExact`
justifies.  A request of a synchronous transfer lies on the stack of its caller,
so after a timeout `m_pURB` is `"stale"`; what a late answer finds there is any
outcome (`ControlEvent`).  Since only one device is modelled, endpoint 0 carries
lamp settings only.  `ReportHandler` follows the code: modifiers, released keys,
pressed keys, and the copy of the report (`Memory`).  The device sends any
sequence of reports, in any order of keys, among them the one that says that it
cannot tell which keys are held.  A report of another length is logged by the
code, changes nothing and is left out.  `main` is the main loop in `UpdateLEDs`, which
tests the three locks one after the other.

## 4 Runs

| Run | Question | Shows |
|---|---|---|
| `sched_safety` | is the task table, and who waits for what, always consistent, and does the scheduler implement its promise? | 4 addresses for 3 slots, one kernel event: `TableExact`, `CurrentExact`, `NoLostWakeup`, `NoAssertionFails`, `NoEarlyWake`, and `Implements`, the refinement of `TaskSystem` |
| `sched_live` | does every ready task run, every sleep end, every ended task get freed? | `ReadyRuns`, `SleepEnds`, `TerminatedFreed` with a task that waits for the end of another; a failed assertion, which this waiting can cause (section 7), ends the obligation |
| `event_lost` | does `Set` release a waiter wherever the interrupt falls? | *violated*: a set event never releases its waiter (section 7) |
| `timer_timers` | do timers fire exactly when due, whatever handlers start and cancel? | `OnTime`, `Elapses`, `PollReturns`, over the wrap-around, with deleted and reused elements; when a handler cancels the very timer the poll has saved (`cut`), the timers skipped fire with the next tick, or an assertion has stopped the system |
| `clock_counts` | does a late timer interrupt lose time? | `NoTickLost`, `UptimeExact`, `LocalTimeMonotone`, `UniversalTimeUntil2038` |
| `main_turns` | can the main loop get stuck or miss a shutdown, and where in `Wait` does its timer lose a wake-up or fail an assertion? | `WakeupPending`, `LoopTurns`, `ShutdownEnds`: only if the timer fires inside `Wait`, before the suspension (`missed`); `LostOnlyInWindow`: in the two gaps between test, store and mark and nowhere else; `WaiterExact`, wherever it falls |
| `shell_commands` | do the shell and FatFs agree where they are, and do commands get the parameter that was typed? | `DirectoryIsCwd`, whenever the last `changedir` took a regular path, whatever was taken before; `ParameterAsTyped`: except after an early return, and then it begins with what was typed; with faults and with letters in the input buffer |
| `login_dialogue` | does the dialogue keep its questions apart, and end in a session? | `PromptStartsEmpty`, `SessionInDesktop`, `CanFinish`, on a card where anything may fail |
| `memory_heap` | do callers get what `malloc` promises, down to the last byte and the panic? | `Partition`, `PanicTold`, and `StoreSpec`, the refinement of `BlockStore` |
| `pages_sections` | do critical sections exclude what they must, at every nesting and wherever an interrupt falls? | `SectionsExclude`, `LevelKept`, and with them `PagesExact` |
| `xhci_commands` | do rings lose or repeat anything, and can a late completion be taken for that of the next command? | `RingsExact`, `OwnResult`, `CommandReturns` |
| `keyboard_lamps` | does every key count once, do requests and answers stay together, and do the lamps follow the locks? | `KeysOnce`, `RequestsKept`, `LampsShowLocks` |

Every property has a mutant in `PROJECT.json`: a change of one definition, such
as a dropped guard, an unsigned for a signed comparison or a missing reset, with
which TLC finds the property violated under the same configuration.  The type
invariants (`TypeOK`) and the order of the timer list (`Sorted`) are not among
them: they follow from the theorems of section 6, where there are theorems
(of `ShellTypeOK` the part about the tree, `TreeKept`).

### Bounds

| Bound | Stands for | Why it is enough |
|---|---|---|
| `MAX_TASKS` = 3 | 20 | the table gets full, has a hole at its start, in its middle and at its end, and a fourth address overflows it |
| `TickMod` = 4 (scheduler), `MaxSleep` = 1 | 2^32, sleeps below 2^31 | the clock wraps all the time; every phase of wake time against clock occurs; the proof has any width |
| `HoldBound` = 1 (scheduler) | 35 minutes | a computing task may be late for a sleeper, by less than half the range of the clock; beyond that the signed comparison of the code is blind |
| `TickMod` = 14, delays 1 to 2, `HoldBound` = 2, `LateBound` = 4 (timers) | 2^32, any delay below half of it | sums of delay and lateness stay below half the range, which is what the code needs; all orders of three deadlines and all ties occur; a timer that was skipped may be skipped again |
| `WordMod` = 16, `FRQ` = 6, `HZ` = 3 | 2^32, 54 MHz, 100 | keep the relations that matter: whole period, a second of several ticks, which does not divide the word; `CounterBound` = 45 runs `m_nTicks` through its wrap-around |
| `LateBound` = 5 | time with interrupts masked | more than two periods, so ticks really are served late and in a burst |
| tasks in `main_turns`: 4 | 20 | the main task, and three that stand for the six demo tasks of the kernel (four `CScreenTask`, a `CPrimeTask` and a `CLEDTask`), which all do nothing but yield and sleep here; events do not share anything but the CPU; the proofs have any number |
| `MaxObjects` = 3, `MaxLines` = 1, `EchoRoom` = 6, parameters `a`, `..`, `../..`, `..\a`, `Older` of two characters | any tree, paths of 255 characters, 251 cells for `echo` | directories below the home directory and beside it, the parent and the grandparent beyond the root, both separators; a residue longer and shorter than the parameter; every early return, that of a long echo too; a file that has content or not, written whole, in part or not at all.  The proofs have any parameters, any residue and any depth |
| `MaxLen` = 2, `MaxUsers` = 2, characters `y`, `n` | buffers of the dialogue | both answers, wrong answers, six names, the empty name, a name that is the beginning of another |
| heaps of 14 and 18 units of 8 bytes, a header of two, two buckets, addresses modulo 64 | 1 GB each, 7 buckets, 2^32, 2^64 | one or two blocks of each bucket and a big one fit, so both heaps fill up, lists are reused and an address wraps (40).  A header holds every size that fits in a heap, as in the code |
| two sections open per context, task, IRQ and FIQ; 2 pages, 1 failed allocation | 20 levels, all memory | same and increasing levels nest in each context, every context interrupts every other that it can; the pages go back and forth and run out |
| rings of 5 TRBs, `MaxSilent` = 2 | 64, any number | four commands go around the link TRB, five events around the end; two commands that were given up are answered during later ones.  A ring that is overrun by more is a limit of the code (section 7) |
| keys `Caps` and `A`, `Alt`; nothing new goes wrong after a timeout | a keyboard | a lock and another key, alone, together, in both orders and with the modifier that disables the lock; what a timeout does to the next transfer and to the late answer is in the run, what happens after it makes the properties hold trivially |

Deadlock is checked except in `clock_counts`, which stops at `CounterBound`, in
`event_lost`, where the lost wake-up can leave nothing that can happen, and in
`keyboard_lamps`, where a failed assertion stops the system.

## 5 Fairness

- *Scheduler*: weak fairness of the scan (its loop does not pause), of the clock,
  and of the running task giving up the CPU.  The last is what cooperative
  scheduling means; the tasks of the kernel yield in each turn of their loops.
  That each ready task gets its turn is *not* assumed but checked (`ReadyRuns`).
- *SyncEvent*, *MainLoop*: weak fairness of the computing task, strong fairness
  of being dispatched when ready again and again, which is what `ReadyRuns` of
  Scheduler establishes; no fairness of interrupts in SyncEvent.  In MainLoop a
  started timer fires, which is `Elapses` of KernelTimer.  No one need ever ask
  for a shutdown.
- *KernelTimer*: the timer interrupt keeps coming, interrupt code and
  critical sections run to their end.  Nothing makes a task start or a handler
  cancel anything.
- *XhciCommand*: the task runs and time passes.  Nothing is assumed of the
  controller: it may never answer.
- *Keyboard*: the main loop goes round, interrupts are delivered, and the
  controller executes a lamp setting unless it fails.  Nothing makes a user type
  or a transfer time out.
- *SystemClock*, *Shell*, *Login*, *Memory*, *PageAllocator*: safety only.

## 6 Proofs

For all values of the constants that satisfy the named assumptions, which TLC
evaluates in every run:

| Theorem | From | Argument |
|---|---|---|
| `SchedulerProofs!TypeCorrect` | `TasksAssumption`, `ClockAssumption` | one step per action |
| `TableCorrect`, `CurrentCorrect`, `WakeupsKept`, `SleepsLastLongEnough` | and `WaitAssumption` | the inductive invariant `Inv` is the conjunction of the checked invariants with `LifeCycle` and `SleepExact`.  `LifeCycle` is needed because a constructor resets an event and a deletion frees one: it says that nobody is registered at the event of a freed task, that the event of an ended task is set, and that who is in `Wait` is ready or blocked.  `SleepExact` says that the wrapped distance of wake time and clock is the time left |
| `SchedulerProofs!AssertionsHold` | and that tasks wait for kernel events only | with `WokenExact`: a task that was woken finds its event still set |
| `SchedulerProofs!SchedulerImplements` | the same | each step is one of `TaskSystem` or a stutter, from `Inv`, `WokenExact` and `LeftExact` (a task that does not sleep has no time left); the scan, the table and the registered waiter disappear |
| `MainLoopProofs!EventWaiterExact`, `EventLosesInWindow` (of `SyncEvent`) | `MainAssumption` | the place of each task determines its state, its registration and its event, but for the tasks whose wake-up is lost; interrupts may fall anywhere |
| `MainLoopProofs!LoopUsesEvent`, `LoopWaiterExact`, `LoopLosesInWindow` | `MainAssumption` | every step of the main loop, of its timer handler and of the tasks beside it is a step of `SyncEvent` or leaves its variables alone, so that the two theorems above hold of it |
| `MainLoopProofs!MainNeverStranded` | `MainAssumption` | the statement of the main task determines timer, event and registration, unless the timer has fired inside `Wait` (`missed`) |
| `KernelTimerProofs!ListSorted`, `FiresInTime` | `TimerAssumption` | `Inv` has: the list is sorted by the history variable `left` (`List`); `elapsesAt` is `ticks + left`, wrapped, and `left` stays within half the range (`Clock`), so that the signed comparison of wrapped numbers is the comparison of `left`; the due timers not yet fired lie behind the poll's position (`Polling`), unless a handler has cancelled the timer of the saved element since the tick.  `List` and `Clock` hold whatever handlers start and cancel, so the next tick finds everything in order again.  Lemmas on `InsertAt` and `RemoveAt` carry the order over the two list operations |
| `SystemClockProofs!TicksExact`, `UptimeAlwaysExact`, `UniversalTimeAlways`, `LocalTimeAlways` | `ClockAssumption` | counter, compare value, ticks and uptime are all functions of one number, that of the interrupts served (`Served(k)`), and the local time is that of `utc` (`Linked`).  The rest is the arithmetic of remainders: lemmas on `%` and `\div`, one next number at a time |
| `MemoryProofs!PartitionAlways`, `PanicToldAlways` | `MemoryAssumption`, `ReserveAssumption` | the heaps have their geometry (`Geometry`: blocks lie in their heap, are disjoint and end where the next begins), each block has one owner (`Owners`: in use, listed, lost), a task in the middle of `malloc` or `realloc` has what it needs to go on (`TaskInv`), a reserve is open or untouched (`ReserveInv`) |
| `MemoryProofs!MemoryImplements` | the same | each step is one of `BlockStore` or a stutter; that a block taken is not in use is the invariant, and a block that is moved changes places in one step, since the old one stays in use until the copy is made.  `BlockStore` says who owns what memory, nothing of what is in it |
| `PageAllocatorProofs!SectionsExcludeAlways`, `LevelKeptAlways`, `PagesExactAlways` | `CriticalAssumption`, `PagesAssumption` | `Inv` is `CritInv /\ CallsInv /\ FreesInv /\ ListInv`.  `CritInv` gives, for each context of the stack and the label it is at, the mask, the counter and the saved masks of the sections it has open; a context below the top is inside no masked part.  From it follows that only one context is between the read and the write of the page list (`CallsInv`), so that a write is to the list that was read (`ListInv`) |
| `XhciCommandProofs!ResultsAreOwn`, `RingsAlwaysExact` | `RingAssumption`, `CommandAssumption` | the TRBs ever written are numbered.  TRB `x` lies at `x % TRBCount` with the cycle bit of lap `x \div TRBCount` (`Written`); four numbers, the positions of the driver and the controller on the two rings, give indices, cycle states and the contents of both rings (`Good`).  A reader finds its bit exactly up to the writer (`FindsThem`), since they are less than a lap apart, which is what `MaxSilent` and the test for room give; a link falls into a window of the ring once (`Window`) |
| `InputProofs!AcceptedCanFinish`, `StartsInDesktop`, `QuestionsStartEmpty` (of `Login`) | none about the characters, the users or the bounds | `Accepted`: the name checked is the name with which the dialogue goes on; `_UserNameMatch`, which is never reset, is harmless because no question for a name follows it.  `Prompts`, for the third: which buffers are empty at which question while the card works |
| `InputProofs!RequestsAlwaysKept` (of `Keyboard`) | none | the request of the report endpoint is always live; the place of the main loop determines whether endpoint 0 has a request, whether the controller has it, or its one answer is on its way (`Phases`) |
| `InputProofs!KeysAlwaysOnce` (of `Keyboard`) | `KeyboardAssumption` | `OnceInv` is `KeysOnce` with types.  The two folds of `ReportHandler` are unfolded into runs, one step per key: after i releases the last key is none, or a key that is not among the first i released (`AllReleased`); after i presses the keys with an event are those of the first i that the last report did not have (`AllPressed`).  With `KeyTypes`, the reports on the event ring are reports |
| `InputProofs!DirectoryStaysCwd` (of `Shell`) | `ShellAssumption` | `ShownInv`: the text starts at the root (`Rooted`), since the cut does (`FixedRooted`); if the last path was regular, which it can be after one that was not, the text is one of names, each behind a slash, without dot entries (`Tidy`, `Shows`), and the names are the path `cwd`, as FatFs reads them.  A text laid out in this way (`Laid`) has the names of its layout as its segments (`LaidSegments`), as many slashes as names (`LaidSlashes`), and as many pairs of dots as `..` (`LaidPairs`); its part before a slash is laid out with the names before it (`LaidBefore`).  So with m names and d times `..` `FixWorkingDirectory` leaves the first m - d names.  The walk takes the same names, if each directory on its way exists (`WalkNames`, `WalkUp`), which `TreeKept` gives |
| `InputProofs!ParametersTyped`, `TreeKept` (of `Shell`) | `ShellAssumption` | `ParamInv`: the buffer is empty unless the last command returned early.  The cells that are copied begin with what was typed; what follows is a NUL, or text that the buffer held before (`GetsTyped`, with `TextBegins`).  For the second: every command that changes the tree keeps parents and the current directory |

The inductive invariants of `MemoryProofs`, `PageAllocatorProofs` and
`SchedulerProofs`, and the one of the keyboard, were checked by TLC on the small
instances of section 4 as well; those of `SystemClockProofs` and
`XhciCommandProofs` say that natural numbers with some property exist, which TLC
cannot evaluate, and stand on their proofs alone.  
**Folds.** The segments of a text, the walk of a path and the keys of a report
are folds over sequences (`FoldLeft`), which the module of folds defines with a
recursive function that is chosen.  The induction theorems of the library take an
operator as a parameter, which no installed prover can instantiate; but that a
set of numbers without a least element is empty (`WFMin`) takes a set.  From it
`Induction` follows, then `FoldExists` (there is a function that solves the
recursion, so that the chosen one does) and `FoldRuns` (the results for the first
0, 1, ... elements are a run, each from the one before it).  Each fold of the
models has a lemma, as `ReleaseUnfolds` or `SeparateUnfolds`, that gives its run;
what it computes is then an invariant of the run.  `FoldExists` asks for the type
of the accumulator, the values and the function, nothing else.

Some things in the models were changed for the proofs:
`RingsExact` leaves the link TRB out with `WithoutLink`, which says that it is
found once at most, and not with a filter over the sequence; and the assumptions
say more that the code has: the zone is what
`SetTimeZone` accepts, a heap block has a header, the shell starts in a path
of names, a keyboard has finitely many keys, and 0, the code for no key, is not one
of them.  `Segments` splits a text with a fold over its characters, as the loop of
`create_name` does, and `ReportHandler` runs over all keys of both reports, as the
two loops of the code do.  The history variable of the shell now marks every path
that is not regular: the proof showed that `.`, a doubled separator and a name like
`a..b` part the text from the directory as well as a path that goes down after
going up.

Only model-checked:

- liveness under fairness (`ReadyRuns`, `SleepEnds`, `TerminatedFreed`,
  `Elapses`, `PollReturns`, `LoopTurns`, `ShutdownEnds`, `CommandReturns`,
  `LampsShowLocks`), which is beyond the proof system;
- `Implements` where tasks wait for the end of others: `SchedulerImplements`
  has the assumption of `AssertionsHold`, since a failed assertion ends the
  system.

## 7 Disagreements and known limits

One run ends with a counterexample to what the repository says of the program:

**Lost wake-up** (`event_lost`).  `Wait` tests `m_bState` and `BlockTask`
registers the task without masking interrupts.  A `Set` in between finds no
waiter, and the task blocks on a set event, for ever, as a further `Set` of a
set event does nothing.  `synchronizationevent.h:36` says of `Set` that it
can be called from interrupt context.  `main_turns` and, for any number of
tasks, `EventLosesInWindow` show that there is no other place.  The kernel is
spared in practice: its timer fires half a second after it is started, just
before `Wait`.

Other behaviours of the code that limit the properties:

- `WaitForTermination` returns into the event of a task that may have been
  deleted, and whose address may be in use again: its assertion can fail
  (allowed for in `sched_live`);
- a task that ends while no other is ready deletes the stack it runs on;
- an interrupt between `BlockTask`'s two stores makes the assertion in
  `WakeTask` fail;
- `FixWorkingDirectory` counts slashes and pairs of dots, and takes each pair for
  a `..` at the end of the path: after `changedir ../a` FatFs is in the sibling and
  `_directory` names the directory that was left; `./..`, `a//..`, a name with
  two dots in a row and the separator `\` of FatFs are miscounted too
  (`DirectoryIsCwd` does not hold after such a path, until a regular one is taken);
- a heap that is full opens its reserve and releases its lock before the panic
  message is written: an interrupt handler may take the reserve;
- the rounding of the last few sizes below 2^64 wraps and yields a block without
  data; no caller asks for them;
- the test for a full command or transfer ring compares a cycle bit that no
  consumer changes, so a ring is overrun after as many unanswered commands as it
  has TRBs;
- a controller that still runs executes a command as soon as its TRB is written;
  if its event comes before the task has noted the command, it is dropped and the
  command times out though it was executed;
- a transfer that times out leaves `m_pURB` pointing into the stack of its
  caller.  The next transfer of that endpoint fails the assertion at
  `xhciendpoint.cpp:326`, and a late answer that at line 413, or worse: a
  keyboard that leaves one lamp setting unanswered halts the system at the next
  change of a lock;
- an endpoint that the controller has halted after an error is never reset, and
  a lamp setting that failed is not repeated;
- a handler that cancels the timer next in the list leaves the poll with a
  deleted element (assertion), or with another timer's, and then timers fire one
  tick late;
- `GetClockTicks` multiplies the counter by `CLOCKHZ` in 64 bits before it divides
  by the frequency: after 2^64 / 10^6 counts, which is 3.95 days, the product
  overflows and the clock, of which `timer.h:60` says that it "may wrap", falls
  back to 0 at a value that is no multiple of 2^32.  `Scheduler` takes its clock to
  count on;
- `GetUniversalTime` returns 0 from 2038 on;
- a command that returns early leaves its parameter behind; `copy ab x` refused
  and then `move a x` moves `ab`; with one parameter also what older lines left in
  the input buffer is copied;
- a `writeto` whose first `f_open` fails for a passing reason empties the file it
  was to append to;
- a search of the users that fails offers to create a user who exists;
- `move` onto itself, or with a write that fails, removes the file;
- a `createfile` that fails halts the system;
- after a failed write of a new password the next one typed is appended to it;
- after a failed `f_chdir` the shell shows the desktop and is elsewhere;
- a power cut between making a user and storing its password leaves a user whose
  password is what uninitialised memory says.

## 8 Not modelled

Register-level drivers, output (screen, wording, colours), code that is not
built for this target (other cores, DWHCI) or not used by the kernel (sound,
serial, I2C, network, the keyboard buffer and the line discipline), and code that
runs once, before there is a second actor (boot, enumeration of USB devices, the
configuration of slots and endpoints).  By far the most of the repository is of
these kinds: vendored libraries, drivers and samples of Circle.
Undefined behaviour whose outcome depends on the layout
of the build (path buffers of size 1 in `shell.cpp:214`, input without limit)
is listed with the hazards; the models take buffers to be large enough.
The text ring and the event queue of the logger, the calendar and the
composition of `Login` and `Shell` over one file system are within reach and
not modelled yet.
