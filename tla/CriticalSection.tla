--------------------------- MODULE CriticalSection ---------------------------
(***************************************************************************)
(* EnterCritical and LeaveCritical (synchronize64.cpp) on the one core,    *)
(* between a task, the handlers of IRQs that interrupt it and the handler  *)
(* of the FIQ that interrupts both.  CSpinLock::Acquire and Release are    *)
(* these two where ARM_ALLOW_MULTI_CORE is not defined.                    *)
(*                                                                         *)
(* An interrupt comes between any two steps at which its mask is clear;    *)
(* the contexts it interrupts wait below it on a stack.  Every step of the *)
(* two functions that reads or writes what another context may change is   *)
(* an action: that a whole section is one step is what is to be shown.     *)
(***************************************************************************)
EXTENDS Integers, Sequences

CONSTANTS
  MAX_CRITICAL_LEVEL,
  MaxNest        \* (bound) the sections a context has open at a time

TASK_LEVEL == 0
IRQ_LEVEL == 1
FIQ_LEVEL == 2
Mask == SUBSET {"I", "F"}

\* An IRQ handler starts with no section of the task open, but a FIQ handler
\* may find those of one context.
ASSUME CriticalAssumption ==
  MaxNest \in Nat \ {0} /\ MAX_CRITICAL_LEVEL \in Nat /\ 2 * MaxNest <= MAX_CRITICAL_LEVEL

VARIABLES
  daif,      \* the masked interrupts
  count,     \* s_nCriticalLevel
  saved,     \* s_nFlags
  spsr,      \* spsr_el1
  ctx,       \* the task and the handlers that have interrupted it; the last one runs
  failed     \* an assertion has failed, the system halts

critVars == <<daif, count, saved, spsr, ctx, failed>>

\* A context at its own level: found is the mask an IRQ handler returns to,
\* base (history) the counter at its start, open the levels of its sections,
\* flags and slot are the locals of the call it is in.
Context(level, at, base) ==
  [level |-> level, found |-> {}, base |-> base, open |-> <<>>,
   at |-> at, target |-> level, flags |-> {}, slot |-> 0]

CritInit ==
  /\ daif = {}
  /\ count = 0
  /\ saved = [i \in 0 .. MAX_CRITICAL_LEVEL - 1 |-> {}]
  /\ spsr = {}
  /\ ctx = <<Context(TASK_LEVEL, "run", 0)>>
  /\ failed = FALSE

Top == Len(ctx)
Me == ctx[Top]
Becomes(c) == ctx' = [ctx EXCEPT ![Top] = c]

CurrentExecutionLevel ==
  IF "F" \in daif THEN FIQ_LEVEL ELSE IF "I" \in daif THEN IRQ_LEVEL ELSE TASK_LEVEL

\* The highest level of a context and of the sections it has open.
LevelOf(c) == IF c.open = <<>> THEN c.level ELSE c.open[Len(c.open)]

-----------------------------------------------------------------------------
(* EnterCritical (t).  "EnterCritical() can be nested with same or          *)
(* increasing nTargetLevel": its callers do so.                             *)

EnterRead(t) ==
  /\ ~failed
  /\ Me.at = "run" /\ LevelOf(Me) <= t /\ Len(Me.open) < MaxNest
  /\ Becomes([Me EXCEPT !.at = "mask", !.target = t, !.flags = daif])
  /\ failed' = (t # FIQ_LEVEL /\ "F" \in daif)
  /\ UNCHANGED <<daif, count, saved, spsr>>

EnterMask ==
  /\ ~failed
  /\ Me.at = "mask"
  /\ daif' = {"I", "F"}
  /\ Becomes([Me EXCEPT !.at = "store"])
  /\ UNCHANGED <<count, saved, spsr, failed>>

\* s_nFlags[s_nCriticalLevel++] = nFlags reads the counter, stores the flags ...
EnterStore ==
  /\ ~failed
  /\ Me.at = "store"
  /\ failed' = (count >= MAX_CRITICAL_LEVEL)
  /\ saved' = IF failed' THEN saved ELSE [saved EXCEPT ![count] = Me.flags]
  /\ Becomes([Me EXCEPT !.at = "count", !.slot = count])
  /\ UNCHANGED <<daif, count, spsr>>

BugEnterCount ==
  /\ ~failed
  /\ Me.at = "count"
  /\ count' = Me.slot + 1
  /\ daif' = IF Me.target = IRQ_LEVEL THEN {} ELSE daif
  /\ Becomes([Me EXCEPT !.at = "run", !.open = Append(@, Me.target)])
  /\ UNCHANGED <<saved, spsr, failed>>

\* ... and writes the counter back.  The level is entered.
EnterCount ==
  /\ ~failed
  /\ Me.at = "count"
  /\ count' = Me.slot + 1
  /\ daif' = IF Me.target = IRQ_LEVEL THEN daif \ {"F"} ELSE daif
  /\ Becomes([Me EXCEPT !.at = "run", !.open = Append(@, Me.target)])
  /\ UNCHANGED <<saved, spsr, failed>>

-----------------------------------------------------------------------------
(* LeaveCritical ().                                                        *)

LeaveMask ==
  /\ ~failed
  /\ Me.at = "run" /\ Me.open # <<>>
  /\ daif' = daif \cup {"F"}
  /\ Becomes([Me EXCEPT !.at = "pop"])
  /\ UNCHANGED <<count, saved, spsr, failed>>

LeavePop ==
  /\ ~failed
  /\ Me.at = "pop"
  /\ failed' = (count = 0)
  /\ count' = IF failed' THEN count ELSE count - 1
  /\ Becomes([Me EXCEPT !.at = "restore", !.flags = IF failed' THEN @ ELSE saved[count - 1]])
  /\ UNCHANGED <<daif, saved, spsr>>

BugLeaveRestore ==
  /\ ~failed
  /\ Me.at = "restore"
  /\ daif' = {}
  /\ Becomes([Me EXCEPT !.at = "run", !.open = SubSeq(@, 1, Len(@) - 1)])
  /\ UNCHANGED <<count, saved, spsr, failed>>

LeaveRestore ==
  /\ ~failed
  /\ Me.at = "restore"
  /\ daif' = Me.flags
  /\ Becomes([Me EXCEPT !.at = "run", !.open = SubSeq(@, 1, Len(@) - 1)])
  /\ UNCHANGED <<count, saved, spsr, failed>>

-----------------------------------------------------------------------------
(* Interrupts.  The processor saves the mask in spsr_el1, of which there is  *)
(* one, and masks both.                                                      *)

Irq ==
  /\ ~failed
  /\ "I" \notin daif
  /\ spsr' = daif /\ daif' = {"I", "F"}
  /\ ctx' = Append(ctx, Context(IRQ_LEVEL, "entry", count))
  /\ UNCHANGED <<count, saved, failed>>

\* IRQStub saves it before a FIQ may come ...
IrqEntry ==
  /\ ~failed
  /\ Me.at = "entry"
  /\ daif' = daif \ {"F"}
  /\ Becomes([Me EXCEPT !.at = "run", !.found = spsr])
  /\ UNCHANGED <<count, saved, spsr, failed>>

BugIrqExit ==
  /\ ~failed
  /\ Me.at = "run" /\ Me.level = IRQ_LEVEL /\ Me.open = <<>>
  /\ spsr' = Me.found
  /\ Becomes([Me EXCEPT !.at = "exit"])
  /\ UNCHANGED <<daif, count, saved, failed>>

\* ... and restores it after none can come any more.
IrqExit ==
  /\ ~failed
  /\ Me.at = "run" /\ Me.level = IRQ_LEVEL /\ Me.open = <<>>
  /\ daif' = daif \cup {"F"}
  /\ spsr' = Me.found
  /\ Becomes([Me EXCEPT !.at = "exit"])
  /\ UNCHANGED <<count, saved, failed>>

\* FIQStub does not save it: nothing interrupts a FIQ handler.
Fiq ==
  /\ ~failed
  /\ "F" \notin daif
  /\ spsr' = daif /\ daif' = {"I", "F"}
  /\ ctx' = Append(ctx, Context(FIQ_LEVEL, "run", count))
  /\ UNCHANGED <<count, saved, failed>>

\* eret
Return ==
  /\ ~failed
  /\ \/ Me.at = "exit"
     \/ Me.at = "run" /\ Me.level = FIQ_LEVEL /\ Me.open = <<>>
  /\ daif' = spsr
  /\ ctx' = SubSeq(ctx, 1, Top - 1)
  /\ UNCHANGED <<count, saved, spsr, failed>>

-----------------------------------------------------------------------------
(* Properties.                                                              *)

InSection(c) == c.at = "run" /\ c.open # <<>>

\* What interrupts a section has a higher level than the section: an IRQ
\* handler is never entered inside an IRQ section, a FIQ section runs through.
SectionsExclude ==
  \A i \in 1 .. Top : \A j \in i + 1 .. Top :
    /\ ctx[j].level > ctx[i].level
    /\ InSection(ctx[i]) => ctx[j].level > LevelOf(ctx[i])

\* Wherever a context has been interrupted and however sections are nested in
\* it and in its interrupters, it runs at the highest level of its own and its
\* sections', the counter has grown by the sections it has open since it
\* started, and no assertion fails.
LevelKept ==
  /\ ~failed
  /\ Me.at = "run" => /\ CurrentExecutionLevel = LevelOf(Me)
                      /\ count = Me.base + Len(Me.open)
=============================================================================
