---------------------------- MODULE PageAllocator ----------------------------
(***************************************************************************)
(* CPageAllocator, whose spin lock is an IRQ_LEVEL section, called by a    *)
(* task and by IRQ handlers.  A page is a number; the region Setup was     *)
(* given is 0 .. Pages - 1.  Inside the section the free list and m_pNext  *)
(* are read in one step and written in the next.                           *)
(***************************************************************************)
EXTENDS CriticalSection

CONSTANTS
  Pages,         \* the size of the region
  MaxFailed      \* (bound) failed allocations that move m_pNext on

ASSUME PagesAssumption == Pages \in Nat /\ MaxFailed \in Nat

Page == 0 .. Pages - 1
Behind == Pages    \* stands for all the pages behind the limit

VARIABLES
  m_pNext,       \* the first page that was never handed out
  m_pFreeList,   \* the freed pages, the last one first
  call,          \* what each context of ctx is doing: [op, page, list, next]
  owners         \* (history) how many callers hold each page, and pages behind
                 \* the limit

pageVars == <<m_pNext, m_pFreeList, call, owners>>
vars == <<critVars, pageVars>>

NoCall == [op |-> "none", page |-> 0, list |-> <<>>, next |-> 0]
MyCall == call[Top]
Goes(c) == call' = [call EXCEPT ![Top] = c]

Init ==
  /\ CritInit
  /\ m_pNext = 0 /\ m_pFreeList = <<>>
  /\ call = <<NoCall>>
  /\ owners = [p \in Page \cup {Behind} |-> 0]

-----------------------------------------------------------------------------
(* Allocate and Free: the spin lock is acquired ...                         *)

\* FIQ handlers and FIQ sections cannot: it is an IRQ_LEVEL lock.
Calls(op, p) ==
  /\ MyCall.op = "none"
  /\ EnterRead(IRQ_LEVEL)
  /\ Goes([NoCall EXCEPT !.op = op, !.page = p])
  /\ UNCHANGED <<m_pNext, m_pFreeList, owners>>

Allocate == m_pNext < Pages + MaxFailed /\ Calls("alloc", 0)

\* A caller frees a page it holds, and once.
Free(p) ==
  /\ owners[p] > 0
  /\ \A i \in 1 .. Top : ~(call[i].op = "free" /\ call[i].page = p)
  /\ Calls("free", p)

\* ... what is free is read ...
Reads ==
  /\ ~failed /\ Me.at = "run"
  /\ MyCall.op \in {"alloc", "free"}
  /\ Goes([MyCall EXCEPT !.op = IF @ = "alloc" THEN "take" ELSE "link",
                         !.list = m_pFreeList, !.next = m_pNext])
  /\ UNCHANGED <<critVars, m_pNext, m_pFreeList, owners>>

\* ... and the first free page taken from the list,
TakeListed ==
  /\ ~failed /\ MyCall.op = "take" /\ MyCall.list # <<>>
  /\ m_pFreeList' = Tail(MyCall.list)
  /\ owners' = [owners EXCEPT ![Head(MyCall.list)] = @ + 1]
  /\ Goes([MyCall EXCEPT !.op = "done"])
  /\ UNCHANGED <<critVars, m_pNext>>

Within(p) == IF p \in Page THEN p ELSE Behind

\* or the next one: m_pNext moves on, also when the page is behind the limit
\* and 0 returned;
TakeNext ==
  /\ ~failed /\ MyCall.op = "take" /\ MyCall.list = <<>>
  /\ m_pNext' = MyCall.next + 1
  /\ owners' = IF m_pNext' > Pages THEN owners ELSE [owners EXCEPT ![Within(MyCall.next)] = @ + 1]
  /\ Goes([MyCall EXCEPT !.op = "done"])
  /\ UNCHANGED <<critVars, m_pFreeList>>

\* Free puts the page in front of the list;
Link ==
  /\ ~failed /\ MyCall.op = "link"
  /\ m_pFreeList' = <<MyCall.page>> \o MyCall.list
  /\ owners' = [owners EXCEPT ![MyCall.page] = @ - 1]
  /\ Goes([MyCall EXCEPT !.op = "done"])
  /\ UNCHANGED <<critVars, m_pNext>>

\* the spin lock is released.
Release ==
  /\ MyCall.op = "done"
  /\ LeaveMask
  /\ Goes(NoCall)
  /\ UNCHANGED <<m_pNext, m_pFreeList, owners>>

-----------------------------------------------------------------------------
(* Other sections, and interrupts at any time.                              *)

OtherSection ==
  /\ MyCall.op = "none"
  /\ (\E t \in {IRQ_LEVEL, FIQ_LEVEL} : EnterRead(t)) \/ LeaveMask
  /\ UNCHANGED pageVars

Proceed ==
  /\ EnterMask \/ EnterStore \/ EnterCount \/ LeavePop \/ LeaveRestore \/ IrqEntry
  /\ UNCHANGED pageVars

Interrupted ==
  /\ Irq \/ Fiq
  /\ call' = Append(call, NoCall)
  /\ UNCHANGED <<m_pNext, m_pFreeList, owners>>

Returned ==
  /\ MyCall.op = "none"
  /\ \/ IrqExit /\ UNCHANGED call
     \/ Return /\ call' = SubSeq(call, 1, Top - 1)
  /\ UNCHANGED <<m_pNext, m_pFreeList, owners>>

Next ==
  \/ Allocate \/ \E p \in Page : Free(p)
  \/ Reads \/ TakeListed \/ TakeNext \/ Link \/ Release
  \/ OtherSection \/ Proceed \/ Interrupted \/ Returned

Spec == Init /\ [][Next]_vars

-----------------------------------------------------------------------------
(* Properties.                                                              *)

\* Every page below m_pNext and the limit has one place: a caller holds it or
\* it is once on the free list.  No page is handed out twice, none behind the
\* limit, whatever handlers do between the steps of a task's call.
PagesExact ==
  /\ owners[Behind] = 0
  /\ \A p \in Page :
       LET listed == {i \in DOMAIN m_pFreeList : m_pFreeList[i] = p}
       IN  IF p >= m_pNext THEN owners[p] = 0 /\ listed = {}
           ELSE \/ owners[p] = 1 /\ listed = {}
                \/ owners[p] = 0 /\ \E i \in listed : listed = {i}
=============================================================================
