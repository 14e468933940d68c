------------------------------- MODULE Memory -------------------------------
(***************************************************************************)
(* CMemorySystem: two heaps (CHeapAllocator), below and above 1 GB, used   *)
(* by tasks and by interrupt handlers.                                     *)
(* A heap hands out blocks behind a header, from the free list of a size   *)
(* or from the untouched memory behind m_pNext; what is freed goes to the  *)
(* free list of its size and is never split or merged.                     *)
(*                                                                         *)
(* Grain.  What runs between m_SpinLock.Acquire and Release is one step    *)
(* (module CriticalSection).  An interrupt can come between the steps of   *)
(* an operation of a task: HEAP_ANY tries one heap and then the other, a   *)
(* block that moves is allocated, copied and freed, and the panic message  *)
(* is written after the lock is released.  The free lists are sets: which  *)
(* of its blocks a list hands out first makes no difference here.          *)
(***************************************************************************)
EXTENDS Integers

CONSTANTS
  Base, Limit,   \* of the memory of each heap
  Reserve,       \* nReserve of the low heap; the high heap has none
  Header,        \* sizeof (THeapBlockHeader)
  Align,         \* HEAP_BLOCK_ALIGN
  BucketSize,    \* HEAP_BLOCK_BUCKET_SIZES
  WordMod,       \* 2^32: a header keeps the size as u32
  AddrMod,       \* 2^64: addresses and sizes
  Asked,         \* the sizes that are asked for
  Message        \* the size of the panic message

Heap == {"low", "high"}
NoBlock == [at |-> 0]

\* The address behind a block of n bytes at the address a.
RoundUp(n) == (n + Align - 1) - ((n + Align - 1) % Align)
Extent(n) == RoundUp(Header + n)

ASSUME MemoryAssumption ==
  /\ {Reserve, Header, WordMod, AddrMod, Message} \subseteq Nat
  /\ Align \in Nat \ {0} /\ WordMod > 0 /\ Reserve > 0 /\ Header > 0
  /\ BucketSize \subseteq 1 .. WordMod - 1
  /\ Base \in [Heap -> Nat] /\ Limit \in [Heap -> Nat]
  /\ \A h \in Heap : 0 < Base[h] /\ Base[h] <= Limit[h] /\ Limit[h] < AddrMod
  /\ Limit["low"] < Base["high"]
  /\ Asked \subseteq Nat
  /\ \A n \in Asked \cup BucketSize \cup {Message} : Header + n + Align < AddrMod

VARIABLES
  next,      \* m_pNext of each heap
  reserve,   \* m_nReserve of each heap
  live,      \* the blocks in use: [at, room, head, asked]
  free,      \* the blocks on the free lists: [at, room, head]
  lost,      \* (history) the big blocks that were freed
  op,        \* what the task is in the middle of: "none", "any", "move",
             \* "panic"; "panicIrq": an interrupt handler has run out of memory
  want,      \* the size the task asked HEAP_ANY for
  from, to,  \* the block that is moved and the one it is copied to
  halted,    \* the panic message is written, the system halts
  told,      \* (history) the message got the memory it needs
  raided     \* (history) an interrupt handler used the reserve before

heapVars == <<next, reserve, live, free, lost>>
taskVars == <<op, want, from, to>>
panicVars == <<halted, told, raided>>
vars == <<heapVars, taskVars, panicVars>>

Init ==
  /\ next = Base
  /\ reserve = [h \in Heap |-> IF h = "low" THEN Reserve ELSE 0]
  /\ live = {} /\ free = {} /\ lost = {}
  /\ op = "none" /\ want = 0 /\ from = NoBlock /\ to = NoBlock
  /\ halted = FALSE /\ told = FALSE /\ raided = FALSE

-----------------------------------------------------------------------------
(* CHeapAllocator.                                                          *)

HeapOf(b) == IF b.at < Base["high"] THEN "low" ELSE "high"
Unused(b) == [at |-> b.at, room |-> b.room, head |-> b.head]
Used(b, n) == [at |-> b.at, room |-> b.room, head |-> b.head, asked |-> n]

\* The size of the first bucket that holds n, or n if none does.
Size(n) ==
  IF \E s \in BucketSize : n <= s
  THEN CHOOSE s \in BucketSize : n <= s /\ \A r \in BucketSize : n <= r => s <= r
  ELSE n

\* The low heap has room for its reserve, and the reserve for the message.
ASSUME ReserveAssumption ==
  /\ Base["low"] + Reserve <= Limit["low"]
  /\ Extent(Size(Message)) <= Reserve

\* The free blocks of the bucket for n.
Listed(h, n) == {b \in free : HeapOf(b) = h /\ b.head = Size(n) /\ Size(n) \in BucketSize}

Fresh(h, n) == [at |-> next[h], room |-> Extent(Size(n)) - Header, head |-> Size(n) % WordMod]
End(h, n) == (next[h] + Extent(Size(n))) % AddrMod

BugFits(h, n) == End(h, n) <= Limit[h] - reserve[h]
Fits(h, n) == End(h, n) > next[h] /\ End(h, n) <= Limit[h] - reserve[h]

BugAllocates(h, n, b) ==
  \/ Unused(b) \in Listed(h, n) /\ b = Used(b, n) /\ UNCHANGED <<next, free>>
  \/ /\ Listed(h, n) = {} /\ Fits(h, n)
     /\ b = Used(Fresh(h, n), n)
     /\ next' = [next EXCEPT ![h] = End(h, n)]
     /\ UNCHANGED free

\* Allocate finds a block, here with its owner.
Allocates(h, n, b) ==
  \/ /\ Unused(b) \in Listed(h, n)
     /\ b = Used(b, n)
     /\ free' = free \ {Unused(b)}
     /\ UNCHANGED next
  \/ /\ Listed(h, n) = {} /\ Fits(h, n)
     /\ b = Used(Fresh(h, n), n)
     /\ next' = [next EXCEPT ![h] = End(h, n)]
     /\ UNCHANGED free

Candidate(h, n) == {Used(b, n) : b \in Listed(h, n) \cup {Fresh(h, n)}}
Full(h, n) == Listed(h, n) = {} /\ ~Fits(h, n)

\* Free returns a block to the list of its size; a big one is lost.
Frees(b) ==
  /\ live' = live \ {b}
  /\ \/ b.head \in BucketSize /\ free' = free \cup {Unused(b)} /\ UNCHANGED lost
     \/ b.head \notin BucketSize /\ lost' = lost \cup {Unused(b)} /\ UNCHANGED free

-----------------------------------------------------------------------------
(* malloc, new, realloc, free and delete in a task.                         *)

TaskRuns == ~halted /\ op = "none"

Allocate(h, n) ==
  /\ TaskRuns
  /\ \E b \in Candidate(h, n) : Allocates(h, n, b) /\ live' = live \cup {b}
  /\ UNCHANGED <<reserve, lost, taskVars, panicVars>>

BugReserveKept(h) == op' = "panic" /\ UNCHANGED reserve

\* The heap is full: the reserve is given free for the panic message.
OpenReserve(h) == reserve' = [reserve EXCEPT ![h] = 0] /\ op' = "panic"

\* The high heap, which has no reserve, returns 0 instead.
RunOut(h, n) ==
  /\ TaskRuns
  /\ Full(h, n) /\ reserve[h] > 0
  /\ OpenReserve(h)
  /\ UNCHANGED <<next, live, free, lost, want, from, to, panicVars>>

\* HEAP_ANY: the high heap returns 0 ...
AnyHighFull(n) ==
  /\ TaskRuns
  /\ Full("high", n)
  /\ op' = "any" /\ want' = n
  /\ UNCHANGED <<heapVars, from, to, panicVars>>

\* ... and the low one is tried.
AnyLow ==
  /\ ~halted
  /\ op = "any"
  /\ want' = 0
  /\ \/ /\ \E b \in Candidate("low", want) : Allocates("low", want, b) /\ live' = live \cup {b}
        /\ op' = "none"
        /\ UNCHANGED reserve
     \/ /\ Full("low", want)
        /\ OpenReserve("low")
        /\ UNCHANGED <<next, live, free>>
  /\ UNCHANGED <<lost, from, to, panicVars>>

\* ReAllocate: the size in the header is enough.
ReAllocateInPlace(b, n) ==
  /\ TaskRuns
  /\ n > 0 /\ b.head >= n
  /\ live' = (live \ {b}) \cup {Used(b, n)}
  /\ UNCHANGED <<next, reserve, free, lost, taskVars, panicVars>>

\* ReAllocate moves the block: a new one is allocated ...
ReAllocateMove(b, n) ==
  /\ TaskRuns
  /\ b.head < n
  /\ \/ /\ \E c \in Candidate(HeapOf(b), n) :
             Allocates(HeapOf(b), n, c) /\ live' = live \cup {c} /\ to' = c
        /\ from' = b /\ op' = "move"
        /\ UNCHANGED reserve
     \/ /\ Full(HeapOf(b), n) /\ reserve[HeapOf(b)] > 0
        /\ OpenReserve(HeapOf(b))
        /\ UNCHANGED <<next, live, free, from, to>>
  /\ UNCHANGED <<lost, want, panicVars>>

\* ... and after memcpy the old one is freed.
MoveEnd ==
  /\ ~halted
  /\ op = "move"
  /\ Frees(from)
  /\ op' = "none" /\ from' = NoBlock /\ to' = NoBlock
  /\ UNCHANGED <<next, reserve, want, panicVars>>

Free(b) ==
  /\ TaskRuns
  /\ Frees(b)
  /\ UNCHANGED <<next, reserve, taskVars, panicVars>>

\* LogPanic: the message is formatted and written, then halt ().
Panic ==
  /\ ~halted
  /\ op \in {"panic", "panicIrq"}
  /\ halted' = TRUE
  /\ \/ /\ \E b \in Candidate("low", Message) : Allocates("low", Message, b) /\ live' = live \cup {b}
        /\ told' = TRUE
     \/ Full("low", Message) /\ UNCHANGED <<told, next, live, free>>
  /\ UNCHANGED <<reserve, lost, taskVars, raided>>

-----------------------------------------------------------------------------
(* Interrupt handlers use new and delete, on the low heap.                  *)

IrqRuns == ~halted /\ op # "panicIrq"

IrqAllocate(n) ==
  /\ IrqRuns
  /\ \E b \in Candidate("low", n) : Allocates("low", n, b) /\ live' = live \cup {b}
  /\ raided' = (raided \/ op = "panic")
  /\ UNCHANGED <<reserve, lost, taskVars, halted, told>>

IrqRunOut(n) ==
  /\ IrqRuns
  /\ Full("low", n) /\ reserve["low"] > 0
  /\ reserve' = [reserve EXCEPT !["low"] = 0]
  /\ op' = "panicIrq"
  /\ UNCHANGED <<next, live, free, lost, want, from, to, panicVars>>

\* What a task is about to free, or has not got yet, no handler frees.
IrqFree(b) ==
  /\ IrqRuns
  /\ b \notin {from, to}
  /\ Frees(b)
  /\ UNCHANGED <<next, reserve, taskVars, panicVars>>

Halted == halted /\ UNCHANGED vars

Next ==
  \/ \E n \in Asked : \/ \E h \in Heap : Allocate(h, n) \/ RunOut(h, n)
                      \/ AnyHighFull(n) \/ IrqAllocate(n) \/ IrqRunOut(n)
  \/ \E b \in live : \/ Free(b) \/ IrqFree(b)
                     \/ \E n \in Asked : ReAllocateInPlace(b, n) \/ ReAllocateMove(b, n)
  \/ AnyLow \/ MoveEnd \/ Panic
  \/ Halted

Spec == Init /\ [][Next]_vars

-----------------------------------------------------------------------------
(* Properties.                                                              *)

Blocks == {Unused(b) : b \in live} \cup free \cup lost

\* The bytes of a block, its header included.
Span(b) == b.at .. b.at + Header + b.room - 1

\* Every byte a heap has handed out so far is in exactly one block: in use,
\* on a free list or lost, and no two blocks overlap, whatever was rounded,
\* freed, reused or moved.  A header never promises more than its block holds
\* nor, below 4 GB, less than its owner asked for: realloc goes by it.
Partition ==
  /\ \A b, c \in Blocks : b # c => Span(b) \cap Span(c) = {}
  /\ UNION {Span(b) : b \in Blocks} = UNION {Base[h] .. next[h] - 1 : h \in Heap}
  /\ \A b \in Blocks : b.head <= b.room
  /\ \A b \in live : b.asked < WordMod => b.asked <= b.head
  /\ {Unused(b) : b \in live} \cap free = {}

\* "If nReserve in Setup() is non-zero, the system panics if heap is full":
\* and the message of the panic has its memory, unless an interrupt handler
\* takes it before the message is written.
PanicTold == halted /\ ~raided => told

\* Callers see the memory they were promised, and only that.
Store == INSTANCE BlockStore WITH
  Memory <- UNION {Base[h] .. Limit[h] - 1 : h \in Heap},
  Sizes <- Asked \cup {Message},
  owned <- {[at |-> b.at + Header, len |-> b.asked] : b \in live \ {to}},
  down <- op \in {"panic", "panicIrq"}
StoreSpec == Store!Spec
=============================================================================
