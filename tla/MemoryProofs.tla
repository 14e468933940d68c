---------------------------- MODULE MemoryProofs ----------------------------
(***************************************************************************)
(* Proofs about Memory, for any heaps, bucket sizes, word and address      *)
(* widths, header size and alignment: the blocks partition what the heaps  *)
(* have handed out, callers get what BlockStore promises, and the panic    *)
(* message has its memory.                                                 *)
(***************************************************************************)
EXTENDS Memory, TLAPS, WellFoundedInduction

BlockType == [at : Nat, room : Nat, head : Nat]
LiveType == [at : Nat, room : Nat, head : Nat, asked : Nat]
Wanted == Asked \cup {Message}

-----------------------------------------------------------------------------
(* The size of a block.                                                     *)

\* A set of natural numbers has a smallest one: NatLessThanWellFounded.
LEMMA Smallest ==
  ASSUME NEW S \in SUBSET Nat, S # {} PROVE \E x \in S : \A y \in S : x <= y
<1>1. \E x \in S : \A y \in S : ~(<<y, x>> \in OpToRel(<, Nat))
  BY WFMin, NatLessThanWellFounded, Zenon
<1>2. PICK x \in S : \A y \in S : ~(<<y, x>> \in OpToRel(<, Nat))
  BY <1>1
<1>3. \A y \in S : ~(y < x)
  BY <1>2 DEF OpToRel
<1> QED
  BY <1>3

\* What the assumptions say of the constants.
LEMMA Constants ==
  /\ Header \in Nat \ {0} /\ Align \in Nat \ {0} /\ Reserve \in Nat \ {0}
  /\ WordMod \in Nat \ {0} /\ AddrMod \in Nat \ {0}
  /\ \A s \in BucketSize : s \in Nat /\ s < WordMod
  /\ \A n \in Wanted : n \in Nat
  /\ \A n \in Wanted \cup BucketSize : Header + n + Align < AddrMod
  /\ \A h \in Heap : /\ Base[h] \in Nat /\ Limit[h] \in Nat
                       /\ 0 < Base[h] /\ Base[h] <= Limit[h] /\ Limit[h] < AddrMod
  /\ Limit["low"] < Base["high"] /\ "low" \in Heap /\ "high" \in Heap
<1> USE MemoryAssumption
<1>1. {Reserve, Header, WordMod, AddrMod, Message} \subseteq Nat
  OBVIOUS
<1>2. /\ Reserve \in Nat /\ Header \in Nat /\ WordMod \in Nat /\ AddrMod \in Nat
      /\ Message \in Nat
  BY <1>1
<1>3. \A s \in BucketSize : s \in Nat /\ s < WordMod
  BY <1>2
<1>4. \A h \in Heap : /\ Base[h] \in Nat /\ Limit[h] \in Nat
                       /\ 0 < Base[h] /\ Base[h] <= Limit[h] /\ Limit[h] < AddrMod
  OBVIOUS
<1>5. AddrMod > 0
  BY <1>2, <1>4 DEF Heap
<1> QED
  BY <1>2, <1>3, <1>4, <1>5 DEF Wanted, Heap

\* The bucket chosen holds what is asked for, and its size fits in a header.
LEMMA SizeFacts ==
  ASSUME NEW n \in Wanted
  PROVE  /\ n \in Nat /\ Size(n) \in Nat /\ n <= Size(n)
         /\ Size(n) \in BucketSize \/ Size(n) = n
         /\ n < WordMod => Size(n) < WordMod
         /\ Header + Size(n) + Align < AddrMod
<1>1. n \in Nat /\ BucketSize \subseteq Nat
  BY Constants
<1>2. CASE \E s \in BucketSize : n <= s
  <2> DEFINE S == {s \in BucketSize : n <= s}
  <2>1. PICK s \in S : \A r \in S : s <= r
    BY <1>1, <1>2, Smallest
  <2>2. \E t \in BucketSize : n <= t /\ \A r \in BucketSize : n <= r => t <= r
    BY <2>1
  <2>3. Size(n) \in BucketSize /\ n <= Size(n)
    BY <1>2, <2>2 DEF Size
  <2> HIDE DEF S
  <2>4. Size(n) \in Nat /\ Size(n) < WordMod
    BY <2>3, Constants
  <2>5. Header + Size(n) + Align < AddrMod
    BY <2>3, Constants
  <2> QED
    BY <1>1, <2>3, <2>4, <2>5
<1>3. CASE ~ \E s \in BucketSize : n <= s
  BY <1>1, <1>3, Constants DEF Size
<1> QED
  BY <1>2, <1>3

\* Rounding makes a block larger by less than the alignment.
LEMMA RoundUpFacts ==
  ASSUME NEW n \in Nat
  PROVE  RoundUp(n) \in Nat /\ n <= RoundUp(n) /\ RoundUp(n) < n + Align
<1>1. Align \in Nat \ {0}
  BY Constants
<1>2. PICK x \in Nat : x = n + Align - 1
  BY <1>1
<1>3. x % Align \in 0 .. Align - 1
  BY <1>1
<1>4. RoundUp(n) = x - (x % Align)
  BY <1>2 DEF RoundUp
<1> QED
  BY <1>1, <1>2, <1>3, <1>4

\* A block from untouched memory: the comparison pNextBlock <= m_pNext sees
\* every wrap around, so the block lies between m_pNext and the limit.
LEMMA FreshFacts ==
  ASSUME NEW h \in Heap, NEW n \in Wanted,
         next[h] \in Nat, next[h] <= Limit[h], reserve[h] \in Nat, Fits(h, n)
  PROVE  /\ Fresh(h, n) \in BlockType /\ Fresh(h, n).at = next[h]
         /\ Header + Fresh(h, n).room = Extent(Size(n))
         /\ End(h, n) = next[h] + Extent(Size(n)) /\ Extent(Size(n)) \in Nat
         /\ End(h, n) <= Limit[h] - reserve[h]
         /\ n <= Fresh(h, n).room /\ Fresh(h, n).head <= Fresh(h, n).room
         /\ n < WordMod => n <= Fresh(h, n).head
<1> DEFINE s == Size(n)
           e == Extent(s)
<1>1. /\ n \in Nat /\ s \in Nat /\ n <= s /\ (n < WordMod => s < WordMod)
      /\ Header + s + Align < AddrMod
  BY SizeFacts
<1>2. Header \in Nat /\ WordMod \in Nat \ {0} /\ AddrMod \in Nat \ {0} /\ Align \in Nat
      /\ Limit[h] \in Nat /\ Limit[h] < AddrMod
  BY Constants
<1> HIDE DEF s
<1>3. e \in Nat /\ Header + s <= e /\ e < Header + s + Align
  BY <1>1, <1>2, RoundUpFacts DEF Extent
<1>4. s % WordMod \in Nat /\ s % WordMod <= s /\ (s < WordMod => s % WordMod = s)
  BY <1>1, <1>2
<1> DEFINE a == next[h] + e
<1>5. End(h, n) = a % AddrMod
  BY DEF End, s
<1> HIDE DEF e
<1>6. a \in Nat /\ a < 2 * AddrMod
  BY <1>1, <1>2, <1>3
<1>7. next[h] < a % AddrMod /\ a % AddrMod <= Limit[h] - reserve[h]
  BY <1>5 DEF Fits
<1>8. a >= AddrMod => a % AddrMod = a - AddrMod
  BY <1>2, <1>6
<1>9. a < AddrMod => a % AddrMod = a
  BY <1>2, <1>6
<1>10. a % AddrMod = a
  BY <1>1, <1>2, <1>3, <1>6, <1>7, <1>8, <1>9
<1>11. /\ Fresh(h, n) = [at |-> next[h], room |-> e - Header, head |-> s % WordMod]
       /\ e - Header \in Nat /\ s <= e - Header
  BY <1>1, <1>2, <1>3 DEF Fresh, s, e
<1>12. /\ Fresh(h, n).at = next[h] /\ Fresh(h, n).room = e - Header
       /\ Fresh(h, n).head = s % WordMod
  BY <1>11
<1>13. Fresh(h, n) \in BlockType
  BY <1>4, <1>11 DEF BlockType
<1>14. /\ n <= Fresh(h, n).room /\ Fresh(h, n).head <= Fresh(h, n).room
       /\ n < WordMod => n <= Fresh(h, n).head
  BY <1>1, <1>4, <1>11, <1>12
<1> QED
  BY <1>2, <1>3, <1>5, <1>7, <1>10, <1>12, <1>13, <1>14 DEF e, s

-----------------------------------------------------------------------------
(* The geometry of the blocks, as facts about the numbers in their headers. *)

After(b) == b.at + Header + b.room

\* Each block lies in what its heap has handed out, no two overlap, and
\* together they leave no gap; a header promises no more than its block holds.
Geometry(B, nx) ==
  /\ \A b \in B : Base[HeapOf(b)] <= b.at /\ After(b) <= nx[HeapOf(b)] /\ b.head <= b.room
  /\ \A b, c \in B : b # c => After(b) <= c.at \/ After(c) <= b.at
  /\ \A h \in Heap : \A x \in Base[h] .. nx[h] - 1 : \E b \in B : b.at <= x /\ x < After(b)

\* What the owners of the blocks rely on, and why what they free can be reused.
Owners(L, F) ==
  /\ \A b, c \in L : b.at = c.at => b = c
  /\ \A b \in L : Unused(b) \notin F
  /\ \A b \in L : b.asked \in Wanted /\ b.asked <= b.room /\ (b.asked < WordMod => b.asked <= b.head)

NextInHeap(nx) == /\ nx \in [Heap -> Nat]
                  /\ \A h \in Heap : Base[h] <= nx[h] /\ nx[h] <= Limit[h]

HeapInv ==
  /\ NextInHeap(next)
  /\ live \subseteq LiveType /\ free \subseteq BlockType /\ lost \subseteq BlockType
  /\ Geometry(Blocks, next)
  /\ Owners(live, free)

LEMMA AfterType ==
  ASSUME NEW b, b \in BlockType \/ b \in LiveType
  PROVE  After(b) \in Nat /\ b.at < After(b) /\ b.at \in Nat /\ b.room \in Nat /\ b.head \in Nat
BY Constants DEF After, BlockType, LiveType

LEMMA UnusedType ==
  ASSUME NEW b \in LiveType
  PROVE  Unused(b) \in BlockType /\ Unused(b).at = b.at /\ Unused(b).room = b.room /\ Unused(b).head = b.head
BY DEF Unused, BlockType, LiveType

LEMMA UsedType ==
  ASSUME NEW b \in BlockType, NEW n \in Nat
  PROVE  /\ Used(b, n) \in LiveType /\ Unused(Used(b, n)) = b
         /\ Used(b, n).at = b.at /\ Used(b, n).room = b.room
         /\ Used(b, n).head = b.head /\ Used(b, n).asked = n
BY DEF Unused, Used, BlockType, LiveType

\* The address names the block.
LEMMA OneAddress ==
  ASSUME NEW B \in SUBSET BlockType, NEW nx, Geometry(B, nx), NEW b \in B, NEW c \in B, b.at = c.at
  PROVE  b = c
BY AfterType DEF Geometry

\* A block that starts at m_pNext overlaps no other, of either heap.
LEMMA BehindNext ==
  ASSUME NEW B \in SUBSET BlockType, NEW nx, NextInHeap(nx), Geometry(B, nx),
         NEW h \in Heap, NEW b \in BlockType, b.at = nx[h], After(b) <= Limit[h], NEW c \in B
  PROVE  (After(c) <= b.at \/ After(b) <= c.at) /\ c.at # b.at
<1>b. After(b) \in Nat /\ b.at < After(b) /\ b.at \in Nat
  BY AfterType
<1>n. \A g \in Heap : nx[g] \in Nat /\ Base[g] <= nx[g] /\ nx[g] <= Limit[g] /\ Base[g] \in Nat
                      /\ Limit[g] \in Nat
  BY Constants DEF NextInHeap
<1>1. /\ HeapOf(c) \in Heap /\ c.at \in Nat /\ After(c) \in Nat /\ c.at < After(c)
      /\ Base[HeapOf(c)] <= c.at /\ After(c) <= nx[HeapOf(c)]
  BY AfterType DEF Geometry, HeapOf, Heap
<1>2. CASE HeapOf(c) = h
  BY <1>1, <1>2, <1>b
<1>3. CASE HeapOf(c) = "low" /\ h = "high"
  BY <1>1, <1>3, <1>n, <1>b, Constants
<1>4. CASE HeapOf(c) = "high" /\ h = "low"
  BY <1>1, <1>4, <1>n, <1>b, Constants
<1> QED
  BY <1>1, <1>2, <1>3, <1>4 DEF Heap

\* A block that starts at m_pNext joins the blocks of its heap.
LEMMA GeometryGrows ==
  ASSUME NEW B \in SUBSET BlockType, NEW nx, NextInHeap(nx), Geometry(B, nx),
         NEW h \in Heap, NEW b \in BlockType, b.at = nx[h], After(b) <= Limit[h], b.head <= b.room,
         NEW ny, ny = [nx EXCEPT ![h] = After(b)]
  PROVE  /\ NextInHeap(ny) /\ Geometry(B \cup {b}, ny)
<1>b. After(b) \in Nat /\ b.at < After(b) /\ b.at \in Nat
  BY AfterType
<1>n. \A g \in Heap : nx[g] \in Nat /\ Base[g] <= nx[g] /\ nx[g] <= Limit[g] /\ Base[g] \in Nat
                      /\ Limit[g] \in Nat
  BY Constants DEF NextInHeap
<1>y. /\ ny[h] = After(b) /\ \A g \in Heap : g # h => ny[g] = nx[g]
      /\ \A g \in Heap : ny[g] \in Nat /\ nx[g] <= ny[g]
  <2>1. ny[h] = After(b) /\ \A g \in Heap : g # h => ny[g] = nx[g]
    BY DEF NextInHeap
  <2> QED
    BY <2>1, <1>b, <1>n
<1>1. NextInHeap(ny)
  <2>1. ny \in [Heap -> Nat]
    BY <1>b DEF NextInHeap
  <2> QED
    BY <2>1, <1>b, <1>n, <1>y DEF NextInHeap
<1>2. HeapOf(b) = h
  BY <1>n, Constants DEF HeapOf, Heap
<1>3. \A c \in B : After(c) <= b.at \/ After(b) <= c.at
  BY BehindNext
<1>5. \A c \in B \cup {b} : Base[HeapOf(c)] <= c.at /\ After(c) <= ny[HeapOf(c)] /\ c.head <= c.room
  <2>1. Base[h] <= b.at /\ After(b) <= ny[h]
    BY <1>b, <1>n, <1>y
  <2>2. ASSUME NEW c \in B
        PROVE Base[HeapOf(c)] <= c.at /\ After(c) <= ny[HeapOf(c)] /\ c.head <= c.room
    <3>1. /\ HeapOf(c) \in Heap /\ After(c) \in Nat
          /\ Base[HeapOf(c)] <= c.at /\ After(c) <= nx[HeapOf(c)] /\ c.head <= c.room
      BY AfterType DEF Geometry, HeapOf, Heap
    <3>2. nx[HeapOf(c)] \in Nat /\ ny[HeapOf(c)] \in Nat /\ nx[HeapOf(c)] <= ny[HeapOf(c)]
      BY <3>1, <1>n, <1>y
    <3> QED
      BY <3>1, <3>2
  <2> QED
    BY <2>1, <2>2, <1>2
<1>6. \A c, d \in B \cup {b} : c # d => After(c) <= d.at \/ After(d) <= c.at
  BY <1>3 DEF Geometry
<1>7. ASSUME NEW g \in Heap, NEW x \in Base[g] .. ny[g] - 1
      PROVE  \E c \in B \cup {b} : c.at <= x /\ x < After(c)
  <2>1. CASE x \in Base[g] .. nx[g] - 1
    BY <2>1 DEF Geometry
  <2>2. CASE x \notin Base[g] .. nx[g] - 1
    <3>1. g = h
      BY <2>2, <1>y
    <3>2. b.at <= x /\ x < After(b)
      BY <2>2, <3>1, <1>n, <1>b, <1>y
    <3> QED
      BY <3>2
  <2> QED
    BY <2>1, <2>2
<1> QED
  BY <1>1, <1>5, <1>6, <1>7 DEF Geometry

-----------------------------------------------------------------------------
(* What the operations of a heap do to its blocks.                          *)

LEMMA BlocksType ==
  ASSUME HeapInv
  PROVE  /\ Blocks \in SUBSET BlockType
         /\ \A b \in live : b \in LiveType /\ Unused(b) \in Blocks
         /\ \A b \in free : b \in BlockType /\ b \in Blocks
BY UnusedType DEF HeapInv, Blocks

\* The block that is handed out is new to its owner and large enough, whether
\* it comes from a free list or from untouched memory.
LEMMA AllocatesInv ==
  ASSUME HeapInv, NEW h \in Heap, NEW n \in Wanted, reserve[h] \in Nat, NEW c,
         Allocates(h, n, c), live' = live \cup {c}, UNCHANGED lost
  PROVE  /\ HeapInv'
         /\ c \in LiveType /\ c.asked = n /\ \A b \in live : b.at # c.at
         /\ \/ next' = next
            \/ /\ \A g \in Heap : g # h => next'[g] = next[g]
               /\ next'[h] <= Limit[h] - reserve[h]
<1>n. n \in Nat /\ n <= Size(n) /\ (n < WordMod => Size(n) < WordMod)
  BY SizeFacts
<1>t. NextInHeap(next) /\ Geometry(Blocks, next) /\ Owners(live, free)
  BY DEF HeapInv
<1>1. CASE /\ Unused(c) \in Listed(h, n) /\ c = Used(c, n)
           /\ free' = free \ {Unused(c)} /\ UNCHANGED next
  <2>1. PICK u \in free : u = Unused(c) /\ u.head = Size(n)
    BY <1>1 DEF Listed
  <2>2. u \in BlockType /\ u \in Blocks
    BY BlocksType
  <2>3. c = Used(u, n)
    BY <1>1, <2>1 DEF Unused, Used
  <2>4. /\ c \in LiveType /\ Unused(c) = u /\ c.asked = n /\ c.at = u.at
        /\ c.room = u.room /\ c.head = u.head
    BY <1>n, <2>2, <2>3, UsedType
  <2>5. ASSUME NEW b \in live, b.at = c.at PROVE FALSE
    <3>1. Unused(b) \in Blocks /\ Unused(b).at = u.at
      BY <2>4, <2>5, BlocksType, UnusedType
    <3>2. Unused(b) = u
      BY <3>1, <2>2, <1>t, BlocksType, OneAddress
    <3> QED
      BY <3>2, <1>t DEF Owners
  <2>6. Blocks' = Blocks
    BY <1>1, <2>1, <2>4 DEF Blocks
  <2>7. n <= c.room /\ (n < WordMod => n <= c.head)
    <3>1. u.head <= u.room /\ u.room \in Nat /\ u.head \in Nat
      BY <2>2, <1>t, AfterType DEF Geometry
    <3> QED
      BY <3>1, <2>1, <2>4, <1>n
  <2>8. Owners(live', free')
    <3>1. \A a, b \in live' : a.at = b.at => a = b
      BY <2>5, <1>t DEF Owners
    <3>2. \A b \in live' : Unused(b) \notin free'
      BY <2>1, <2>4, <1>1, <1>t DEF Owners
    <3>3. \A b \in live' : b.asked \in Wanted /\ b.asked <= b.room
                           /\ (b.asked < WordMod => b.asked <= b.head)
      BY <2>4, <2>7, <1>t DEF Owners
    <3> QED
      BY <3>1, <3>2, <3>3 DEF Owners
  <2>9. live' \subseteq LiveType /\ free' \subseteq BlockType /\ lost' \subseteq BlockType
    BY <1>1, <2>4 DEF HeapInv
  <2> QED
    BY <1>1, <1>t, <2>4, <2>5, <2>6, <2>8, <2>9 DEF HeapInv
<1>2. CASE /\ Fits(h, n) /\ c = Used(Fresh(h, n), n)
           /\ next' = [next EXCEPT ![h] = End(h, n)]
           /\ UNCHANGED free
  <2>0. next[h] \in Nat /\ next[h] <= Limit[h] /\ Limit[h] \in Nat
    BY <1>t, Constants DEF NextInHeap
  <2>1. PICK u : u = Fresh(h, n)
    OBVIOUS
  <2>2. /\ u \in BlockType /\ u.at = next[h] /\ u.head <= u.room /\ n <= u.room
        /\ (n < WordMod => n <= u.head)
        /\ Header + u.room = Extent(Size(n)) /\ Extent(Size(n)) \in Nat
        /\ End(h, n) = next[h] + Extent(Size(n)) /\ End(h, n) <= Limit[h] - reserve[h]
    BY <1>2, <2>0, <2>1, FreshFacts
  <2>3. After(u) = End(h, n) /\ After(u) <= Limit[h]
    BY <2>0, <2>2, AfterType, Constants DEF After
  <2>4. /\ c \in LiveType /\ Unused(c) = u /\ c.asked = n /\ c.at = u.at
        /\ c.room = u.room /\ c.head = u.head
    BY <1>2, <1>n, <2>1, <2>2, UsedType
  <2>5. /\ NextInHeap(next') /\ Geometry(Blocks \cup {u}, next') /\ \A d \in Blocks : d.at # u.at
    <3>1. next' = [next EXCEPT ![h] = After(u)]
      BY <1>2, <2>3
    <3>2. Blocks \in SUBSET BlockType
      BY BlocksType
    <3>3. PICK ny : ny = [next EXCEPT ![h] = After(u)]
      OBVIOUS
    <3>4. NextInHeap(ny) /\ Geometry(Blocks \cup {u}, ny) /\ \A d \in Blocks : d.at # u.at
      <4>1. NextInHeap(ny) /\ Geometry(Blocks \cup {u}, ny)
        BY <1>t, <2>2, <2>3, <3>2, <3>3, GeometryGrows
      <4>2. \A d \in Blocks : d.at # u.at
        BY <1>t, <2>2, <2>3, <3>2, BehindNext
      <4> QED
        BY <4>1, <4>2
    <3> QED
      BY <3>1, <3>3, <3>4
  <2>6. Blocks' = Blocks \cup {u}
    BY <1>2, <2>4 DEF Blocks
  <2>7. \A b \in live : b.at # c.at
    BY <2>4, <2>5, BlocksType, UnusedType
  <2>8. Owners(live', free')
    <3>1. \A a, b \in live' : a.at = b.at => a = b
      BY <2>7, <1>t DEF Owners
    <3>2. \A b \in live' : Unused(b) \notin free'
      BY <2>4, <2>5, <1>2, <1>t, BlocksType DEF Owners
    <3>3. \A b \in live' : b.asked \in Wanted /\ b.asked <= b.room
                           /\ (b.asked < WordMod => b.asked <= b.head)
      BY <2>2, <2>4, <1>t DEF Owners
    <3> QED
      BY <3>1, <3>2, <3>3 DEF Owners
  <2>9. live' \subseteq LiveType /\ free' \subseteq BlockType /\ lost' \subseteq BlockType
    BY <1>2, <2>4 DEF HeapInv
  <2>10. next'[h] <= Limit[h] - reserve[h] /\ \A g \in Heap : g # h => next'[g] = next[g]
    BY <1>2, <1>t, <2>2 DEF NextInHeap
  <2> QED
    BY <2>4, <2>5, <2>6, <2>7, <2>8, <2>9, <2>10 DEF HeapInv
<1> QED
  BY <1>1, <1>2 DEF Allocates

\* A block that is freed stays a block: on the list of its size, or lost.
LEMMA FreesInv ==
  ASSUME HeapInv, NEW b \in live, Frees(b), UNCHANGED next PROVE HeapInv'
<1>t. NextInHeap(next) /\ Geometry(Blocks, next) /\ Owners(live, free)
  BY DEF HeapInv
<1>1. live' = live \ {b} /\ free' \cup lost' = free \cup lost \cup {Unused(b)}
      /\ free' \subseteq free \cup {Unused(b)}
  BY DEF Frees
<1>2. Unused(b) \in BlockType
  BY UnusedType, BlocksType
<1>3. Blocks' = Blocks
  BY <1>1 DEF Blocks
<1>4. \A c \in live' : Unused(c) # Unused(b)
  BY <1>1, <1>t, UnusedType, BlocksType DEF Owners
<1>5. Owners(live', free')
  BY <1>1, <1>4, <1>t DEF Owners
<1>6. live' \subseteq LiveType /\ free' \subseteq BlockType /\ lost' \subseteq BlockType
  BY <1>1, <1>2 DEF HeapInv
<1> QED
  BY <1>t, <1>3, <1>5, <1>6 DEF HeapInv

\* A block that is kept for another size keeps its place and its header.
LEMMA KeepsInv ==
  ASSUME HeapInv, NEW b \in live, NEW n \in Wanted, n <= b.head,
         live' = (live \ {b}) \cup {Used(b, n)}, UNCHANGED <<next, free, lost>>
  PROVE  /\ HeapInv'
         /\ Used(b, n).at = b.at /\ Used(b, n).asked = n
<1>t. NextInHeap(next) /\ Geometry(Blocks, next) /\ Owners(live, free)
  BY DEF HeapInv
<1>1. /\ Used(b, n) \in LiveType /\ Unused(Used(b, n)) = Unused(b)
      /\ Used(b, n).at = b.at /\ Used(b, n).room = b.room
      /\ Used(b, n).head = b.head /\ Used(b, n).asked = n
  BY BlocksType, Constants DEF Unused, Used, LiveType
<1>2. Unused(b) \in Blocks /\ b.head <= b.room /\ b.head \in Nat /\ b.room \in Nat /\ n \in Nat
  BY BlocksType, UnusedType, AfterType, Constants DEF HeapInv, Geometry
<1>3. n <= b.room
  BY <1>2
<1>4. Blocks' = Blocks
  BY <1>1 DEF Blocks
<1>5. Owners(live', free')
  BY <1>1, <1>3, <1>t DEF Owners
<1> QED
  BY <1>t, <1>1, <1>4, <1>5 DEF HeapInv

-----------------------------------------------------------------------------
(* The inductive invariant.                                                 *)

Panicking == op \in {"panic", "panicIrq"}

\* Both blocks of a move are in use and are different ones; the reserve is
\* closed until the panic.
TaskInv ==
  /\ op \in {"none", "any", "move", "panic", "panicIrq"}
  /\ op = "any" => want \in Wanted
  /\ \/ from = NoBlock /\ to = NoBlock /\ op # "move"
     \/ from \in live /\ to \in live /\ from # to /\ op \in {"move", "panicIrq"}
  /\ reserve = [h \in Heap |-> IF h = "low" /\ ~Panicking THEN Reserve ELSE 0]
  /\ halted => Panicking

\* Until an interrupt handler has taken it, the reserve is untouched.
ReserveInv ==
  /\ raided => Panicking
  /\ ~raided /\ ~halted => next["low"] + Reserve <= Limit["low"]
  /\ PanicTold

Inv == HeapInv /\ TaskInv /\ ReserveInv

\* No block is at the address 0, which stands for none.
LEMMA PositiveAddress ==
  ASSUME NEW B \in SUBSET BlockType, NEW nx, Geometry(B, nx), NEW b \in LiveType, Unused(b) \in B
  PROVE  b.at > 0 /\ b # NoBlock
<1>1. /\ HeapOf(Unused(b)) \in Heap /\ Base[HeapOf(Unused(b))] <= Unused(b).at
      /\ Unused(b).at = b.at /\ b.at \in Nat
  BY UnusedType, AfterType DEF Geometry, HeapOf, Heap
<1>2. b.at > 0
  BY <1>1, Constants
<1> QED
  BY <1>2 DEF NoBlock

LEMMA InvFacts ==
  ASSUME Inv
  PROVE  /\ \A h \in Heap : reserve[h] \in Nat
         /\ reserve["high"] = 0
         /\ reserve["low"] = IF Panicking THEN 0 ELSE Reserve
         /\ \A g \in Heap : next[g] \in Nat /\ Limit[g] \in Nat
         /\ NoBlock \notin live
         /\ \A b \in live : b.at > 0
<1>1. reserve = [h \in Heap |-> IF h = "low" /\ ~Panicking THEN Reserve ELSE 0]
  BY DEF Inv, TaskInv
<1>2. /\ reserve["high"] = 0 /\ reserve["low"] = IF Panicking THEN 0 ELSE Reserve
      /\ \A h \in Heap : reserve[h] \in Nat
  BY <1>1, Constants DEF Heap
<1>3. \A g \in Heap : next[g] \in Nat /\ Limit[g] \in Nat
  BY Constants DEF Inv, HeapInv, NextInHeap
<1>4. \A b \in live : b.at > 0
  BY BlocksType, PositiveAddress DEF Inv, HeapInv
<1>5. NoBlock.at = 0
  BY DEF NoBlock
<1> QED
  BY <1>2, <1>3, <1>4, <1>5

LEMMA InitInv == Init => Inv
<1> SUFFICES ASSUME Init PROVE Inv
  OBVIOUS
<1>0. next = Base /\ Base \in [Heap -> Nat]
  BY MemoryAssumption DEF Init
<1>1. Blocks = {}
  BY DEF Init, Blocks
<1>2. NextInHeap(next)
  BY <1>0, Constants DEF NextInHeap
<1>3. Geometry(Blocks, next)
  <2>1. \A h \in Heap : Base[h] .. next[h] - 1 = {}
    BY <1>0, Constants
  <2> QED
    BY <1>1, <2>1 DEF Geometry
<1>4. HeapInv
  BY <1>2, <1>3 DEF Init, HeapInv, Owners
<1>5. TaskInv
  BY DEF Init, TaskInv, Panicking
<1>6. ReserveInv
  BY <1>0, ReserveAssumption DEF Init, ReserveInv, PanicTold
<1> QED
  BY <1>4, <1>5, <1>6 DEF Inv

-----------------------------------------------------------------------------
(* What callers see: the pieces of BlockStore.                              *)

Piece(b) == [at |-> b.at + Header, len |-> b.asked]
Pieces(L) == {Piece(b) : b \in L}

\* Blocks that some state of the heaps has in use together.
Proper(L) ==
  \E B, nx, F :
    /\ B \in SUBSET BlockType /\ NextInHeap(nx) /\ Geometry(B, nx)
    /\ L \in SUBSET LiveType /\ \A b \in L : Unused(b) \in B
    /\ Owners(L, F)

LEMMA LiveProper == HeapInv => Proper(live)
BY BlocksType DEF Proper, HeapInv

\* The owners of blocks see pieces that lie in the memory and do not overlap.
LEMMA PieceApart ==
  ASSUME NEW L, Proper(L), NEW b \in L, NEW O \in SUBSET L, b \notin O
  PROVE  Piece(b).len \in Wanted /\ Piece(b) \notin Pieces(O) /\ Store!Apart(Piece(b), Pieces(O))
<1>0. PICK B, nx, F :
        /\ B \in SUBSET BlockType /\ NextInHeap(nx) /\ Geometry(B, nx)
        /\ L \in SUBSET LiveType /\ \A a \in L : Unused(a) \in B
        /\ Owners(L, F)
  BY DEF Proper
<1>1. \A c \in L : /\ c.at \in Nat /\ c.room \in Nat /\ c.asked \in Nat /\ c.asked <= c.room
                   /\ c.asked \in Wanted
                   /\ Piece(c).at = c.at + Header /\ Piece(c).len = c.asked
                   /\ After(c) = c.at + Header + c.room
  BY <1>0, Constants DEF LiveType, Owners, Piece, After
<1>2. ASSUME NEW c \in L, c # b
      PROVE  /\ Piece(b).at # Piece(c).at
             /\ Store!Cells(Piece(b)) \cap Store!Cells(Piece(c)) = {}
  <2>1. /\ Unused(b) \in B /\ Unused(c) \in B /\ Unused(b).at = b.at /\ Unused(c).at = c.at
        /\ After(Unused(b)) = After(b) /\ After(Unused(c)) = After(c)
    BY <1>0, UnusedType DEF After
  <2>2. b.at # c.at
    BY <1>0, <1>2 DEF Owners
  <2>3. After(b) <= c.at \/ After(c) <= b.at
    BY <1>0, <2>1, <2>2 DEF Geometry
  <2>4. Store!Cells(Piece(b)) = b.at + Header .. b.at + Header + b.asked - 1
    BY <1>1 DEF Store!Cells
  <2>5. Store!Cells(Piece(c)) = c.at + Header .. c.at + Header + c.asked - 1
    BY <1>1 DEF Store!Cells
  <2>6. b.at + Header # c.at + Header
    BY <1>1, <2>2, Constants
  <2>7. (b.at + Header .. b.at + Header + b.asked - 1) \cap (c.at + Header .. c.at + Header + c.asked - 1) = {}
    BY <1>1, <2>3, Constants
  <2> QED
    BY <1>1, <2>4, <2>5, <2>6, <2>7
<1>3. Store!Cells(Piece(b)) \subseteq UNION {Base[h] .. Limit[h] - 1 : h \in Heap}
  <2>1. PICK h \in Heap : Base[h] <= b.at /\ After(b) <= nx[h]
    BY <1>0, UnusedType DEF Geometry, After, HeapOf, Heap
  <2>2. After(b) <= Limit[h] /\ Base[h] \in Nat /\ Limit[h] \in Nat
    <3>1. nx[h] \in Nat /\ nx[h] <= Limit[h] /\ Base[h] \in Nat /\ Limit[h] \in Nat
      BY <1>0, Constants DEF NextInHeap
    <3> QED
      BY <1>1, <2>1, <3>1, Constants
  <2>3. b.at + Header .. b.at + Header + b.asked - 1 \subseteq Base[h] .. Limit[h] - 1
    BY <1>1, <2>1, <2>2, Constants
  <2>4. Store!Cells(Piece(b)) = b.at + Header .. b.at + Header + b.asked - 1
    BY <1>1 DEF Store!Cells
  <2> QED
    BY <2>3, <2>4
<1>4. \A q \in Pieces(O) : Piece(b).at # q.at /\ Store!Cells(Piece(b)) \cap Store!Cells(q) = {}
  BY <1>2 DEF Pieces
<1> QED
  BY <1>1, <1>3, <1>4 DEF Store!Apart

\* What BlockStore sees of a state of Memory.
Owned == Pieces(live \ {to})

LEMMA StoreView ==
  /\ Owned = {[at |-> b.at + Header, len |-> b.asked] : b \in live \ {to}}
  /\ Owned' = {[at |-> b.at + Header, len |-> b.asked] : b \in live' \ {to'}}
BY DEF Owned, Pieces, Piece

LEMMA LiveProperNext == ASSUME HeapInv' PROVE Proper(live')
<1>1. PICK B, nx, F : B = Blocks' /\ nx = next' /\ F = free'
  OBVIOUS
<1>2. PICK L : L = live'
  OBVIOUS
<1>3. /\ NextInHeap(nx) /\ Geometry(B, nx) /\ B \in SUBSET BlockType /\ L \in SUBSET LiveType
      /\ \A b \in L : Unused(b) \in B
      /\ Owners(L, F)
  BY <1>1, <1>2, UnusedType DEF HeapInv, Blocks
<1>4. Proper(L)
  BY <1>3 DEF Proper
<1> QED
  BY <1>2, <1>4

\* A block that joins the others is a piece taken.
LEMMA TakeStore ==
  ASSUME Inv, HeapInv', NEW c, c \in LiveType, c.asked \in Wanted,
         \A b \in live : b.at # c.at,
         live' = live \cup {c}, UNCHANGED to, Panicking' = Panicking
  PROVE  Store!Next
<1> DEFINE O == live \ {to}
<1>0. c # to
  <2>1. PICK B, nx : B = Blocks' /\ nx = next'
    OBVIOUS
  <2>2. Geometry(B, nx) /\ B \in SUBSET BlockType /\ Unused(c) \in B
    BY <2>1, UnusedType DEF HeapInv, Blocks
  <2>3. c # NoBlock
    BY <2>2, PositiveAddress
  <2> QED
    BY <2>3 DEF Inv, TaskInv
<1>1. O \in SUBSET live' /\ c \in live' /\ c \notin O /\ live' \ {to'} = O \cup {c}
  BY <1>0
<1>2. PICK L : L = live'
  OBVIOUS
<1>3. Proper(L)
  BY <1>2, LiveProperNext
<1>4. O \in SUBSET L /\ c \in L
  BY <1>1, <1>2
<1> HIDE DEF O
<1>5. Piece(c).len \in Wanted /\ Piece(c) \notin Pieces(O) /\ Store!Apart(Piece(c), Pieces(O))
  BY <1>1, <1>3, <1>4, PieceApart
<1>6. Pieces(O \cup {c}) = Pieces(O) \cup {Piece(c)}
  BY DEF Pieces
<1>7. Owned = Pieces(O) /\ Owned' = Pieces(O) \cup {Piece(c)}
  BY <1>1, <1>6 DEF Owned, O
<1>8. Store!Take
  <2>1. Piece(c) \in Owned' \ Owned /\ Piece(c).len \in Wanted /\ Store!Apart(Piece(c), Owned)
        /\ Owned' = Owned \cup {Piece(c)}
    BY <1>5, <1>7
  <2> QED
    BY <2>1, StoreView DEF Store!Take, Wanted
<1> QED
  BY <1>8 DEF Store!Next, Store!Use, Store!Linger, Panicking

\* A block that leaves the others is a piece given back.
LEMMA GiveStore ==
  ASSUME Inv, NEW b \in live, b # to, live' = live \ {b}, UNCHANGED to, Panicking' = Panicking
  PROVE  Store!Next
<1> DEFINE O == live \ {to}
<1>1. live' \ {to'} = O \ {b} /\ b \in O
  OBVIOUS
<1>2. \A c \in O : c # b => Piece(c) # Piece(b)
  <2> SUFFICES ASSUME NEW c \in live, c # b PROVE Piece(c) # Piece(b)
    OBVIOUS
  <2>1. c.at # b.at /\ c.at \in Nat /\ b.at \in Nat
    BY BlocksType, AfterType DEF Inv, HeapInv, Owners
  <2>2. c.at + Header # b.at + Header
    BY <2>1, Constants
  <2> QED
    BY <2>2 DEF Piece
<1> HIDE DEF O
<1>3. Pieces(O \ {b}) = Pieces(O) \ {Piece(b)} /\ Piece(b) \in Pieces(O)
  BY <1>1, <1>2 DEF Pieces
<1>4. Owned' = Owned \ {Piece(b)} /\ Piece(b) \in Owned
  BY <1>1, <1>3 DEF Owned, O
<1>5. \E p \in Owned : Owned' = Owned \ {p}
  BY <1>4
<1>6. \E p \in Owned : Store!Give(p)
  BY <1>5, StoreView DEF Store!Give
<1> QED
  BY <1>6, StoreView DEF Store!Next, Store!Use, Store!Linger, Panicking

\* A piece is replaced by another, at its own place or at a new one.
LEMMA ResizeStore ==
  ASSUME Inv, NEW p \in live \ {to}, NEW q \in live' \ {to'},
         live' \ {to'} = ((live \ {to}) \ {p}) \cup {q},
         \A c \in (live \ {to}) \ {p} : c # q,
         NEW L, Proper(L), (live \ {to}) \ {p} \subseteq L, q \in L,
         q.at # p.at => p \in L,
         ~Panicking, ~Panicking'
  PROVE  Store!Next
<1> DEFINE O == live \ {to}
           R == O \ {p}
<1>1. /\ live' \ {to'} = R \cup {q} /\ q \notin R /\ p \notin R /\ O = R \cup {p} /\ p \in live
  OBVIOUS
<1>3. L \in SUBSET LiveType
  BY DEF Proper
<1>4. R \in SUBSET L /\ q \in L /\ (q.at # p.at => O \in SUBSET L)
  BY <1>1
<1>5. \A c \in R : Piece(c) # Piece(p)
  <2> SUFFICES ASSUME NEW c \in live, c # p PROVE Piece(c) # Piece(p)
    OBVIOUS
  <2>1. c.at # p.at /\ c.at \in Nat /\ p.at \in Nat
    BY BlocksType, AfterType DEF Inv, HeapInv, Owners
  <2>2. c.at + Header # p.at + Header
    BY <2>1, Constants
  <2> QED
    BY <2>2 DEF Piece
<1>6. /\ Piece(p).at = p.at + Header /\ Piece(q).at = q.at + Header
      /\ p.at \in Nat /\ q.at \in Nat
  <2>1. p \in LiveType /\ q \in LiveType
    BY <1>1, <1>3, <1>4 DEF Inv, HeapInv
  <2> QED
    BY <2>1 DEF Piece, LiveType
<1> HIDE DEF O, R
<1>7. Pieces(R \cup {q}) = Pieces(R) \cup {Piece(q)}
  BY DEF Pieces
<1>8. Pieces(O) \ {Piece(p)} = Pieces(R) /\ Piece(p) \in Pieces(O)
  BY <1>1, <1>5 DEF Pieces
<1>9. Piece(q).len \in Wanted /\ Store!Apart(Piece(q), Pieces(R))
  BY <1>1, <1>3, <1>4, PieceApart
<1>10. Piece(q).at # Piece(p).at => Store!Apart(Piece(q), Pieces(O))
  <2> SUFFICES ASSUME Piece(q).at # Piece(p).at PROVE Store!Apart(Piece(q), Pieces(O))
    OBVIOUS
  <2>1. q.at # p.at /\ q # p
    BY <1>6
  <2>2. q \notin O /\ O \in SUBSET L
    BY <2>1, <1>1, <1>4
  <2> QED
    BY <2>2, <1>3, <1>4, PieceApart
<1>11. Owned = Pieces(O) /\ Owned' = (Owned \ {Piece(p)}) \cup {Piece(q)}
  BY <1>1, <1>7, <1>8 DEF Owned, O
<1>12. Store!Apart(Piece(q), IF Piece(q).at = Piece(p).at THEN Owned \ {Piece(p)} ELSE Owned)
  BY <1>8, <1>9, <1>10, <1>11
<1>13. Piece(q) \in Owned' /\ Piece(p) \in Owned
  BY <1>8, <1>11
<1>14. \E r \in Owned : Store!Resize(r)
  <2>1. PICK r, z : r = Piece(p) /\ z = Piece(q)
    OBVIOUS
  <2>2. /\ z \in Owned' /\ z.len \in Wanted /\ Owned' = (Owned \ {r}) \cup {z}
        /\ Store!Apart(z, IF z.at = r.at THEN Owned \ {r} ELSE Owned)
    BY <2>1, <1>9, <1>11, <1>12, <1>13
  <2>3. PICK X, Y : X = Owned /\ Y = Owned'
    OBVIOUS
  <2>4. /\ z \in Y /\ z.len \in Wanted /\ Y = (X \ {r}) \cup {z}
        /\ Store!Apart(z, IF z.at = r.at THEN X \ {r} ELSE X)
    BY <2>2, <2>3
  <2>5. /\ X = {[at |-> b.at + Header, len |-> b.asked] : b \in live \ {to}}
        /\ Y = {[at |-> b.at + Header, len |-> b.asked] : b \in live' \ {to'}}
    BY <2>3, StoreView
  <2>6. Store!Resize(r)
    BY ONLY <2>4, <2>5 DEF Store!Resize, Wanted
  <2> QED
    BY <2>1, <2>6, <1>13
<1> QED
  BY <1>14, StoreView DEF Store!Next, Store!Use, Panicking

\* The system runs out of memory: nobody loses a piece.
LEMMA PanicStore ==
  ASSUME UNCHANGED <<live, to>>, ~Panicking, Panicking' PROVE Store!Next
BY DEF Store!Next, Store!Panic, Panicking

LEMMA SameStore ==
  ASSUME Owned' = Owned, Panicking' = Panicking PROVE UNCHANGED Store!vars
BY StoreView DEF Store!vars, Panicking

-----------------------------------------------------------------------------
(* The actions.                                                             *)

\* The end of the memory of a heap that has given a block.
LEMMA ReserveKept ==
  ASSUME Inv, HeapInv', NEW h \in Heap, ~Panicking,
         next' = next \/ (/\ \A g \in Heap : g # h => next'[g] = next[g]
                          /\ next'[h] <= Limit[h] - reserve[h])
  PROVE  next'["low"] + Reserve <= Limit["low"] \/ raided \/ halted
<1>1. /\ reserve["low"] = Reserve /\ Reserve \in Nat
      /\ next["low"] \in Nat /\ Limit["low"] \in Nat /\ "low" \in Heap
  BY InvFacts, Constants
<1>2. next["low"] + Reserve <= Limit["low"] \/ raided \/ halted
  BY DEF Inv, ReserveInv
<1>3. CASE next' = next
  BY <1>2, <1>3
<1>4. CASE /\ \A g \in Heap : g # h => next'[g] = next[g]
           /\ next'[h] <= Limit[h] - reserve[h]
  <2>1. CASE h = "low"
    <3>1. next'["low"] <= Limit["low"] - Reserve
      BY <1>1, <1>4, <2>1
    <3>2. next'["low"] \in Nat
      BY <1>1 DEF HeapInv, NextInHeap
    <3> QED
      BY <3>1, <3>2, <1>1
  <2>2. CASE h # "low"
    BY <1>1, <1>2, <1>4, <2>2
  <2> QED
    BY <2>1, <2>2
<1> QED
  BY <1>3, <1>4

LEMMA AllocateStep ==
  ASSUME Inv, NEW h \in Heap, NEW n \in Asked, Allocate(h, n) PROVE Inv' /\ Store!Next
<1>1. PICK c : Allocates(h, n, c) /\ live' = live \cup {c}
  BY DEF Allocate
<1>2. /\ op = "none" /\ ~halted
      /\ UNCHANGED <<reserve, lost, op, want, from, to, halted, told, raided>>
  BY DEF Allocate, TaskRuns, taskVars, panicVars
<1>3. /\ HeapInv' /\ c \in LiveType /\ c.asked = n /\ \A b \in live : b.at # c.at
      /\ \/ next' = next
         \/ /\ \A g \in Heap : g # h => next'[g] = next[g]
            /\ next'[h] <= Limit[h] - reserve[h]
  BY <1>1, <1>2, AllocatesInv, InvFacts DEF Inv, Wanted
<1>4. ~Panicking /\ ~Panicking' /\ from = NoBlock /\ to = NoBlock
  BY <1>2, InvFacts DEF Panicking, Inv, TaskInv
<1>5. TaskInv'
  BY <1>2, <1>4 DEF Inv, TaskInv, Panicking
<1>6. ReserveInv'
  BY <1>2, <1>3, <1>4, ReserveKept DEF Inv, ReserveInv, PanicTold
<1>7. Panicking' = Panicking
  BY <1>2 DEF Panicking
<1>8. Store!Next
  BY <1>1, <1>2, <1>3, <1>7, TakeStore DEF Wanted
<1> QED
  BY <1>3, <1>5, <1>6, <1>8 DEF Inv

LEMMA SameHeap == ASSUME HeapInv, UNCHANGED <<next, live, free, lost>> PROVE HeapInv'
<1>1. Blocks' = Blocks
  BY DEF Blocks
<1> QED
  BY <1>1 DEF HeapInv, NextInHeap

\* Only the low heap has a reserve, and only until the panic.
LEMMA OpenStep ==
  ASSUME Inv, ~halted, NEW h \in Heap, reserve[h] > 0,
         reserve' = [reserve EXCEPT ![h] = 0],
         \/ op' = "panic" /\ op # "move" /\ from' = NoBlock /\ to' = NoBlock
         \/ op' = "panicIrq" /\ UNCHANGED <<from, to>>,
         UNCHANGED <<next, live, free, lost, halted, told, raided>>
  PROVE  Inv' /\ Store!Next
<1>1. h = "low" /\ ~Panicking /\ Panicking'
  BY InvFacts DEF Heap, Panicking
<1>2. HeapInv'
  BY SameHeap DEF Inv
<1>3. reserve' = [g \in Heap |-> IF g = "low" /\ ~Panicking' THEN Reserve ELSE 0]
  BY <1>1 DEF Inv, TaskInv, Heap
<1>4. TaskInv'
  BY <1>1, <1>3 DEF Inv, TaskInv, Panicking
<1>5. ReserveInv'
  BY <1>1 DEF Inv, ReserveInv, PanicTold
<1>6. to' = to
  BY <1>1 DEF Inv, TaskInv, Panicking
<1>7. Store!Next
  BY <1>1, <1>6, PanicStore
<1> QED
  BY <1>2, <1>4, <1>5, <1>7 DEF Inv

LEMMA RunOutStep ==
  ASSUME Inv, NEW h \in Heap, NEW n \in Asked, RunOut(h, n) PROVE Inv' /\ Store!Next
<1>1. /\ op = "none" /\ ~halted /\ op' = "panic"
      /\ reserve[h] > 0 /\ reserve' = [reserve EXCEPT ![h] = 0]
      /\ UNCHANGED <<next, live, free, lost, from, to, halted, told, raided>>
  BY DEF RunOut, TaskRuns, OpenReserve, panicVars
<1>2. from = NoBlock /\ to = NoBlock
  BY <1>1 DEF Inv, TaskInv
<1> QED
  BY <1>1, <1>2, OpenStep

LEMMA IrqRunOutStep ==
  ASSUME Inv, NEW n \in Asked, IrqRunOut(n) PROVE Inv' /\ Store!Next
<1>1. /\ ~halted /\ op' = "panicIrq"
      /\ reserve["low"] > 0 /\ reserve' = [reserve EXCEPT !["low"] = 0]
      /\ UNCHANGED <<next, live, free, lost, from, to, halted, told, raided>>
  BY DEF IrqRunOut, IrqRuns, panicVars
<1> QED
  BY <1>1, OpenStep DEF Heap

LEMMA AnyLowStep == ASSUME Inv, AnyLow PROVE Inv' /\ Store!Next
<1>1. /\ ~halted /\ op = "any" /\ want \in Wanted
      /\ UNCHANGED <<lost, from, to, halted, told, raided>>
  BY DEF AnyLow, panicVars, Inv, TaskInv
<1>2. from = NoBlock /\ to = NoBlock /\ ~Panicking
  BY <1>1 DEF Inv, TaskInv, Panicking
<1>3. CASE /\ \E b \in Candidate("low", want) : Allocates("low", want, b) /\ live' = live \cup {b}
           /\ op' = "none"
           /\ UNCHANGED reserve
  <2>1. PICK c : Allocates("low", want, c) /\ live' = live \cup {c}
    BY <1>3
  <2>2. PICK n \in Wanted : n = want
    BY <1>1
  <2>3. /\ HeapInv' /\ c \in LiveType /\ c.asked = n /\ \A b \in live : b.at # c.at
        /\ \/ next' = next
           \/ /\ \A g \in Heap : g # "low" => next'[g] = next[g]
              /\ next'["low"] <= Limit["low"] - reserve["low"]
    BY <1>1, <2>1, <2>2, AllocatesInv, InvFacts DEF Inv, Heap
  <2>4. ~Panicking' /\ Panicking' = Panicking
    BY <1>1, <1>3 DEF Panicking
  <2>5. TaskInv'
    BY <1>2, <1>3, <1>1, <2>4 DEF Inv, TaskInv, Panicking
  <2>6. next'["low"] + Reserve <= Limit["low"] \/ raided \/ halted
    BY <2>3, <1>2, ReserveKept DEF Heap
  <2>7. ReserveInv'
    BY <1>1, <1>2, <2>6 DEF Inv, ReserveInv, PanicTold
  <2>8. Store!Next
    BY <1>1, <2>1, <2>2, <2>3, <2>4, TakeStore
  <2> QED
    BY <2>3, <2>5, <2>7, <2>8 DEF Inv
<1>4. CASE /\ Full("low", want)
           /\ OpenReserve("low")
           /\ UNCHANGED <<next, live, free>>
  <2>1. reserve' = [reserve EXCEPT !["low"] = 0] /\ op' = "panic"
    BY <1>4 DEF OpenReserve
  <2>2. reserve["low"] > 0
    BY <1>2, InvFacts, Constants
  <2> QED
    BY <1>1, <1>2, <1>4, <2>1, <2>2, OpenStep DEF Heap
<1> QED
  BY <1>3, <1>4 DEF AnyLow

LEMMA ReAllocateInPlaceStep ==
  ASSUME Inv, NEW b \in live, NEW n \in Asked, ReAllocateInPlace(b, n) PROVE Inv' /\ Store!Next
<1>1. /\ op = "none" /\ ~halted /\ b.head >= n
      /\ live' = (live \ {b}) \cup {Used(b, n)}
      /\ UNCHANGED <<next, reserve, free, lost, op, want, from, to, halted, told, raided>>
  BY DEF ReAllocateInPlace, TaskRuns, taskVars, panicVars
<1>2. n <= b.head /\ n \in Wanted
  BY <1>1, Constants, BlocksType, AfterType DEF Wanted, Inv
<1>3. HeapInv' /\ Used(b, n).at = b.at
  BY <1>1, <1>2, KeepsInv DEF Inv
<1>4. from = NoBlock /\ to = NoBlock /\ ~Panicking /\ ~Panicking'
  BY <1>1 DEF Inv, TaskInv, Panicking
<1>5. TaskInv' /\ ReserveInv'
  BY <1>1, <1>4 DEF Inv, TaskInv, ReserveInv, PanicTold, Panicking
<1>6. Store!Next
  <2>1. NoBlock \notin live
    BY InvFacts
  <2>2. PICK q : q = Used(b, n)
    OBVIOUS
  <2>3. q # NoBlock
    BY <2>2, <1>3, InvFacts DEF NoBlock
  <2>4. \A c \in live : c.at = b.at => c = b
    BY DEF Inv, HeapInv, Owners
  <2>5. \A c \in live \ {b} : c # q
    BY <2>2, <2>4, <1>3
  <2>6. q \in live' \ {to'} /\ b \in live \ {to} /\ q.at = b.at
    BY <1>1, <1>3, <1>4, <2>1, <2>2, <2>3
  <2>7. /\ live' \ {to'} = ((live \ {to}) \ {b}) \cup {q}
        /\ \A c \in (live \ {to}) \ {b} : c # q
        /\ (live \ {to}) \ {b} \subseteq live'
    BY <1>1, <1>4, <2>1, <2>2, <2>3, <2>5
  <2> QED
    <3>1. PICK L : L = live'
      OBVIOUS
    <3>2. Proper(L) /\ (live \ {to}) \ {b} \subseteq L /\ q \in L
      BY <3>1, <2>6, <2>7, <1>3, LiveProperNext
    <3> QED
      BY <3>2, <1>4, <2>6, <2>7, ResizeStore
<1> QED
  BY <1>3, <1>5, <1>6 DEF Inv

\* A move begins: the new block is nobody's piece yet.
LEMMA ReAllocateMoveStep ==
  ASSUME Inv, NEW b \in live, NEW n \in Asked, ReAllocateMove(b, n)
  PROVE  Inv' /\ (Store!Next \/ UNCHANGED Store!vars)
<1> DEFINE h == HeapOf(b)
<1>1. h \in Heap /\ n \in Wanted
  BY DEF HeapOf, Heap, Wanted
<1>2. op = "none" /\ ~halted /\ UNCHANGED <<lost, want, halted, told, raided>>
  BY DEF ReAllocateMove, TaskRuns, panicVars
<1>3. from = NoBlock /\ to = NoBlock /\ ~Panicking
  BY <1>2 DEF Inv, TaskInv, Panicking
<1>4. CASE /\ \E c \in Candidate(h, n) : Allocates(h, n, c) /\ live' = live \cup {c} /\ to' = c
           /\ from' = b /\ op' = "move"
           /\ UNCHANGED reserve
  <2>1. PICK c : Allocates(h, n, c) /\ live' = live \cup {c} /\ to' = c
    BY <1>4
  <2> HIDE DEF h
  <2>2. /\ HeapInv' /\ c \in LiveType /\ \A d \in live : d.at # c.at
        /\ \/ next' = next
           \/ /\ \A g \in Heap : g # h => next'[g] = next[g]
              /\ next'[h] <= Limit[h] - reserve[h]
    BY <1>1, <1>2, <2>1, AllocatesInv, InvFacts DEF Inv
  <2>3. ~Panicking' /\ Panicking' = Panicking
    BY <1>2, <1>4 DEF Panicking
  <2>4. c \notin live /\ b # c
    BY <2>2
  <2>5. TaskInv'
    BY <1>2, <1>3, <1>4, <2>1, <2>3, <2>4 DEF Inv, TaskInv, Panicking
  <2>6. next'["low"] + Reserve <= Limit["low"] \/ raided \/ halted
    BY <1>1, <2>2, <1>3, ReserveKept
  <2>7. ReserveInv'
    BY <1>2, <1>3, <2>6 DEF Inv, ReserveInv, PanicTold
  <2>8. live' \ {to'} = live \ {to}
    BY <2>1, <2>4, <1>3, InvFacts
  <2>9. Owned' = Owned
    BY <2>8 DEF Owned
  <2> QED
    BY <2>2, <2>3, <2>5, <2>7, <2>9, SameStore DEF Inv
<1>5. CASE /\ Full(h, n) /\ reserve[h] > 0
           /\ OpenReserve(h)
           /\ UNCHANGED <<next, live, free, from, to>>
  <2> HIDE DEF h
  <2>1. reserve' = [reserve EXCEPT ![h] = 0] /\ op' = "panic" /\ from' = NoBlock /\ to' = NoBlock
    BY <1>3, <1>5 DEF OpenReserve
  <2> QED
    BY <1>1, <1>2, <1>5, <2>1, OpenStep
<1> QED
  BY <1>4, <1>5 DEF ReAllocateMove

\* It ends: the piece is at its new place, and the old block is free.
LEMMA MoveEndStep == ASSUME Inv, MoveEnd PROVE Inv' /\ Store!Next
<1>1. /\ op = "move" /\ ~halted /\ Frees(from)
      /\ op' = "none" /\ from' = NoBlock /\ to' = NoBlock
      /\ UNCHANGED <<next, reserve, want, halted, told, raided>>
  BY DEF MoveEnd, panicVars
<1>2. from \in live /\ to \in live /\ from # to /\ from # NoBlock /\ to # NoBlock
  BY <1>1, InvFacts DEF Inv, TaskInv
<1>3. HeapInv'
  BY <1>1, <1>2, FreesInv DEF Inv
<1>4. ~Panicking /\ ~Panicking' /\ live' = live \ {from}
  BY <1>1 DEF Panicking, Frees
<1>5. TaskInv' /\ ReserveInv'
  BY <1>1, <1>4 DEF Inv, TaskInv, ReserveInv, PanicTold, Panicking
<1>6. Store!Next
  <2>1. PICK p, q : p = from /\ q = to
    OBVIOUS
  <2>2. NoBlock \notin live
    BY InvFacts
  <2>3. p \in live \ {to} /\ q \in live' \ {to'}
    BY <1>1, <1>2, <1>4, <2>1
  <2>4. /\ live' \ {to'} = ((live \ {to}) \ {p}) \cup {q}
        /\ \A c \in (live \ {to}) \ {p} : c # q
    BY <1>1, <1>2, <1>4, <2>1, <2>2
  <2> QED
    <3>1. PICK L : L = live
      OBVIOUS
    <3>2. Proper(L) /\ (live \ {to}) \ {p} \subseteq L /\ q \in L /\ p \in L
      BY <3>1, <1>2, <2>1, LiveProper DEF Inv
    <3> QED
      BY <3>2, <1>4, <2>3, <2>4, ResizeStore
<1> QED
  BY <1>3, <1>5, <1>6 DEF Inv

LEMMA FreeStep == ASSUME Inv, NEW b \in live, Free(b) PROVE Inv' /\ Store!Next
<1>1. /\ op = "none" /\ ~halted /\ Frees(b)
      /\ UNCHANGED <<next, reserve, op, want, from, to, halted, told, raided>>
  BY DEF Free, TaskRuns, taskVars, panicVars
<1>2. from = NoBlock /\ to = NoBlock /\ b # NoBlock
  BY <1>1, InvFacts DEF Inv, TaskInv
<1>3. HeapInv'
  BY <1>1, FreesInv DEF Inv
<1>4. TaskInv' /\ ReserveInv'
  BY <1>1, <1>2 DEF Inv, TaskInv, ReserveInv, PanicTold, Panicking
<1>5. live' = live \ {b} /\ Panicking' = Panicking
  BY <1>1 DEF Frees, Panicking
<1>6. Store!Next
  BY <1>1, <1>2, <1>5, GiveStore
<1> QED
  BY <1>3, <1>4, <1>6 DEF Inv

\* A handler frees neither block of a move.
LEMMA IrqFreeStep == ASSUME Inv, NEW b \in live, IrqFree(b) PROVE Inv' /\ Store!Next
<1>1. /\ ~halted /\ b # from /\ b # to /\ Frees(b)
      /\ UNCHANGED <<next, reserve, op, want, from, to, halted, told, raided>>
  BY DEF IrqFree, IrqRuns, taskVars, panicVars
<1>2. HeapInv'
  BY <1>1, FreesInv DEF Inv
<1>3. live' = live \ {b} /\ Panicking' = Panicking
  BY <1>1 DEF Frees, Panicking
<1>4. TaskInv' /\ ReserveInv'
  BY <1>1, <1>3 DEF Inv, TaskInv, ReserveInv, PanicTold, Panicking
<1>5. Store!Next
  BY <1>1, <1>3, GiveStore
<1> QED
  BY <1>2, <1>4, <1>5 DEF Inv

\* A handler that allocates while the panic message is not yet written takes
\* the reserve: that is what raided records.
LEMMA IrqAllocateStep == ASSUME Inv, NEW n \in Asked, IrqAllocate(n) PROVE Inv' /\ Store!Next
<1>1. PICK c : Allocates("low", n, c) /\ live' = live \cup {c}
  BY DEF IrqAllocate
<1>2. /\ ~halted /\ op # "panicIrq" /\ raided' = (raided \/ op = "panic")
      /\ UNCHANGED <<reserve, lost, op, want, from, to, halted, told>>
  BY DEF IrqAllocate, IrqRuns, taskVars
<1>3. /\ HeapInv' /\ c \in LiveType /\ c.asked = n /\ \A b \in live : b.at # c.at
      /\ \/ next' = next
         \/ /\ \A g \in Heap : g # "low" => next'[g] = next[g]
            /\ next'["low"] <= Limit["low"] - reserve["low"]
  BY <1>1, <1>2, AllocatesInv, InvFacts DEF Inv, Wanted, Heap
<1>4. Panicking' = Panicking
  BY <1>2 DEF Panicking
<1>5. TaskInv'
  BY <1>1, <1>2 DEF Inv, TaskInv, Panicking
<1>6. ReserveInv'
  <2>1. CASE op = "panic"
    BY <1>2, <2>1 DEF Inv, ReserveInv, PanicTold, Panicking
  <2>2. CASE op # "panic"
    <3>1. ~Panicking
      BY <1>2, <2>2 DEF Panicking
    <3>2. next'["low"] + Reserve <= Limit["low"] \/ raided \/ halted
      BY <1>3, <3>1, ReserveKept DEF Heap
    <3> QED
      BY <1>2, <2>2, <3>1, <3>2 DEF Inv, ReserveInv, PanicTold, Panicking
  <2> QED
    BY <2>1, <2>2
<1>7. Store!Next
  BY <1>1, <1>2, <1>3, <1>4, TakeStore DEF Wanted
<1> QED
  BY <1>3, <1>5, <1>6, <1>7 DEF Inv

\* The message fits into the reserve, opened or not yet used.
LEMMA MessageFits ==
  ASSUME Inv, Panicking, ~halted, ~raided PROVE ~Full("low", Message)
<1> DEFINE e == Extent(Size(Message))
           a == next["low"] + e
<1>1. /\ next["low"] \in Nat /\ Limit["low"] \in Nat /\ reserve["low"] = 0
      /\ next["low"] + Reserve <= Limit["low"] /\ Limit["low"] < AddrMod
  BY InvFacts, Constants DEF Inv, ReserveInv
<1>2. Message \in Wanted /\ Size(Message) \in Nat
  BY SizeFacts DEF Wanted
<1>3. e \in Nat /\ Header + Size(Message) <= e /\ e <= Reserve
  BY <1>2, RoundUpFacts, Constants, ReserveAssumption DEF Extent
<1>4. End("low", Message) = a % AddrMod
  BY DEF End
<1> HIDE DEF e
<1>5. a \in 0 .. AddrMod - 1 /\ next["low"] < a /\ a <= Limit["low"]
  BY <1>1, <1>2, <1>3, Constants
<1>6. a % AddrMod = a
  BY <1>5, Constants
<1>7. Fits("low", Message)
  BY <1>1, <1>4, <1>5, <1>6 DEF Fits
<1> QED
  BY <1>7 DEF Full

LEMMA PanicStep == ASSUME Inv, Panic PROVE Inv' /\ (Store!Next \/ UNCHANGED Store!vars)
<1>1. /\ ~halted /\ Panicking /\ halted'
      /\ UNCHANGED <<reserve, lost, op, want, from, to, raided>>
  BY DEF Panic, Panicking, taskVars
<1>2. Panicking' = Panicking
  BY <1>1 DEF Panicking
<1>3. CASE /\ \E b \in Candidate("low", Message) : Allocates("low", Message, b) /\ live' = live \cup {b}
           /\ told' = TRUE
  <2>1. PICK c : Allocates("low", Message, c) /\ live' = live \cup {c}
    BY <1>3
  <2>2. HeapInv' /\ c \in LiveType /\ c.asked = Message /\ \A b \in live : b.at # c.at
    BY <1>1, <2>1, AllocatesInv, InvFacts DEF Inv, Wanted, Heap
  <2>3. TaskInv'
    BY <1>1, <2>1 DEF Inv, TaskInv, Panicking
  <2>4. ReserveInv'
    BY <1>1, <1>2, <1>3 DEF Inv, ReserveInv, PanicTold
  <2>5. Store!Next
    BY <1>1, <1>2, <2>1, <2>2, TakeStore DEF Wanted
  <2> QED
    BY <2>2, <2>3, <2>4, <2>5 DEF Inv
<1>4. CASE Full("low", Message) /\ UNCHANGED <<told, next, live, free>>
  <2>1. raided
    BY <1>1, <1>4, MessageFits
  <2>2. HeapInv'
    BY <1>1, <1>4, SameHeap DEF Inv
  <2>3. TaskInv'
    BY <1>1, <1>4 DEF Inv, TaskInv, Panicking
  <2>4. ReserveInv'
    BY <1>1, <1>2, <2>1 DEF Inv, ReserveInv, PanicTold
  <2>5. Owned' = Owned
    BY <1>1, <1>4 DEF Owned
  <2> QED
    BY <1>2, <2>2, <2>3, <2>4, <2>5, SameStore DEF Inv
<1> QED
  BY <1>3, <1>4 DEF Panic

LEMMA QuietStep ==
  ASSUME Inv, (\E n \in Asked : AnyHighFull(n)) \/ Halted \/ UNCHANGED vars
  PROVE  Inv' /\ UNCHANGED Store!vars
<1>1. CASE \E n \in Asked : AnyHighFull(n)
  <2>1. /\ op = "none" /\ op' = "any" /\ ~halted /\ want' \in Wanted
        /\ UNCHANGED <<next, reserve, live, free, lost, from, to, halted, told, raided>>
    BY <1>1 DEF AnyHighFull, TaskRuns, heapVars, panicVars, Wanted
  <2>2. HeapInv'
    BY <2>1, SameHeap DEF Inv
  <2>3. TaskInv' /\ ReserveInv'
    BY <2>1 DEF Inv, TaskInv, ReserveInv, PanicTold, Panicking
  <2>4. Owned' = Owned /\ Panicking' = Panicking
    BY <2>1 DEF Owned, Panicking
  <2> QED
    BY <2>2, <2>3, <2>4, SameStore DEF Inv
<1>2. CASE Halted \/ UNCHANGED vars
  <2>1. UNCHANGED <<next, reserve, live, free, lost, op, want, from, to, halted, told, raided>>
    BY <1>2 DEF Halted, vars, heapVars, taskVars, panicVars
  <2>2. HeapInv'
    BY <2>1, SameHeap DEF Inv
  <2>3. TaskInv' /\ ReserveInv'
    BY <2>1 DEF Inv, TaskInv, ReserveInv, PanicTold, Panicking
  <2>4. Owned' = Owned /\ Panicking' = Panicking
    BY <2>1 DEF Owned, Panicking
  <2> QED
    BY <2>2, <2>3, <2>4, SameStore DEF Inv
<1> QED
  BY <1>1, <1>2

\* Every step keeps the invariant, and is a step of BlockStore or shows it nothing.
LEMMA StepInv == ASSUME Inv, [Next]_vars PROVE Inv' /\ [Store!Next]_Store!vars
<1>1. ASSUME NEW n \in Asked, NEW h \in Heap, Allocate(h, n) \/ RunOut(h, n)
      PROVE  Inv' /\ [Store!Next]_Store!vars
  BY <1>1, AllocateStep, RunOutStep
<1>2. ASSUME NEW n \in Asked, AnyHighFull(n) \/ IrqAllocate(n) \/ IrqRunOut(n)
      PROVE  Inv' /\ [Store!Next]_Store!vars
  BY <1>2, QuietStep, IrqAllocateStep, IrqRunOutStep
<1>3. ASSUME NEW b \in live, Free(b) \/ IrqFree(b)
      PROVE  Inv' /\ [Store!Next]_Store!vars
  BY <1>3, FreeStep, IrqFreeStep
<1>4. ASSUME NEW b \in live, NEW n \in Asked, ReAllocateInPlace(b, n) \/ ReAllocateMove(b, n)
      PROVE  Inv' /\ [Store!Next]_Store!vars
  BY <1>4, ReAllocateInPlaceStep, ReAllocateMoveStep
<1>5. CASE AnyLow \/ MoveEnd \/ Panic
  BY <1>5, AnyLowStep, MoveEndStep, PanicStep
<1>6. CASE Halted \/ UNCHANGED vars
  BY <1>6, QuietStep
<1> QED
  BY <1>1, <1>2, <1>3, <1>4, <1>5, <1>6 DEF Next

-----------------------------------------------------------------------------
(* Theorems.                                                                *)

\* In every state the heaps have their geometry, each block its one owner, and
\* a task in the middle of malloc, realloc or free what it needs to go on.
THEOREM Invariance == Spec => []Inv
<1>1. Inv /\ [Next]_vars => Inv'
  BY StepInv
<1> QED
  BY <1>1, InitInv, PTL DEF Spec

\* The blocks of the heaps, in use, listed or lost, cover what was handed out
\* without a gap and without an overlap, for every size, rounding and width.
THEOREM PartitionAlways == Spec => []Partition
<1>1. Inv => Partition
  <2> SUFFICES ASSUME Inv PROVE Partition
    OBVIOUS
  <2>1. /\ Geometry(Blocks, next) /\ Owners(live, free) /\ NextInHeap(next)
        /\ Blocks \in SUBSET BlockType
    BY BlocksType DEF Inv, HeapInv
  <2>2. \A b \in Blocks : /\ Span(b) = b.at .. After(b) - 1
                          /\ b.at \in Nat /\ After(b) \in Nat /\ b.at < After(b)
    <3> TAKE b \in Blocks
    <3>1. b \in BlockType
      BY <2>1
    <3>2. /\ b.at \in Nat /\ After(b) \in Nat /\ b.at < After(b)
          /\ b.room \in Nat /\ Header \in Nat
      BY <3>1, AfterType, Constants
    <3>3. Span(b) = b.at .. After(b) - 1
      BY <3>2 DEF Span, After
    <3> QED
      BY <3>2, <3>3
  <2>3. \A b, c \in Blocks : b # c => Span(b) \cap Span(c) = {}
    <3> SUFFICES ASSUME NEW b \in Blocks, NEW c \in Blocks, b # c
                 PROVE  (b.at .. After(b) - 1) \cap (c.at .. After(c) - 1) = {}
      BY <2>2
    <3>1. After(b) <= c.at \/ After(c) <= b.at
      BY <2>1 DEF Geometry
    <3> QED
      BY <2>2, <3>1
  <2>4. ASSUME NEW b \in Blocks, NEW x \in Span(b) PROVE \E h \in Heap : x \in Base[h] .. next[h] - 1
    <3>1. PICK h \in Heap : Base[h] <= b.at /\ After(b) <= next[h]
      BY <2>1 DEF Geometry, HeapOf, Heap
    <3>2. Base[h] \in Nat /\ next[h] \in Nat
      BY <2>1, Constants DEF NextInHeap
    <3> QED
      BY <2>2, <2>4, <3>1, <3>2
  <2>5. ASSUME NEW h \in Heap, NEW x \in Base[h] .. next[h] - 1 PROVE \E b \in Blocks : x \in Span(b)
    <3>1. PICK b \in Blocks : b.at <= x /\ x < After(b)
      BY <2>1 DEF Geometry
    <3>2. x \in b.at .. After(b) - 1
      BY <2>2, <3>1
    <3> QED
      BY <2>2, <3>2
  <2>6. UNION {Span(b) : b \in Blocks} = UNION {Base[h] .. next[h] - 1 : h \in Heap}
    BY <2>4, <2>5
  <2>7. \A b \in Blocks : b.head <= b.room
    BY <2>1 DEF Geometry
  <2>8. \A b \in live : b.asked < WordMod => b.asked <= b.head
    BY <2>1 DEF Owners
  <2>9. {Unused(b) : b \in live} \cap free = {}
    BY <2>1 DEF Owners
  <2> QED
    BY <2>3, <2>6, <2>7, <2>8, <2>9 DEF Partition
<1> QED
  BY <1>1, Invariance, PTL

\* The message of a panic has its memory, unless a handler has taken it.
THEOREM PanicToldAlways == Spec => []PanicTold
<1>1. Inv => PanicTold
  BY DEF Inv, ReserveInv
<1> QED
  BY <1>1, Invariance, PTL

\* malloc, realloc, free, new and delete hand out and take back blocks as
\* BlockStore does: no byte has two owners, and a block that is moved has one.
THEOREM MemoryImplements == Spec => StoreSpec
<1>1. Init => Store!Init
  BY DEF Init, Store!Init
<1>2. Inv /\ [Next]_vars => [Store!Next]_Store!vars
  BY StepInv
<1> QED
  BY <1>1, <1>2, Invariance, PTL DEF Spec, StoreSpec, Store!Spec
=============================================================================
