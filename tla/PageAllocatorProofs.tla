------------------------- MODULE PageAllocatorProofs -------------------------
(* Proofs about CriticalSection and PageAllocator: sections keep out what   *)
(* they are to keep out at any depth of nesting, and so no page is handed   *)
(* out twice, for every size of the region and every bound on the nesting.  *)
EXTENDS PageAllocator, TLAPS

-----------------------------------------------------------------------------
(* The invariant of the critical sections.                                  *)

Labels == {"run", "mask", "store", "count", "pop", "restore", "entry", "exit"}

\* found is always empty: an IRQ interrupts only what runs unmasked.
Contexts ==
  [level : 0 .. 2, found : {{}}, base : 0 .. MaxNest, open : Seq({IRQ_LEVEL, FIQ_LEVEL}),
   at : Labels, target : 0 .. 2, flags : Mask, slot : Nat]

CritTypeOK ==
  /\ daif \in Mask /\ spsr \in Mask /\ count \in Nat
  /\ saved \in [0 .. MAX_CRITICAL_LEVEL - 1 -> Mask]
  /\ ctx \in Seq(Contexts) /\ Len(ctx) >= 1

\* The mask a level runs with, and the level that k sections have left.
MaskOf(level) ==
  IF level = TASK_LEVEL THEN {} ELSE IF level = IRQ_LEVEL THEN {"I"} ELSE {"I", "F"}
Before(c, k) == IF k = 0 THEN c.level ELSE c.open[k]

\* The levels of a context never go down.
Nested(c) ==
  /\ Len(c.open) <= MaxNest
  /\ \A j, k \in 0 .. Len(c.open) : j <= k => Before(c, j) <= Before(c, k)
  /\ c.level < FIQ_LEVEL => c.base = 0

\* The counter a context has, from outside of LeaveCritical.
Depth(c) == c.base + Len(c.open)

\* EnterCritical has read the mask of the level that it leaves.
Entering(c) ==
  /\ Len(c.open) < MaxNest
  /\ c.target \in {IRQ_LEVEL, FIQ_LEVEL} /\ LevelOf(c) <= c.target
  /\ c.flags = MaskOf(LevelOf(c))

\* s_nFlags holds for every open section the mask of the level before it.
SavedFor(c) ==
  \A k \in 1 .. Len(c.open) : saved[c.base + k - 1] = MaskOf(Before(c, k - 1))

\* Where a context can be interrupted, ...
Waits(c) == c.at = "run" \/ (c.at = "mask" /\ Entering(c))

\* what interrupts it ...
Above(c, d) == LevelOf(c) < d.level /\ Depth(c) <= d.base

\* and what the running context makes of the processor and the counter.
Runs(c) ==
  /\ daif = IF c.at \in {"run", "mask"} THEN MaskOf(LevelOf(c)) ELSE {"I", "F"}
  /\ count = IF c.at = "restore" THEN Depth(c) - 1 ELSE Depth(c)
  /\ c.at \in {"mask", "store", "count"} => Entering(c)
  /\ c.at = "count" => c.slot = count /\ saved[count] = c.flags
  /\ c.at \in {"pop", "restore"} => Len(c.open) >= 1
  /\ c.at = "restore" => c.flags = MaskOf(Before(c, Len(c.open) - 1))
  /\ c.at \in {"entry", "exit"} => c.level = IRQ_LEVEL /\ Len(c.open) = 0 /\ spsr = {}

Stacked ==
  /\ ctx[1].level = TASK_LEVEL
  /\ \A i \in 1 .. Top : Nested(ctx[i]) /\ SavedFor(ctx[i])
  /\ \A i, j \in 1 .. Top : i < j => Above(ctx[i], ctx[j]) /\ Waits(ctx[i])
  /\ \A i \in 1 .. Top - 1 : ctx[i + 1].base = Depth(ctx[i])

CritInv ==
  /\ CritTypeOK
  /\ ~failed
  /\ Stacked
  /\ Runs(Me)
  /\ Me.level = FIQ_LEVEL => spsr = MaskOf(LevelOf(ctx[Top - 1]))

-----------------------------------------------------------------------------
(* Contexts.                                                                *)

\* A context runs at its own level or at a higher one.
LEMMA LevelFacts ==
  ASSUME NEW c \in Contexts, Nested(c)
  PROVE  /\ LevelOf(c) \in 0 .. 2 /\ c.level <= LevelOf(c)
         /\ LevelOf(c) = Before(c, Len(c.open))
         /\ Len(c.open) \in Nat
         /\ Len(c.open) >= 1 => LevelOf(c) \in {IRQ_LEVEL, FIQ_LEVEL}
         /\ Len(c.open) = 0 <=> c.open = <<>>
         /\ Len(c.open) = 0 => LevelOf(c) = c.level
<1>1. c.open \in Seq({1, 2}) /\ c.level \in 0 .. 2 /\ Len(c.open) \in Nat
  BY DEF Contexts, IRQ_LEVEL, FIQ_LEVEL
<1>2. Len(c.open) = 0 <=> c.open = <<>>
  BY <1>1
<1>3. Len(c.open) >= 1 => c.open[Len(c.open)] \in {1, 2}
  BY <1>1
<1>4. LevelOf(c) = Before(c, Len(c.open))
  BY <1>2 DEF LevelOf, Before
<1>5. Before(c, 0) <= Before(c, Len(c.open))
  BY <1>1 DEF Nested
<1> QED
  BY <1>1, <1>2, <1>3, <1>4, <1>5 DEF Before, IRQ_LEVEL, FIQ_LEVEL

\* Opening a section: the levels before it stay.
LEMMA OpenFacts ==
  ASSUME NEW c \in Contexts, Nested(c), Entering(c),
         NEW d, d = [c EXCEPT !.at = "run", !.open = Append(@, c.target)]
  PROVE  /\ d \in Contexts /\ Nested(d) /\ Len(d.open) = Len(c.open) + 1
         /\ LevelOf(d) = c.target
         /\ \A k \in 0 .. Len(c.open) : Before(d, k) = Before(c, k)
<1>1. c.open \in Seq({1, 2}) /\ c.level \in 0 .. 2 /\ Len(c.open) \in Nat /\ c.target \in {1, 2}
  BY DEF Contexts, IRQ_LEVEL, FIQ_LEVEL, Entering
<1>2. /\ d.open = Append(c.open, c.target) /\ d.level = c.level /\ d.base = c.base
      /\ d.at = "run" /\ d \in Contexts
  <2>1. Append(c.open, c.target) \in Seq({1, 2})
    BY <1>1
  <2> QED
    BY <2>1 DEF Contexts, Labels, IRQ_LEVEL, FIQ_LEVEL
<1>3. /\ Len(d.open) = Len(c.open) + 1
      /\ \A k \in 1 .. Len(c.open) : d.open[k] = c.open[k]
      /\ d.open[Len(c.open) + 1] = c.target
  BY <1>1, <1>2
<1>4. \A k \in 0 .. Len(c.open) : Before(d, k) = Before(c, k)
  BY <1>1, <1>2, <1>3 DEF Before
<1>5. Before(d, Len(c.open) + 1) = c.target
  BY <1>1, <1>3 DEF Before
<1>6. \A k \in 0 .. Len(c.open) : Before(c, k) <= c.target /\ Before(c, k) \in 0 .. 2
  <2>1. Before(c, Len(c.open)) <= c.target
    BY LevelFacts DEF Entering
  <2>2. \A k \in 0 .. Len(c.open) : Before(c, k) \in 0 .. 2
    BY <1>1 DEF Before
  <2> QED
    BY <1>1, <2>1, <2>2 DEF Nested
<1>7. Nested(d)
  <2>1. Len(d.open) <= MaxNest
    BY <1>1, <1>3, CriticalAssumption DEF Entering, CriticalAssumption
  <2>2. ASSUME NEW j \in 0 .. Len(d.open), NEW k \in 0 .. Len(d.open), j <= k
        PROVE  Before(d, j) <= Before(d, k)
    BY <1>1, <1>3, <1>4, <1>5, <1>6, <2>2 DEF Nested
  <2> QED
    BY <1>2, <2>1, <2>2 DEF Nested
<1>8. LevelOf(d) = c.target
  BY <1>2, <1>3, <1>5, <1>7, LevelFacts
<1> QED
  BY <1>2, <1>3, <1>4, <1>7, <1>8

\* Closing a section: so they do.
LEMMA CloseFacts ==
  ASSUME NEW c \in Contexts, Nested(c), Len(c.open) >= 1,
         NEW d, d = [c EXCEPT !.at = "run", !.open = SubSeq(@, 1, Len(@) - 1)]
  PROVE  /\ d \in Contexts /\ Nested(d) /\ Len(d.open) = Len(c.open) - 1
         /\ LevelOf(d) = Before(c, Len(c.open) - 1)
         /\ \A k \in 0 .. Len(d.open) : Before(d, k) = Before(c, k)
<1>1. c.open \in Seq({1, 2}) /\ c.level \in 0 .. 2 /\ Len(c.open) \in Nat
  BY DEF Contexts, IRQ_LEVEL, FIQ_LEVEL
<1>2. /\ d.open = SubSeq(c.open, 1, Len(c.open) - 1) /\ d.level = c.level /\ d.base = c.base
      /\ d \in Contexts
  <2>1. SubSeq(c.open, 1, Len(c.open) - 1) \in Seq({1, 2})
    BY <1>1
  <2> QED
    BY <2>1 DEF Contexts, Labels, IRQ_LEVEL, FIQ_LEVEL
<1>3. /\ Len(d.open) = Len(c.open) - 1
      /\ \A k \in 1 .. Len(c.open) - 1 : d.open[k] = c.open[k]
  BY <1>1, <1>2
<1>4. \A k \in 0 .. Len(d.open) : Before(d, k) = Before(c, k)
  BY <1>1, <1>2, <1>3 DEF Before
<1>5. Nested(d)
  <2>1. d.base = c.base /\ d.level = c.level /\ Len(d.open) = Len(c.open) - 1
    BY <1>2, <1>3
  <2>2. MaxNest \in Nat /\ Len(d.open) <= MaxNest
    BY <1>1, <1>3, CriticalAssumption DEF Nested, CriticalAssumption
  <2>3. ASSUME NEW j \in 0 .. Len(d.open), NEW k \in 0 .. Len(d.open), j <= k
        PROVE  Before(d, j) <= Before(d, k)
    <3>1. j \in 0 .. Len(c.open) /\ k \in 0 .. Len(c.open)
      BY <1>1, <2>1
    <3> QED
      BY <1>4, <2>3, <3>1 DEF Nested
  <2> QED
    BY <2>1, <2>2, <2>3 DEF Nested
<1>6. LevelOf(d) = Before(d, Len(d.open))
  BY <1>2, <1>5, LevelFacts
<1> QED
  BY <1>1, <1>2, <1>3, <1>4, <1>5, <1>6
-----------------------------------------------------------------------------
(* Steps.                                                                   *)

\* The running context goes on to c, at its level and with the sections that
\* c has, and writes s_nFlags only above them.
LEMMA TopStep ==
  ASSUME CritInv, NEW c \in Contexts, Becomes(c), Nested(c),
         c.level = Me.level, c.base = Me.base,
         daif' \in Mask, spsr' \in Mask, count' \in Nat,
         saved' \in [0 .. MAX_CRITICAL_LEVEL - 1 -> Mask],
         \A n \in 0 .. c.base - 1 : saved'[n] = saved[n],
         \A k \in 1 .. Len(c.open) : saved'[c.base + k - 1] = MaskOf(Before(c, k - 1)),
         failed' = FALSE, Runs(c)',
         spsr' = spsr \/ c.level < FIQ_LEVEL
  PROVE  CritInv'
<1>1. ctx \in Seq(Contexts) /\ Top \in Nat /\ Top >= 1
  BY DEF CritInv, CritTypeOK, Top
<1>2. /\ ctx' \in Seq(Contexts) /\ Top' = Top /\ Len(ctx') = Top
      /\ ctx'[Top] = c /\ \A i \in 1 .. Top - 1 : ctx'[i] = ctx[i]
  BY <1>1 DEF Becomes, Top
<1>3. \A i \in 1 .. Top : ctx[i] \in Contexts /\ Nested(ctx[i]) /\ SavedFor(ctx[i])
  BY <1>1 DEF CritInv, Stacked, Top
<1>4. CritTypeOK'
  BY <1>1, <1>2 DEF CritTypeOK
<1>5. Me' = c
  BY <1>2 DEF Me
<1>6. Stacked'
  <2>1. ctx'[1].level = TASK_LEVEL
    <3>1. ctx[1].level = TASK_LEVEL
      BY DEF CritInv, Stacked
    <3>2. CASE Top = 1
      BY <1>2, <3>1, <3>2 DEF Me
    <3>3. CASE Top # 1
      BY <1>1, <1>2, <3>1, <3>3
    <3> QED
      BY <3>2, <3>3
  <2>2. ASSUME NEW i \in 1 .. Top PROVE Nested(ctx'[i]) /\ SavedFor(ctx[i])'
    <3>1. CASE i = Top
      BY <1>2, <3>1 DEF SavedFor
    <3>2. CASE i # Top
      <4>1. ctx'[i] = ctx[i] /\ ctx[i] \in Contexts /\ Nested(ctx[i]) /\ SavedFor(ctx[i])
        BY <1>1, <1>2, <1>3, <3>2
      <4>2. Depth(ctx[i]) <= c.base
        BY <1>1, <3>2 DEF CritInv, Stacked, Above, Me
      <4>3. ASSUME NEW k \in 1 .. Len(ctx[i].open)
            PROVE  saved'[ctx[i].base + k - 1] = MaskOf(Before(ctx[i], k - 1))
        <5>1. Len(ctx[i].open) \in Nat /\ ctx[i].base \in Nat /\ c.base \in Nat
          BY <4>1, CriticalAssumption DEF Contexts, CriticalAssumption
        <5>3. PICK x, y, z : x = ctx[i].base /\ y = Len(ctx[i].open) /\ z = c.base
          OBVIOUS
        <5>4. x \in Nat /\ y \in Nat /\ z \in Nat /\ x + y <= z /\ k \in 1 .. y
          BY <4>2, <5>1, <5>3 DEF Depth
        <5>5. x + k - 1 \in 0 .. z - 1
          BY <5>4
        <5>2. ctx[i].base + k - 1 \in 0 .. c.base - 1
          BY <5>3, <5>5
        <5> QED
          BY <4>1, <5>2 DEF SavedFor
      <4> QED
        BY <4>1, <4>3 DEF SavedFor
    <3> QED
      BY <3>1, <3>2
  <2>3. ASSUME NEW i \in 1 .. Top, NEW j \in 1 .. Top, i < j
        PROVE  Above(ctx'[i], ctx'[j]) /\ Waits(ctx'[i])
    <3>1. Above(ctx[i], ctx[j]) /\ Waits(ctx[i]) /\ ctx'[i] = ctx[i]
      BY <1>1, <1>2, <2>3 DEF CritInv, Stacked
    <3>2. ctx'[j].level = ctx[j].level /\ ctx'[j].base = ctx[j].base
      BY <1>1, <1>2, <2>3 DEF Me
    <3> QED
      BY <3>1, <3>2 DEF Above
  <2>4. ASSUME NEW i \in 1 .. Top - 1 PROVE ctx'[i + 1].base = Depth(ctx'[i])
    <3>1. ctx[i + 1].base = Depth(ctx[i]) /\ ctx'[i] = ctx[i]
      BY <1>1, <1>2 DEF CritInv, Stacked
    <3>2. i + 1 = Top \/ i + 1 \in 1 .. Top - 1
      BY <1>1
    <3>3. ctx'[i + 1].base = ctx[i + 1].base
      BY <1>2, <3>2 DEF Me
    <3> QED
      BY <3>1, <3>3
  <2> QED
    BY <1>2, <2>1, <2>2, <2>3, <2>4 DEF Stacked, Nested, Above, Waits, Depth, Before, LevelOf, Entering
<1>7. Me'.level = FIQ_LEVEL => spsr' = MaskOf(LevelOf(ctx'[Top' - 1]))
  <2>1. ASSUME Me'.level = FIQ_LEVEL PROVE Top - 1 \in 1 .. Top - 1 /\ Me.level = FIQ_LEVEL
    <3>1. Me.level = FIQ_LEVEL /\ ctx[1].level = TASK_LEVEL
      BY <1>5, <2>1 DEF CritInv, Stacked
    <3> QED
      BY <1>1, <3>1 DEF Me, TASK_LEVEL, FIQ_LEVEL
  <2> QED
    BY <1>2, <1>5, <2>1 DEF CritInv, FIQ_LEVEL
<1> QED
  BY <1>4, <1>5, <1>6, <1>7 DEF CritInv, Runs, LevelOf

LEMMA TopFacts ==
  ASSUME CritInv
  PROVE  /\ ctx \in Seq(Contexts) /\ Top \in Nat /\ Top >= 1
         /\ Me \in Contexts /\ Nested(Me) /\ SavedFor(Me) /\ Runs(Me)
         /\ Len(Me.open) \in Nat /\ Me.base \in Nat /\ Depth(Me) \in Nat
         /\ Me.base <= MaxNest /\ MaxNest \in Nat
         /\ LevelOf(Me) \in 0 .. 2 /\ Me.level <= LevelOf(Me) /\ Me.level \in 0 .. 2
         /\ failed = FALSE /\ count \in Nat /\ daif \in Mask /\ spsr \in Mask
         /\ saved \in [0 .. MAX_CRITICAL_LEVEL - 1 -> Mask]
<1>1. ctx \in Seq(Contexts) /\ Top \in Nat /\ Top >= 1
  BY DEF CritInv, CritTypeOK, Top
<1>2. Me \in Contexts /\ Nested(Me) /\ SavedFor(Me) /\ Runs(Me)
  <2>1. Me \in Contexts
    BY <1>1 DEF Top, Me
  <2> QED
    BY <1>1, <2>1 DEF CritInv, Stacked, Me
<1>3. Len(Me.open) \in Nat /\ LevelOf(Me) \in 0 .. 2 /\ Me.level <= LevelOf(Me)
  BY <1>2, LevelFacts
<1>4. MaxNest \in Nat /\ Me.base \in 0 .. MaxNest /\ Me.level \in 0 .. 2
  BY <1>2, CriticalAssumption DEF CriticalAssumption, Contexts
<1> QED
  BY <1>1, <1>2, <1>3, <1>4 DEF CritInv, CritTypeOK, Depth

LEMMA EnterReadStep ==
  ASSUME CritInv, NEW t \in {IRQ_LEVEL, FIQ_LEVEL}, EnterRead(t) PROVE CritInv'
<1>1. PICK c : c = [Me EXCEPT !.at = "mask", !.target = t, !.flags = daif]
  OBVIOUS
<1>2. /\ Me.at = "run" /\ LevelOf(Me) <= t /\ Len(Me.open) < MaxNest /\ Becomes(c)
      /\ failed' = (t # FIQ_LEVEL /\ "F" \in daif)
      /\ UNCHANGED <<daif, count, saved, spsr>>
  BY <1>1 DEF EnterRead
<1>3. /\ c \in Contexts /\ c.at = "mask" /\ c.target = t /\ c.flags = daif
      /\ c.open = Me.open /\ c.level = Me.level /\ c.base = Me.base
  <2>1. Me \in Contexts /\ daif \in Mask /\ t \in 0 .. 2
    BY TopFacts DEF IRQ_LEVEL, FIQ_LEVEL
  <2> QED
    BY <1>1, <2>1 DEF Contexts, Labels
<1>4. daif = MaskOf(LevelOf(Me)) /\ count = Depth(Me)
  BY <1>2, TopFacts DEF Runs
<1>5. LevelOf(c) = LevelOf(Me) /\ \A k : Before(c, k) = Before(Me, k)
  BY <1>3 DEF LevelOf, Before
<1>6. failed' = FALSE
  <2>1. t # FIQ_LEVEL => LevelOf(Me) \in {TASK_LEVEL, IRQ_LEVEL}
    BY <1>2, TopFacts DEF IRQ_LEVEL, FIQ_LEVEL, TASK_LEVEL
  <2>2. ~(t # FIQ_LEVEL /\ "F" \in daif)
    BY <1>4, <2>1 DEF MaskOf, IRQ_LEVEL, TASK_LEVEL
  <2> QED
    BY <1>2, <2>2
<1>7. Nested(c)
  BY <1>3, <1>5, TopFacts DEF Nested
<1>8. Entering(c)
  BY <1>2, <1>3, <1>4, <1>5 DEF Entering
<1>9. Runs(c)'
  BY <1>2, <1>3, <1>4, <1>5, <1>8 DEF Runs, Depth, LevelOf, Before, Entering
<1>10. \A k \in 1 .. Len(c.open) : saved'[c.base + k - 1] = MaskOf(Before(c, k - 1))
  BY <1>2, <1>3, <1>5, TopFacts DEF SavedFor
<1>11. \A n \in 0 .. c.base - 1 : saved'[n] = saved[n]
  BY <1>2
<1> QED
  BY <1>2, <1>3, <1>6, <1>7, <1>9, <1>10, <1>11, TopFacts, TopStep

LEMMA EnterMaskStep ==
  ASSUME CritInv, EnterMask PROVE CritInv'
<1>1. PICK c : c = [Me EXCEPT !.at = "store"]
  OBVIOUS
<1>2. /\ Me.at = "mask" /\ daif' = {"I", "F"} /\ Becomes(c)
      /\ UNCHANGED <<count, saved, spsr, failed>>
  BY <1>1 DEF EnterMask
<1>3. /\ c \in Contexts /\ c.at = "store" /\ c.target = Me.target /\ c.flags = Me.flags
      /\ c.open = Me.open /\ c.level = Me.level /\ c.base = Me.base
  BY <1>1, TopFacts DEF Contexts, Labels
<1>4. count = Depth(Me) /\ Entering(Me)
  BY <1>2, TopFacts DEF Runs
<1>5. LevelOf(c) = LevelOf(Me) /\ \A k : Before(c, k) = Before(Me, k)
  BY <1>3 DEF LevelOf, Before
<1>6. Nested(c)
  BY <1>3, <1>5, TopFacts DEF Nested
<1>7. Runs(c)'
  BY <1>2, <1>3, <1>4, <1>5 DEF Runs, Depth, LevelOf, Before, Entering
<1>8. \A k \in 1 .. Len(c.open) : saved'[c.base + k - 1] = MaskOf(Before(c, k - 1))
  BY <1>2, <1>3, <1>5, TopFacts DEF SavedFor
<1>9. daif' \in Mask /\ \A n \in 0 .. c.base - 1 : saved'[n] = saved[n]
  BY <1>2 DEF Mask
<1> QED
  BY <1>2, <1>3, <1>6, <1>7, <1>8, <1>9, TopFacts, TopStep

LEMMA EnterStoreStep ==
  ASSUME CritInv, EnterStore PROVE CritInv'
<1>1. PICK c : c = [Me EXCEPT !.at = "count", !.slot = count]
  OBVIOUS
<1>2. /\ Me.at = "store" /\ Becomes(c) /\ failed' = (count >= MAX_CRITICAL_LEVEL)
      /\ saved' = (IF failed' THEN saved ELSE [saved EXCEPT ![count] = Me.flags])
      /\ UNCHANGED <<daif, count, spsr>>
  BY <1>1 DEF EnterStore
<1>3. /\ c \in Contexts /\ c.at = "count" /\ c.target = Me.target /\ c.flags = Me.flags
      /\ c.open = Me.open /\ c.level = Me.level /\ c.base = Me.base /\ c.slot = count
      /\ Me.flags \in Mask
  BY <1>1, TopFacts DEF Contexts, Labels
<1>4. daif = {"I", "F"} /\ count = Depth(Me) /\ Entering(Me)
  BY <1>2, TopFacts DEF Runs
<1>5. LevelOf(c) = LevelOf(Me) /\ \A k : Before(c, k) = Before(Me, k)
  BY <1>3 DEF LevelOf, Before
<1>6. count \in 0 .. MAX_CRITICAL_LEVEL - 1
  BY <1>4, TopFacts, CriticalAssumption DEF CriticalAssumption, Depth, Entering
<1>7. /\ failed' = FALSE /\ saved' = [saved EXCEPT ![count] = Me.flags]
      /\ saved' \in [0 .. MAX_CRITICAL_LEVEL - 1 -> Mask]
  <2>1. ~(count >= MAX_CRITICAL_LEVEL)
    BY <1>6, CriticalAssumption DEF CriticalAssumption
  <2>2. failed' = FALSE /\ saved' = [saved EXCEPT ![count] = Me.flags]
    <3>1. (count >= MAX_CRITICAL_LEVEL) = FALSE
      BY <2>1
    <3>2. failed' = (count >= MAX_CRITICAL_LEVEL)
      BY <1>2, Zenon
    <3>3. failed' = FALSE
      BY <3>1, <3>2, Zenon
    <3> QED
      BY <1>2, <3>3, Zenon
  <2>3. saved \in [0 .. MAX_CRITICAL_LEVEL - 1 -> Mask]
    BY TopFacts
  <2> QED
    BY <1>3, <2>2, <2>3
<1>8. saved'[count] = Me.flags /\ \A n \in 0 .. count - 1 : saved'[n] = saved[n]
  BY <1>6, <1>7, TopFacts
<1>9. Nested(c)
  BY <1>3, <1>5, TopFacts DEF Nested
<1>10. Runs(c)'
  BY <1>2, <1>3, <1>4, <1>5, <1>8 DEF Runs, Depth, LevelOf, Before, Entering
<1>11. ASSUME NEW k \in 1 .. Len(c.open)
       PROVE  saved'[c.base + k - 1] = MaskOf(Before(c, k - 1))
  <2>1. c.base + k - 1 \in 0 .. count - 1
    BY <1>3, <1>4, TopFacts DEF Depth
  <2> QED
    BY <1>3, <1>5, <1>8, <2>1, TopFacts DEF SavedFor
<1>12. \A n \in 0 .. c.base - 1 : saved'[n] = saved[n]
  BY <1>3, <1>4, <1>8, TopFacts DEF Depth
<1> QED
  BY <1>2, <1>3, <1>7, <1>9, <1>10, <1>11, <1>12, TopFacts, TopStep

LEMMA EnterCountStep ==
  ASSUME CritInv, EnterCount PROVE CritInv'
<1>1. PICK c : c = [Me EXCEPT !.at = "run", !.open = Append(@, Me.target)]
  OBVIOUS
<1>2. /\ Me.at = "count" /\ Becomes(c) /\ count' = Me.slot + 1
      /\ daif' = (IF Me.target = IRQ_LEVEL THEN daif \ {"F"} ELSE daif)
      /\ UNCHANGED <<saved, spsr, failed>>
  BY <1>1 DEF EnterCount
<1>3. /\ daif = {"I", "F"} /\ count = Depth(Me) /\ Entering(Me)
      /\ Me.slot = count /\ saved[count] = Me.flags
  BY <1>2, TopFacts DEF Runs
<1>4. /\ c \in Contexts /\ Nested(c) /\ Len(c.open) = Len(Me.open) + 1
      /\ LevelOf(c) = Me.target
      /\ \A k \in 0 .. Len(Me.open) : Before(c, k) = Before(Me, k)
  BY <1>1, <1>3, TopFacts, OpenFacts
<1>5. c.at = "run" /\ c.level = Me.level /\ c.base = Me.base
  BY <1>1, TopFacts DEF Contexts
<1>6. daif' = MaskOf(LevelOf(c)) /\ daif' \in Mask
  <2>1. {"I", "F"} \ {"F"} = {"I"}
    OBVIOUS
  <2>2. CASE Me.target = IRQ_LEVEL
    BY <1>2, <1>3, <1>4, <2>1, <2>2 DEF MaskOf, IRQ_LEVEL, TASK_LEVEL, Mask
  <2>3. CASE Me.target = FIQ_LEVEL
    BY <1>2, <1>3, <1>4, <2>3 DEF MaskOf, IRQ_LEVEL, FIQ_LEVEL, TASK_LEVEL, Mask
  <2> QED
    BY <1>3, <2>2, <2>3 DEF Entering
<1>7. count' = Depth(c) /\ count' \in Nat
  <2>1. count' = Me.base + Len(Me.open) + 1 /\ Depth(c) = Me.base + (Len(Me.open) + 1)
    BY <1>2, <1>3, <1>4, <1>5 DEF Depth
  <2> QED
    BY <2>1, TopFacts
<1>8. Runs(c)'
  BY <1>5, <1>6, <1>7 DEF Runs, LevelOf, Depth
<1>9. ASSUME NEW k \in 1 .. Len(c.open)
       PROVE  saved'[c.base + k - 1] = MaskOf(Before(c, k - 1))
  <2>1. CASE k = Len(Me.open) + 1
    <3>1. c.base + k - 1 = count /\ k - 1 = Len(Me.open) /\ k - 1 \in 0 .. Len(Me.open)
      BY <1>3, <1>5, <2>1, TopFacts DEF Depth
    <3>2. Before(Me, k - 1) = LevelOf(Me)
      BY <3>1, TopFacts, LevelFacts
    <3> QED
      BY <1>2, <1>3, <1>4, <3>1, <3>2 DEF Entering
  <2>2. CASE k # Len(Me.open) + 1
    <3>1. k \in 1 .. Len(Me.open) /\ k - 1 \in 0 .. Len(Me.open)
      BY <1>4, <2>2, TopFacts
    <3> QED
      BY <1>2, <1>4, <1>5, <3>1, TopFacts DEF SavedFor
  <2> QED
    BY <2>1, <2>2
<1> QED
  BY <1>2, <1>4, <1>5, <1>6, <1>7, <1>8, <1>9, TopFacts, TopStep

LEMMA LeaveMaskStep ==
  ASSUME CritInv, LeaveMask PROVE CritInv'
<1>1. PICK c : c = [Me EXCEPT !.at = "pop"]
  OBVIOUS
<1>2. /\ Me.at = "run" /\ Me.open # <<>> /\ daif' = daif \cup {"F"} /\ Becomes(c)
      /\ UNCHANGED <<count, saved, spsr, failed>>
  BY <1>1 DEF LeaveMask
<1>3. /\ c \in Contexts /\ c.at = "pop"
      /\ c.open = Me.open /\ c.level = Me.level /\ c.base = Me.base
  BY <1>1, TopFacts DEF Contexts, Labels
<1>4. count = Depth(Me) /\ daif = MaskOf(LevelOf(Me))
  BY <1>2, TopFacts DEF Runs
<1>5. Len(Me.open) >= 1 /\ LevelOf(Me) \in {IRQ_LEVEL, FIQ_LEVEL}
  BY <1>2, TopFacts, LevelFacts
<1>6. daif' = {"I", "F"} /\ daif' \in Mask
  BY <1>2, <1>4, <1>5 DEF MaskOf, IRQ_LEVEL, FIQ_LEVEL, TASK_LEVEL, Mask
<1>7. \A k : Before(c, k) = Before(Me, k)
  BY <1>3 DEF Before
<1>8. Nested(c)
  BY <1>3, <1>7, TopFacts DEF Nested
<1>9. Runs(c)'
  BY <1>2, <1>3, <1>4, <1>5, <1>6 DEF Runs, Depth
<1>10. \A k \in 1 .. Len(c.open) : saved'[c.base + k - 1] = MaskOf(Before(c, k - 1))
  BY <1>2, <1>3, <1>7, TopFacts DEF SavedFor
<1> QED
  BY <1>2, <1>3, <1>6, <1>8, <1>9, <1>10, TopFacts, TopStep

LEMMA LeavePopStep ==
  ASSUME CritInv, LeavePop PROVE CritInv'
<1>1. Me.at = "pop" /\ count = Depth(Me) /\ Len(Me.open) >= 1 /\ daif = {"I", "F"}
  BY TopFacts DEF Runs, LeavePop
<1>2. count # 0 /\ count - 1 \in Nat /\ count - 1 < MAX_CRITICAL_LEVEL
  <2>1. count = Me.base + Len(Me.open) /\ Len(Me.open) <= MaxNest
    BY <1>1, TopFacts DEF Depth, Nested
  <2>2. PICK b, l : b = Me.base /\ l = Len(Me.open)
    OBVIOUS
  <2>3. /\ b \in Nat /\ l \in Nat /\ b <= MaxNest /\ l <= MaxNest /\ l >= 1
        /\ MaxNest \in Nat /\ count = b + l
    BY <1>1, <2>1, <2>2, TopFacts
  <2>4. MAX_CRITICAL_LEVEL \in Nat /\ 2 * MaxNest <= MAX_CRITICAL_LEVEL
    BY CriticalAssumption DEF CriticalAssumption
  <2> QED
    BY <2>3, <2>4
<1>3. PICK c : c = [Me EXCEPT !.at = "restore", !.flags = saved[count - 1]]
  OBVIOUS
<1>4. failed' = FALSE /\ count' = count - 1 /\ Becomes(c) /\ UNCHANGED <<daif, saved, spsr>>
  <2>1. failed' = FALSE
    BY <1>2 DEF LeavePop
  <2> QED
    BY <1>3, <2>1 DEF LeavePop
<1>5. saved[count - 1] \in Mask
  BY <1>2, TopFacts, CriticalAssumption DEF CriticalAssumption
<1>6. /\ c \in Contexts /\ c.at = "restore" /\ c.flags = saved[count - 1]
      /\ c.open = Me.open /\ c.level = Me.level /\ c.base = Me.base
  BY <1>3, <1>5, TopFacts DEF Contexts, Labels
<1>7. \A k : Before(c, k) = Before(Me, k)
  BY <1>6 DEF Before
<1>8. saved[count - 1] = MaskOf(Before(Me, Len(Me.open) - 1))
  <2>1. count - 1 = Me.base + Len(Me.open) - 1 /\ Len(Me.open) \in 1 .. Len(Me.open)
    BY <1>1, TopFacts DEF Depth
  <2> QED
    BY <2>1, TopFacts DEF SavedFor
<1>9. Nested(c)
  BY <1>6, <1>7, TopFacts DEF Nested
<1>10. Runs(c)'
  BY <1>1, <1>4, <1>6, <1>7, <1>8 DEF Runs, Depth, Before
<1>11. \A k \in 1 .. Len(c.open) : saved'[c.base + k - 1] = MaskOf(Before(c, k - 1))
  BY <1>4, <1>6, <1>7, TopFacts DEF SavedFor
<1> QED
  BY <1>2, <1>4, <1>6, <1>9, <1>10, <1>11, TopFacts, TopStep

LEMMA LeaveRestoreStep ==
  ASSUME CritInv, LeaveRestore PROVE CritInv'
<1>1. PICK c : c = [Me EXCEPT !.at = "run", !.open = SubSeq(@, 1, Len(@) - 1)]
  OBVIOUS
<1>2. /\ Me.at = "restore" /\ daif' = Me.flags /\ Becomes(c)
      /\ UNCHANGED <<count, saved, spsr, failed>>
  BY <1>1 DEF LeaveRestore
<1>3. /\ count = Depth(Me) - 1 /\ Len(Me.open) >= 1
      /\ Me.flags = MaskOf(Before(Me, Len(Me.open) - 1))
  BY <1>2, TopFacts DEF Runs
<1>4. /\ c \in Contexts /\ Nested(c) /\ Len(c.open) = Len(Me.open) - 1
      /\ LevelOf(c) = Before(Me, Len(Me.open) - 1)
      /\ \A k \in 0 .. Len(c.open) : Before(c, k) = Before(Me, k)
  <2>1. PICK me : me = Me
    OBVIOUS
  <2>2. me \in Contexts /\ Nested(me) /\ Len(me.open) >= 1
    BY <1>3, <2>1, TopFacts
  <2>3. c = [me EXCEPT !.at = "run", !.open = SubSeq(@, 1, Len(@) - 1)]
    BY <1>1, <2>1
  <2>4. /\ c \in Contexts /\ Nested(c) /\ Len(c.open) = Len(me.open) - 1
        /\ LevelOf(c) = Before(me, Len(me.open) - 1)
        /\ \A k \in 0 .. Len(c.open) : Before(c, k) = Before(me, k)
    BY <2>2, <2>3, CloseFacts, Zenon
  <2> QED
    BY <2>1, <2>4, Zenon
<1>5. c.at = "run" /\ c.level = Me.level /\ c.base = Me.base /\ Me.flags \in Mask
  BY <1>1, TopFacts DEF Contexts
<1>6. count' = Depth(c)
  <2>1. count' = (Me.base + Len(Me.open)) - 1
    BY <1>2, <1>3 DEF Depth
  <2>2. Depth(c) = Me.base + (Len(Me.open) - 1)
    BY <1>4, <1>5 DEF Depth
  <2> QED
    BY <2>1, <2>2, TopFacts
<1>7. Runs(c)'
  BY <1>2, <1>3, <1>4, <1>5, <1>6 DEF Runs, LevelOf, Depth
<1>8. ASSUME NEW k \in 1 .. Len(c.open)
      PROVE  saved'[c.base + k - 1] = MaskOf(Before(c, k - 1))
  <2>1. k \in 1 .. Len(Me.open) /\ k - 1 \in 0 .. Len(c.open)
    BY <1>4, TopFacts
  <2> QED
    BY <1>2, <1>4, <1>5, <2>1, TopFacts DEF SavedFor
<1> QED
  BY <1>2, <1>4, <1>5, <1>7, <1>8, TopFacts, TopStep

LEMMA IrqEntryStep ==
  ASSUME CritInv, IrqEntry PROVE CritInv'
<1>1. PICK c : c = [Me EXCEPT !.at = "run", !.found = spsr]
  OBVIOUS
<1>2. /\ Me.at = "entry" /\ daif' = daif \ {"F"} /\ Becomes(c)
      /\ UNCHANGED <<count, saved, spsr, failed>>
  BY <1>1 DEF IrqEntry
<1>3. /\ count = Depth(Me) /\ daif = {"I", "F"} /\ Len(Me.open) = 0 /\ spsr = {}
      /\ Me.level = IRQ_LEVEL
  BY <1>2, TopFacts DEF Runs
<1>4. /\ c \in Contexts /\ c.at = "run"
      /\ c.open = Me.open /\ c.level = Me.level /\ c.base = Me.base
  BY <1>1, <1>3, TopFacts DEF Contexts, Labels
<1>5. \A k : Before(c, k) = Before(Me, k)
  BY <1>4 DEF Before
<1>6. Nested(c)
  BY <1>4, <1>5, TopFacts DEF Nested
<1>7. LevelOf(c) = IRQ_LEVEL
  BY <1>3, <1>4, <1>6, LevelFacts
<1>8. daif' = {"I"} /\ daif' \in Mask
  BY <1>2, <1>3 DEF Mask
<1>9. Runs(c)'
  BY <1>2, <1>3, <1>4, <1>7, <1>8 DEF Runs, Depth, MaskOf, LevelOf, IRQ_LEVEL, TASK_LEVEL
<1> QED
  BY <1>2, <1>3, <1>4, <1>6, <1>8, <1>9, TopFacts, TopStep

LEMMA IrqExitStep ==
  ASSUME CritInv, IrqExit PROVE CritInv'
<1>1. PICK c : c = [Me EXCEPT !.at = "exit"]
  OBVIOUS
<1>2. /\ Me.at = "run" /\ Me.level = IRQ_LEVEL /\ Me.open = <<>>
      /\ daif' = daif \cup {"F"} /\ spsr' = Me.found /\ Becomes(c)
      /\ UNCHANGED <<count, saved, failed>>
  BY <1>1 DEF IrqExit
<1>3. Len(Me.open) = 0 /\ LevelOf(Me) = IRQ_LEVEL
  BY <1>2, TopFacts, LevelFacts
<1>4. count = Depth(Me) /\ daif = {"I"} /\ Me.found = {}
  BY <1>2, <1>3, TopFacts DEF Runs, MaskOf, IRQ_LEVEL, TASK_LEVEL, Contexts
<1>5. /\ c \in Contexts /\ c.at = "exit"
      /\ c.open = Me.open /\ c.level = Me.level /\ c.base = Me.base
  BY <1>1, TopFacts DEF Contexts, Labels
<1>6. \A k : Before(c, k) = Before(Me, k)
  BY <1>5 DEF Before
<1>7. Nested(c)
  BY <1>5, <1>6, TopFacts DEF Nested
<1>8. daif' = {"I", "F"} /\ daif' \in Mask /\ spsr' \in Mask /\ spsr' = {}
  BY <1>2, <1>4 DEF Mask
<1>9. Runs(c)'
  BY <1>2, <1>3, <1>4, <1>5, <1>8 DEF Runs, Depth
<1>10. c.level < FIQ_LEVEL
  BY <1>2, <1>5 DEF IRQ_LEVEL, FIQ_LEVEL
<1>11. Len(c.open) = 0 /\ failed' = FALSE /\ count' \in Nat
  BY <1>2, <1>3, <1>5, TopFacts
<1>12. /\ saved' \in [0 .. MAX_CRITICAL_LEVEL - 1 -> Mask]
       /\ \A n \in 0 .. c.base - 1 : saved'[n] = saved[n]
       /\ \A k \in 1 .. Len(c.open) : saved'[c.base + k - 1] = MaskOf(Before(c, k - 1))
  BY <1>2, <1>11, TopFacts
<1> QED
  BY <1>2, <1>5, <1>7, <1>8, <1>9, <1>10, <1>11, <1>12, TopStep

\* An interrupt of a higher level than the running context and its sections
\* comes on top.
LEMMA PushStep ==
  ASSUME CritInv, NEW level \in {IRQ_LEVEL, FIQ_LEVEL}, NEW at \in {"entry", "run"},
         LevelOf(Me) < level, Waits(Me), at = "entry" <=> level = IRQ_LEVEL,
         ctx' = Append(ctx, Context(level, at, count)), daif' = {"I", "F"},
         spsr' = MaskOf(LevelOf(Me)), UNCHANGED <<count, saved, failed>>
  PROVE  CritInv'
<1>1. PICK c : c = Context(level, at, count)
  OBVIOUS
<1>2. count = Depth(Me) /\ Me.level < FIQ_LEVEL /\ Me.base = 0 /\ count \in 0 .. MaxNest
  <2>1. count = Depth(Me)
    BY TopFacts DEF Waits, Runs
  <2>2. Me.level < FIQ_LEVEL
    BY TopFacts DEF IRQ_LEVEL, FIQ_LEVEL
  <2> QED
    BY <2>1, <2>2, TopFacts DEF Nested, Depth
<1>3. /\ c.level = level /\ c.at = at /\ c.base = count /\ c.open = <<>> /\ Len(c.open) = 0
      /\ c \in Contexts
  BY <1>1, <1>2 DEF Context, Contexts, Labels, IRQ_LEVEL, FIQ_LEVEL, Mask
<1>4. /\ ctx' \in Seq(Contexts) /\ Top' = Top + 1 /\ Len(ctx') = Top + 1 /\ Me' = c
      /\ ctx'[Top + 1] = c /\ \A i \in 1 .. Top : ctx'[i] = ctx[i]
  BY <1>1, <1>3, TopFacts DEF Top, Me
<1>5. level = IRQ_LEVEL => count = 0 /\ spsr' = {}
  <2>1. ASSUME level = IRQ_LEVEL PROVE LevelOf(Me) = TASK_LEVEL /\ Len(Me.open) = 0
    BY <2>1, TopFacts, LevelFacts DEF IRQ_LEVEL, FIQ_LEVEL, TASK_LEVEL
  <2> QED
    BY <1>2, <2>1, TopFacts DEF Depth, MaskOf
<1>6. Nested(c) /\ LevelOf(c) = level
  <2>1. Nested(c)
    BY <1>3, <1>5, CriticalAssumption
       DEF Nested, CriticalAssumption, IRQ_LEVEL, FIQ_LEVEL, Before
  <2> QED
    BY <1>3, <2>1, LevelFacts
<1>7. CritTypeOK'
  BY <1>2, <1>4, TopFacts DEF CritTypeOK, CritInv, Mask, MaskOf
<1>8. Stacked'
  <2>1. ctx'[1].level = TASK_LEVEL
    <3>1. 1 \in 1 .. Top
      BY TopFacts
    <3> QED
      BY <1>4, <3>1 DEF CritInv, Stacked
  <2>2. ASSUME NEW i \in 1 .. Top + 1 PROVE Nested(ctx'[i]) /\ SavedFor(ctx[i])'
    <3>1. CASE i = Top + 1
      BY <1>3, <1>4, <1>6, <3>1 DEF SavedFor
    <3>2. CASE i # Top + 1
      <4>1. i \in 1 .. Top /\ ctx'[i] = ctx[i]
        BY <1>4, <3>2, TopFacts
      <4> QED
        BY <4>1 DEF CritInv, Stacked, SavedFor
    <3> QED
      BY <3>1, <3>2
  <2>3. ASSUME NEW i \in 1 .. Top PROVE Above(ctx[i], c) /\ Waits(ctx[i])
    <3>1. CASE i = Top
      BY <1>2, <1>3, <3>1, TopFacts DEF Me, Above
    <3>2. CASE i # Top
      <4>1. Above(ctx[i], Me) /\ Waits(ctx[i])
        <5>1. Top \in 1 .. Top /\ i < Top
          BY <3>2, TopFacts
        <5> QED
          BY <5>1 DEF CritInv, Stacked, Me
      <4>2. Nested(ctx[i]) /\ ctx[i] \in Contexts
        <5>1. ctx[i] \in Contexts
          BY TopFacts DEF Top
        <5> QED
          BY <5>1 DEF CritInv, Stacked
      <4>3. LevelOf(ctx[i]) \in 0 .. 2 /\ Depth(ctx[i]) \in Nat
        <5>1. ctx[i].base \in Nat
          BY <4>2, CriticalAssumption DEF Contexts, CriticalAssumption
        <5> QED
          BY <4>2, <5>1, LevelFacts DEF Depth
      <4> QED
        <5>1. PICK below, a, b, d : /\ below = ctx[i] /\ a = LevelOf(below) /\ b = Depth(below)
                                    /\ d = LevelOf(Me)
          OBVIOUS
        <5>2. a \in 0 .. 2 /\ b \in Nat /\ a < Me.level /\ b <= Me.base
          BY <4>1, <4>3, <5>1 DEF Above
        <5>3. Me.level \in 0 .. 2 /\ d \in 0 .. 2 /\ Me.level <= d /\ Me.base = 0 /\ count \in Nat
          BY <1>2, <5>1, TopFacts
        <5>4. level \in 1 .. 2 /\ d < level
          BY <5>1 DEF IRQ_LEVEL, FIQ_LEVEL
        <5>5. a < level /\ b <= count
          BY <5>2, <5>3, <5>4
        <5>6. c.level = level /\ c.base = count
          BY <1>3
        <5> QED
          BY <4>1, <5>1, <5>5, <5>6 DEF Above
    <3> QED
      BY <3>1, <3>2
  <2>4. ASSUME NEW i \in 1 .. Top + 1, NEW j \in 1 .. Top + 1, i < j
        PROVE  Above(ctx'[i], ctx'[j]) /\ Waits(ctx'[i])
    <3>1. i \in 1 .. Top /\ ctx'[i] = ctx[i]
      BY <1>4, <2>4, TopFacts
    <3>2. CASE j = Top + 1
      BY <1>4, <2>3, <3>1, <3>2
    <3>3. CASE j # Top + 1
      <4>1. j \in 1 .. Top /\ ctx'[j] = ctx[j]
        BY <1>4, <3>3, TopFacts
      <4> QED
        BY <2>4, <3>1, <4>1 DEF CritInv, Stacked
    <3> QED
      BY <3>2, <3>3
  <2>5. ASSUME NEW i \in 1 .. Top PROVE ctx'[i + 1].base = Depth(ctx'[i])
    <3>1. CASE i = Top
      BY <1>2, <1>3, <1>4, <3>1, TopFacts DEF Me
    <3>2. CASE i # Top
      <4>1. i \in 1 .. Top - 1 /\ ctx'[i] = ctx[i] /\ ctx'[i + 1] = ctx[i + 1]
        BY <1>4, <3>2, TopFacts
      <4> QED
        BY <4>1 DEF CritInv, Stacked
    <3> QED
      BY <3>1, <3>2
  <2>6. (Top + 1) - 1 = Top
    BY TopFacts
  <2> QED
    BY <1>4, <2>1, <2>2, <2>4, <2>5, <2>6
       DEF Stacked, Nested, Above, Waits, Depth, Before, LevelOf, Entering
<1>9. Runs(c)'
  BY <1>3, <1>5, <1>6, TopFacts DEF Runs, Depth, LevelOf, MaskOf, IRQ_LEVEL, FIQ_LEVEL, TASK_LEVEL
<1>10. ctx'[Top' - 1] = Me
  BY <1>4, TopFacts DEF Me
<1> QED
  BY <1>4, <1>7, <1>8, <1>9, <1>10, TopFacts DEF CritInv, Runs, LevelOf

LEMMA InterruptFacts ==
  ASSUME CritInv
  PROVE  /\ "I" \notin daif => Waits(Me) /\ LevelOf(Me) < IRQ_LEVEL /\ daif = MaskOf(LevelOf(Me))
         /\ "F" \notin daif => Waits(Me) /\ LevelOf(Me) < FIQ_LEVEL /\ daif = MaskOf(LevelOf(Me))
<1>1. Runs(Me) /\ LevelOf(Me) \in {TASK_LEVEL, IRQ_LEVEL, FIQ_LEVEL}
  BY TopFacts DEF TASK_LEVEL, IRQ_LEVEL, FIQ_LEVEL
<1> QED
  BY <1>1 DEF Runs, Waits, MaskOf, TASK_LEVEL, IRQ_LEVEL, FIQ_LEVEL

LEMMA IrqStep ==
  ASSUME CritInv, Irq PROVE CritInv'
<1>1. Waits(Me) /\ LevelOf(Me) < IRQ_LEVEL /\ spsr' = MaskOf(LevelOf(Me))
  BY InterruptFacts DEF Irq
<1>2. ctx' = Append(ctx, Context(IRQ_LEVEL, "entry", count)) /\ daif' = {"I", "F"}
      /\ UNCHANGED <<count, saved, failed>>
  BY DEF Irq
<1> QED
  BY <1>1, <1>2, PushStep

LEMMA FiqStep ==
  ASSUME CritInv, Fiq PROVE CritInv'
<1>1. Waits(Me) /\ LevelOf(Me) < FIQ_LEVEL /\ spsr' = MaskOf(LevelOf(Me))
  BY InterruptFacts DEF Fiq
<1>2. ctx' = Append(ctx, Context(FIQ_LEVEL, "run", count)) /\ daif' = {"I", "F"}
      /\ UNCHANGED <<count, saved, failed>>
  BY DEF Fiq
<1>3. FIQ_LEVEL # IRQ_LEVEL
  BY DEF FIQ_LEVEL, IRQ_LEVEL
<1> QED
  BY <1>1, <1>2, <1>3, PushStep

\* The context below goes on as it was interrupted.
LEMMA ReturnStep ==
  ASSUME CritInv, Return PROVE CritInv'
<1>1. /\ Len(Me.open) = 0 /\ count = Me.base /\ Me.level \in {IRQ_LEVEL, FIQ_LEVEL}
      /\ Me.level = IRQ_LEVEL => spsr = {}
  <2>1. CASE Me.at = "exit"
    BY <2>1, TopFacts DEF Runs, Depth, FIQ_LEVEL, IRQ_LEVEL
  <2>2. CASE Me.at = "run" /\ Me.level = FIQ_LEVEL /\ Me.open = <<>>
    <3>1. Len(Me.open) = 0
      BY <2>2, TopFacts, LevelFacts
    <3> QED
      BY <2>2, <3>1, TopFacts DEF Runs, Depth, FIQ_LEVEL, IRQ_LEVEL
  <2> QED
    BY <2>1, <2>2 DEF Return
<1>2. Top >= 2 /\ Top - 1 \in 1 .. Top /\ Top - 1 \in 1 .. Top - 1 /\ 1 \in 1 .. Top - 1
  <2>1. ctx[1].level = TASK_LEVEL
    BY DEF CritInv, Stacked
  <2> QED
    BY <1>1, <2>1, TopFacts DEF Me, TASK_LEVEL, IRQ_LEVEL, FIQ_LEVEL
<1>3. daif' = spsr /\ ctx' = SubSeq(ctx, 1, Top - 1) /\ UNCHANGED <<count, saved, spsr, failed>>
  BY DEF Return
<1>4. /\ ctx' \in Seq(Contexts) /\ Top' = Top - 1 /\ Len(ctx') = Top - 1
      /\ \A i \in 1 .. Top - 1 : ctx'[i] = ctx[i]
  BY <1>2, <1>3, TopFacts DEF Top
<1>5. PICK c : c = ctx[Top - 1]
  OBVIOUS
<1>6. Me' = c
  BY <1>2, <1>4, <1>5 DEF Me
<1>7. c \in Contexts /\ Nested(c) /\ Waits(c) /\ LevelOf(c) < Me.level /\ Me.base = Depth(c)
  <2>1. c \in Contexts
    BY <1>2, <1>5, TopFacts DEF Top
  <2>2. Top \in 1 .. Top /\ Top - 1 < Top /\ (Top - 1) + 1 = Top
    BY TopFacts
  <2> QED
    BY <1>2, <1>5, <2>1, <2>2 DEF CritInv, Stacked, Above, Me
<1>8. spsr = MaskOf(LevelOf(c))
  <2>1. CASE Me.level = IRQ_LEVEL
    <3>1. LevelOf(c) = TASK_LEVEL
      BY <1>7, <2>1, LevelFacts DEF IRQ_LEVEL, TASK_LEVEL
    <3> QED
      BY <1>1, <2>1, <3>1 DEF MaskOf
  <2>2. CASE Me.level = FIQ_LEVEL
    BY <1>5, <2>2 DEF CritInv
  <2> QED
    BY <1>1, <2>1, <2>2
<1>9. Runs(c)'
  BY <1>1, <1>3, <1>7, <1>8 DEF Runs, Waits, LevelOf, Depth, Entering
<1>10. CritTypeOK'
  BY <1>2, <1>3, <1>4 DEF CritTypeOK, CritInv
<1>11. Stacked'
  <2>1. ctx'[1].level = TASK_LEVEL
    BY <1>2, <1>4 DEF CritInv, Stacked
  <2>2. ASSUME NEW i \in 1 .. Top - 1 PROVE Nested(ctx'[i]) /\ SavedFor(ctx[i])' /\ ctx'[i] = ctx[i]
    <3>1. i \in 1 .. Top /\ ctx'[i] = ctx[i]
      BY <1>4, TopFacts
    <3> QED
      BY <1>3, <3>1 DEF CritInv, Stacked, SavedFor
  <2>3. ASSUME NEW i \in 1 .. Top - 1, NEW j \in 1 .. Top - 1, i < j
        PROVE  Above(ctx'[i], ctx'[j]) /\ Waits(ctx'[i])
    <3>1. i \in 1 .. Top /\ j \in 1 .. Top /\ ctx'[i] = ctx[i] /\ ctx'[j] = ctx[j]
      BY <1>4, TopFacts
    <3> QED
      BY <2>3, <3>1 DEF CritInv, Stacked
  <2>4. ASSUME NEW i \in 1 .. (Top - 1) - 1 PROVE ctx'[i + 1].base = Depth(ctx'[i])
    <3>1. i \in 1 .. Top - 1 /\ i + 1 \in 1 .. Top - 1
      BY TopFacts
    <3> QED
      BY <1>4, <3>1 DEF CritInv, Stacked
  <2> QED
    BY <1>4, <2>1, <2>2, <2>3, <2>4
       DEF Stacked, Nested, Above, Waits, Depth, Before, LevelOf, Entering
<1>12. c.level < FIQ_LEVEL
  BY <1>1, <1>7, LevelFacts DEF FIQ_LEVEL, IRQ_LEVEL, Contexts
<1> QED
  BY <1>3, <1>6, <1>9, <1>10, <1>11, <1>12, TopFacts DEF CritInv, Runs, LevelOf, FIQ_LEVEL

\* What the properties of the critical sections say follows.
LEMMA CritInvProperties ==
  ASSUME CritInv PROVE SectionsExclude /\ LevelKept
<1>1. ASSUME NEW i \in 1 .. Top, NEW j \in i + 1 .. Top
      PROVE  ctx[j].level > ctx[i].level /\ ctx[j].level > LevelOf(ctx[i])
  <2>1. j \in 1 .. Top /\ i < j
    BY TopFacts
  <2>2. ctx[i] \in Contexts /\ ctx[j] \in Contexts
    BY <2>1, TopFacts DEF Top
  <2>3. LevelOf(ctx[i]) < ctx[j].level /\ Nested(ctx[i])
    BY <2>1 DEF CritInv, Stacked, Above
  <2>4. ctx[i].level <= LevelOf(ctx[i]) /\ LevelOf(ctx[i]) \in 0 .. 2
    BY <2>2, <2>3, LevelFacts
  <2>5. PICK a, b, l : a = ctx[i].level /\ b = ctx[j].level /\ l = LevelOf(ctx[i])
    OBVIOUS
  <2>6. a \in 0 .. 2 /\ b \in 0 .. 2
    BY <2>2, <2>5 DEF Contexts
  <2>7. b > a /\ b > l
    BY <2>3, <2>4, <2>5, <2>6
  <2> QED
    BY <2>5, <2>7
<1>2. Me.at = "run" => CurrentExecutionLevel = LevelOf(Me) /\ count = Me.base + Len(Me.open)
  <2>1. LevelOf(Me) \in {TASK_LEVEL, IRQ_LEVEL, FIQ_LEVEL}
    BY TopFacts DEF TASK_LEVEL, IRQ_LEVEL, FIQ_LEVEL
  <2> QED
    BY <2>1, TopFacts
       DEF Runs, CurrentExecutionLevel, MaskOf, Depth, TASK_LEVEL, IRQ_LEVEL, FIQ_LEVEL
<1> QED
  BY <1>1, <1>2, TopFacts DEF SectionsExclude, LevelKept

-----------------------------------------------------------------------------
(* The invariant of the page allocator.                                     *)

Ops == {"none", "alloc", "free", "take", "link", "done"}
CallRecords == [op : Ops, page : Nat, list : Seq(Page), next : Nat]

\* A context in a call has entered its IRQ_LEVEL section or is about to, and
\* what it has read inside of it is still so.
Calling(c, k) ==
  /\ k.op # "none" => c.level < FIQ_LEVEL
  /\ k.op \in {"alloc", "free"} =>
       \/ c.at \in {"mask", "store", "count"} /\ c.target = IRQ_LEVEL
       \/ c.at = "run" /\ Len(c.open) >= 1 /\ LevelOf(c) = IRQ_LEVEL
  /\ k.op \in {"take", "link", "done"} =>
       c.at = "run" /\ Len(c.open) >= 1 /\ LevelOf(c) = IRQ_LEVEL
  /\ k.op \in {"take", "link"} => k.list = m_pFreeList /\ k.next = m_pNext

Freeing(k) == k.op \in {"free", "link"}

CallsInv ==
  /\ call \in Seq(CallRecords) /\ Len(call) = Top
  /\ \A i \in 1 .. Top : Calling(ctx[i], call[i])

\* The pages that are being freed are held, each by one who frees it.
FreesInv ==
  /\ \A i \in 1 .. Top : Freeing(call[i]) => call[i].page \in Page /\ owners[call[i].page] = 1
  /\ \A i, j \in 1 .. Top :
       i # j /\ Freeing(call[i]) /\ Freeing(call[j]) => call[i].page # call[j].page

\* No page is twice on the free list, and those on it are the pages that were
\* handed out before and that nobody holds.
ListInv ==
  /\ m_pNext \in Nat /\ m_pFreeList \in Seq(Page) /\ owners \in [Page \cup {Behind} -> {0, 1}] /\ owners[Behind] = 0
  /\ \A i, j \in 1 .. Len(m_pFreeList) : m_pFreeList[i] = m_pFreeList[j] => i = j
  /\ \A i \in 1 .. Len(m_pFreeList) :
       owners[m_pFreeList[i]] = 0 /\ m_pFreeList[i] < m_pNext
  /\ \A p \in Page :
       IF p >= m_pNext THEN owners[p] = 0
       ELSE owners[p] = 1 \/ \E i \in 1 .. Len(m_pFreeList) : m_pFreeList[i] = p

Inv == CritInv /\ CallsInv /\ FreesInv /\ ListInv

LEMMA InitInv == Init => Inv
<1> SUFFICES ASSUME Init PROVE Inv
  OBVIOUS
<1>1. /\ ctx = <<Context(TASK_LEVEL, "run", 0)>> /\ Len(ctx) = 1 /\ Top = 1
      /\ ctx[1] = Context(TASK_LEVEL, "run", 0) /\ Me = ctx[1]
  BY DEF Init, CritInit, Top, Me
<1>2. PICK c : c = ctx[1]
  OBVIOUS
<1>3. /\ c \in Contexts /\ c.level = 0 /\ c.base = 0 /\ c.open = <<>> /\ Len(c.open) = 0
      /\ c.at = "run"
  BY <1>1, <1>2, CriticalAssumption
     DEF CriticalAssumption, Context, Contexts, Labels, TASK_LEVEL, IRQ_LEVEL, FIQ_LEVEL, Mask
<1>4. Nested(c) /\ LevelOf(c) = 0 /\ SavedFor(c) /\ Depth(c) = 0
  BY <1>3, CriticalAssumption DEF CriticalAssumption, Nested, LevelOf, SavedFor, Depth, Before
<1>5. CritInv
  <2>1. CritTypeOK
    BY <1>1, <1>2, <1>3 DEF CritTypeOK, Init, CritInit, Mask
  <2>2. Stacked
    BY <1>1, <1>2, <1>3, <1>4 DEF Stacked, TASK_LEVEL
  <2>3. Runs(c)
    BY <1>3, <1>4 DEF Runs, Init, CritInit, MaskOf, TASK_LEVEL
  <2> QED
    BY <1>1, <1>2, <1>3, <2>1, <2>2, <2>3 DEF CritInv, Init, CritInit, FIQ_LEVEL
<1>6. call = <<NoCall>> /\ Len(call) = 1 /\ call[1] = NoCall /\ NoCall.op = "none"
      /\ NoCall \in CallRecords
  <2>1. <<>> \in Seq(Page)
    OBVIOUS
  <2> QED
    BY <2>1 DEF Init, NoCall, CallRecords, Ops
<1>7. CallsInv /\ FreesInv
  BY <1>1, <1>6 DEF CallsInv, FreesInv, Calling, Freeing
<1>8. ListInv
  BY PagesAssumption DEF Init, ListInv, PagesAssumption, Page
<1> QED
  BY <1>5, <1>7, <1>8 DEF Inv

\* Only the running context, if any, is between the reading and the writing of
\* what the lock protects, unless it runs above it.
LEMMA OnlyTop ==
  ASSUME CritInv, CallsInv, NEW i \in 1 .. Top, i # Top, LevelOf(Me) <= IRQ_LEVEL
  PROVE  call[i].op \notin {"take", "link", "done"}
<1>1. Top \in 1 .. Top /\ i < Top
  BY TopFacts
<1>2. LevelOf(ctx[i]) < Me.level /\ Me.level <= LevelOf(Me)
  BY <1>1, TopFacts DEF CritInv, Stacked, Above, Me
<1>3. Nested(ctx[i]) /\ ctx[i] \in Contexts
  <2>1. ctx[i] \in Contexts
    BY TopFacts DEF Top
  <2> QED
    BY <2>1 DEF CritInv, Stacked
<1>4. LevelOf(ctx[i]) # IRQ_LEVEL
  BY <1>2, <1>3, LevelFacts, TopFacts DEF IRQ_LEVEL
<1> QED
  BY <1>4 DEF CallsInv, Calling

LEMMA CallFacts ==
  ASSUME Inv
  PROVE  /\ MyCall \in CallRecords /\ Calling(Me, MyCall)
         /\ Top \in 1 .. Top /\ Top \in Nat /\ Len(call) = Top /\ call \in Seq(CallRecords)
         /\ Len(ctx) = Top
         /\ \A i \in 1 .. Top : call[i] \in CallRecords /\ Calling(ctx[i], call[i])
<1>1. Top \in 1 .. Top /\ Top \in Nat /\ Len(ctx) = Top
  BY TopFacts DEF Inv, Top
<1>2. call \in Seq(CallRecords) /\ Len(call) = Top
  BY DEF Inv, CallsInv
<1>3. \A i \in 1 .. Top : call[i] \in CallRecords /\ Calling(ctx[i], call[i])
  BY <1>2 DEF Inv, CallsInv
<1> QED
  BY <1>1, <1>2, <1>3 DEF MyCall, Me

\* The running context goes on to c and k and leaves the lists alone.
LEMMA TopCallStep ==
  ASSUME Inv, CritInv', NEW c, NEW k \in CallRecords,
         Becomes(c), Goes(k), UNCHANGED <<m_pNext, m_pFreeList, owners>>,
         Calling(c, k),
         Freeing(k) => k.page \in Page /\ owners[k.page] = 1,
         \A i \in 1 .. Top : i # Top /\ Freeing(k) /\ Freeing(call[i]) => k.page # call[i].page
  PROVE  Inv'
<1>1. Top \in 1 .. Top /\ Top \in Nat /\ Len(call) = Top /\ call \in Seq(CallRecords) /\ Len(ctx) = Top
  BY CallFacts
<1>2. /\ Top' = Top /\ Len(call') = Top /\ call' \in Seq(CallRecords)
      /\ ctx'[Top] = c /\ call'[Top] = k
      /\ \A i \in 1 .. Top : i # Top => ctx'[i] = ctx[i] /\ call'[i] = call[i]
  <2>1. ctx \in Seq(Contexts)
    BY TopFacts DEF Inv
  <2> QED
    BY <1>1, <2>1 DEF Becomes, Goes, Top
<1>3. \A i \in 1 .. Top : Calling(ctx'[i], call'[i])
  BY <1>2, CallFacts
<1>4. CallsInv'
  BY <1>2, <1>3 DEF CallsInv, Calling, LevelOf
<1>5. FreesInv'
  <2>1. ASSUME NEW i \in 1 .. Top, Freeing(call'[i])
        PROVE  call'[i].page \in Page /\ owners[call'[i].page] = 1
    BY <1>2, <2>1 DEF Inv, FreesInv
  <2>2. ASSUME NEW i \in 1 .. Top, NEW j \in 1 .. Top, i # j,
               Freeing(call'[i]), Freeing(call'[j])
        PROVE  call'[i].page # call'[j].page
    BY <1>2, <2>2 DEF Inv, FreesInv
  <2> QED
    BY <1>2, <2>1, <2>2 DEF FreesInv, Freeing
<1>6. ListInv'
  BY DEF Inv, ListInv
<1> QED
  BY <1>4, <1>5, <1>6 DEF Inv

\* It goes on to c in the same call.
LEMMA TopOnlyStep ==
  ASSUME Inv, CritInv', NEW c, Becomes(c), UNCHANGED pageVars, Calling(c, MyCall)
  PROVE  Inv'
<1>1. PICK k : k = MyCall
  OBVIOUS
<1>2. k \in CallRecords /\ Calling(c, k)
  BY <1>1, CallFacts
<1>3. call = [call EXCEPT ![Top] = k]
  BY <1>1, CallFacts DEF MyCall
<1>4. Goes(k) /\ UNCHANGED <<m_pNext, m_pFreeList, owners>>
  BY <1>3 DEF Goes, pageVars
<1>5. Freeing(k) => k.page \in Page /\ owners[k.page] = 1
  BY <1>1, CallFacts DEF MyCall, Inv, FreesInv
<1>6. \A i \in 1 .. Top : i # Top /\ Freeing(k) /\ Freeing(call[i]) => k.page # call[i].page
  BY <1>1, CallFacts DEF MyCall, Inv, FreesInv
<1> QED
  BY <1>2, <1>4, <1>5, <1>6, TopCallStep

LEMMA AcquireStep ==
  ASSUME Inv, NEW op \in {"alloc", "free"}, NEW p \in Page \cup {0}, Calls(op, p),
         op = "free" => /\ p \in Page /\ owners[p] > 0
                        /\ \A i \in 1 .. Top : ~(call[i].op = "free" /\ call[i].page = p)
  PROVE  Inv'
<1>1. PICK c : c = [Me EXCEPT !.at = "mask", !.target = IRQ_LEVEL, !.flags = daif]
  OBVIOUS
<1>2. PICK k : k = [NoCall EXCEPT !.op = op, !.page = p]
  OBVIOUS
<1>3. /\ MyCall.op = "none" /\ EnterRead(IRQ_LEVEL) /\ Becomes(c) /\ Goes(k)
      /\ LevelOf(Me) <= IRQ_LEVEL /\ UNCHANGED <<m_pNext, m_pFreeList, owners>>
  BY <1>1, <1>2 DEF Calls, EnterRead
<1>4. CritInv'
  BY <1>3, EnterReadStep DEF Inv
<1>5. k.op = op /\ k.page = p /\ k \in CallRecords
  <2>1. <<>> \in Seq(Page) /\ p \in Nat
    BY PagesAssumption DEF PagesAssumption, Page
  <2>2. k = [op |-> op, page |-> p, list |-> <<>>, next |-> 0]
    BY <1>2 DEF NoCall
  <2> QED
    BY <2>1, <2>2 DEF CallRecords, Ops
<1>6. Calling(c, k)
  <2>1. c.at = "mask" /\ c.target = IRQ_LEVEL /\ c.level = Me.level
    BY <1>1, TopFacts DEF Inv, Contexts
  <2>2. Me.level < FIQ_LEVEL
    BY <1>3, TopFacts DEF Inv, IRQ_LEVEL, FIQ_LEVEL
  <2> QED
    BY <1>5, <2>1, <2>2 DEF Calling
<1>7. Freeing(k) => k.page \in Page /\ owners[k.page] = 1
  BY <1>5 DEF Freeing, Inv, ListInv
<1>8. ASSUME NEW i \in 1 .. Top, i # Top, Freeing(k), Freeing(call[i])
      PROVE  k.page # call[i].page
  <2>1. call[i].op = "free"
    BY <1>3, <1>8, OnlyTop DEF Freeing, Inv
  <2> QED
    BY <1>5, <1>8, <2>1 DEF Freeing
<1> QED
  BY <1>3, <1>4, <1>5, <1>6, <1>7, <1>8, TopCallStep

LEMMA ReadsStep ==
  ASSUME Inv, Reads PROVE Inv'
<1>1. PICK k : k = [MyCall EXCEPT !.op = IF @ = "alloc" THEN "take" ELSE "link",
                                  !.list = m_pFreeList, !.next = m_pNext]
  OBVIOUS
<1>2. /\ Me.at = "run" /\ MyCall.op \in {"alloc", "free"} /\ Goes(k)
      /\ UNCHANGED <<critVars, m_pNext, m_pFreeList, owners>>
  BY <1>1 DEF Reads
<1>3. PICK c : c = Me
  OBVIOUS
<1>4. Becomes(c)
  <2>1. ctx = [ctx EXCEPT ![Top] = c]
    BY <1>3, TopFacts DEF Inv, Me, Top
  <2> QED
    BY <1>2, <2>1 DEF Becomes, critVars
<1>5. CritInv'
  <2>1. UNCHANGED <<daif, count, saved, spsr, ctx, failed>>
    BY <1>2 DEF critVars
  <2> QED
    BY <2>1 DEF Inv, CritInv, CritTypeOK, Stacked, Nested, SavedFor, Above, Waits, Entering, Depth,
                Runs, LevelOf, Me, Top, Before
<1>6. /\ k \in CallRecords /\ k.page = MyCall.page /\ k.list = m_pFreeList /\ k.next = m_pNext
      /\ k.op = IF MyCall.op = "alloc" THEN "take" ELSE "link"
  <2>1. MyCall \in CallRecords /\ m_pNext \in Nat /\ m_pFreeList \in Seq(Page)
    BY CallFacts DEF Inv, ListInv
  <2> QED
    BY <1>1, <2>1 DEF CallRecords, Ops
<1>7. Calling(c, k)
  BY <1>2, <1>3, <1>6, CallFacts DEF Calling
<1>8. Freeing(k) => Freeing(MyCall)
  BY <1>2, <1>6 DEF Freeing
<1>9. Freeing(k) => k.page \in Page /\ owners[k.page] = 1
  BY <1>6, <1>8, CallFacts DEF MyCall, Inv, FreesInv
<1>10. \A i \in 1 .. Top : i # Top /\ Freeing(k) /\ Freeing(call[i]) => k.page # call[i].page
  BY <1>6, <1>8, CallFacts DEF MyCall, Inv, FreesInv
<1>11. UNCHANGED <<m_pNext, m_pFreeList, owners>>
  BY <1>2
<1> QED
  BY <1>2, <1>4, <1>5, <1>6, <1>7, <1>9, <1>10, <1>11, TopCallStep

LEMMA ReleaseStep ==
  ASSUME Inv, Release PROVE Inv'
<1>1. PICK c : c = [Me EXCEPT !.at = "pop"]
  OBVIOUS
<1>2. PICK k : k = NoCall
  OBVIOUS
<1>3. Becomes(c) /\ Goes(k) /\ LeaveMask /\ UNCHANGED <<m_pNext, m_pFreeList, owners>>
  BY <1>1, <1>2 DEF Release, LeaveMask
<1>4. CritInv'
  BY <1>3, LeaveMaskStep DEF Inv
<1>5. k \in CallRecords /\ k.op = "none"
  <2>1. <<>> \in Seq(Page)
    OBVIOUS
  <2> QED
    BY <1>2, <2>1 DEF NoCall, CallRecords, Ops
<1>6. Calling(c, k) /\ ~Freeing(k)
  BY <1>5 DEF Calling, Freeing
<1> QED
  BY <1>3, <1>4, <1>5, <1>6, TopCallStep

LEMMA OtherSectionStep ==
  ASSUME Inv, OtherSection PROVE Inv'
<1>1. MyCall.op = "none" /\ UNCHANGED pageVars
  BY DEF OtherSection
<1>2. \A c : Calling(c, MyCall)
  BY <1>1 DEF Calling
<1>3. ASSUME NEW t \in {IRQ_LEVEL, FIQ_LEVEL}, EnterRead(t) PROVE Inv'
  <2>1. PICK c : c = [Me EXCEPT !.at = "mask", !.target = t, !.flags = daif]
    OBVIOUS
  <2>2. Becomes(c) /\ CritInv'
    BY <1>3, <2>1, EnterReadStep DEF EnterRead, Inv
  <2> QED
    BY <1>1, <1>2, <2>2, TopOnlyStep
<1>4. ASSUME LeaveMask PROVE Inv'
  <2>1. PICK c : c = [Me EXCEPT !.at = "pop"]
    OBVIOUS
  <2>2. Becomes(c) /\ CritInv'
    BY <1>4, <2>1, LeaveMaskStep DEF LeaveMask, Inv
  <2> QED
    BY <1>1, <1>2, <2>2, TopOnlyStep
<1> QED
  BY <1>3, <1>4 DEF OtherSection

LEMMA ProceedStep ==
  ASSUME Inv, Proceed PROVE Inv'
<1>1. UNCHANGED pageVars /\ Me \in Contexts /\ Runs(Me) /\ CritInv /\ Nested(Me)
  BY TopFacts DEF Proceed, Inv
<1>2. Calling(Me, MyCall)
  BY CallFacts
<1>3. ASSUME EnterMask PROVE Inv'
  <2>1. PICK c : c = [Me EXCEPT !.at = "store"]
    OBVIOUS
  <2>2. Becomes(c) /\ CritInv' /\ Me.at = "mask"
    BY <1>1, <1>3, <2>1, EnterMaskStep DEF EnterMask
  <2>3. c.at = "store" /\ c.target = Me.target /\ c.level = Me.level
    BY <1>1, <2>1 DEF Contexts
  <2>4. Calling(c, MyCall)
    BY <1>2, <2>2, <2>3 DEF Calling
  <2> QED
    BY <1>1, <2>2, <2>4, TopOnlyStep
<1>4. ASSUME EnterStore PROVE Inv'
  <2>1. PICK c : c = [Me EXCEPT !.at = "count", !.slot = count]
    OBVIOUS
  <2>2. Becomes(c) /\ CritInv' /\ Me.at = "store"
    BY <1>1, <1>4, <2>1, EnterStoreStep DEF EnterStore
  <2>3. c.at = "count" /\ c.target = Me.target /\ c.level = Me.level
    BY <1>1, <2>1 DEF Contexts
  <2>4. Calling(c, MyCall)
    BY <1>2, <2>2, <2>3 DEF Calling
  <2> QED
    BY <1>1, <2>2, <2>4, TopOnlyStep
<1>5. ASSUME EnterCount PROVE Inv'
  <2>1. PICK c : c = [Me EXCEPT !.at = "run", !.open = Append(@, Me.target)]
    OBVIOUS
  <2>2. Becomes(c) /\ CritInv' /\ Me.at = "count"
    BY <1>1, <1>5, <2>1, EnterCountStep DEF EnterCount
  <2>3. Entering(Me)
    BY <1>1, <2>2 DEF Runs
  <2>4. LevelOf(c) = Me.target /\ Len(c.open) = Len(Me.open) + 1
    BY <1>1, <2>1, <2>3, OpenFacts
  <2>5. c.at = "run" /\ c.level = Me.level /\ Len(c.open) >= 1
    BY <1>1, <2>1, <2>4, LevelFacts DEF Contexts
  <2>6. Calling(c, MyCall)
    BY <1>2, <2>2, <2>4, <2>5 DEF Calling
  <2> QED
    BY <1>1, <2>2, <2>6, TopOnlyStep
<1>6. ASSUME Me.at \in {"pop", "restore", "entry"} PROVE \A c : Calling(c, MyCall)
  <2>1. MyCall.op = "none"
    BY <1>2, <1>6, CallFacts DEF Calling, CallRecords, Ops
  <2> QED
    BY <2>1 DEF Calling
<1>7. ASSUME LeavePop PROVE Inv'
  <2>1. PICK c : c = [Me EXCEPT !.at = "restore",
                                !.flags = IF failed' THEN @ ELSE saved[count - 1]]
    OBVIOUS
  <2>2. Becomes(c) /\ CritInv' /\ Me.at = "pop"
    BY <1>1, <1>7, <2>1, LeavePopStep DEF LeavePop
  <2> QED
    BY <1>1, <1>6, <2>2, TopOnlyStep
<1>8. ASSUME LeaveRestore PROVE Inv'
  <2>1. PICK c : c = [Me EXCEPT !.at = "run", !.open = SubSeq(@, 1, Len(@) - 1)]
    OBVIOUS
  <2>2. Becomes(c) /\ CritInv' /\ Me.at = "restore"
    BY <1>1, <1>8, <2>1, LeaveRestoreStep DEF LeaveRestore
  <2> QED
    BY <1>1, <1>6, <2>2, TopOnlyStep
<1>9. ASSUME IrqEntry PROVE Inv'
  <2>1. PICK c : c = [Me EXCEPT !.at = "run", !.found = spsr]
    OBVIOUS
  <2>2. Becomes(c) /\ CritInv' /\ Me.at = "entry"
    BY <1>1, <1>9, <2>1, IrqEntryStep DEF IrqEntry
  <2> QED
    BY <1>1, <1>6, <2>2, TopOnlyStep
<1> QED
  BY <1>3, <1>4, <1>5, <1>7, <1>8, <1>9 DEF Proceed

LEMMA InterruptedStep ==
  ASSUME Inv, Interrupted PROVE Inv'
<1>1. CritInv'
  BY IrqStep, FiqStep DEF Inv, Interrupted
<1>2. call' = Append(call, NoCall) /\ UNCHANGED <<m_pNext, m_pFreeList, owners>>
  BY DEF Interrupted
<1>3. PICK c : ctx' = Append(ctx, c)
  BY DEF Interrupted, Irq, Fiq
<1>4. NoCall \in CallRecords /\ NoCall.op = "none"
  <2>1. <<>> \in Seq(Page)
    OBVIOUS
  <2> QED
    BY <2>1 DEF NoCall, CallRecords, Ops
<1>5. /\ Top' = Top + 1 /\ Len(call') = Top + 1 /\ call' \in Seq(CallRecords)
      /\ call'[Top + 1] = NoCall
      /\ \A i \in 1 .. Top : ctx'[i] = ctx[i] /\ call'[i] = call[i]
  <2>1. ctx \in Seq(Contexts) /\ call \in Seq(CallRecords) /\ Len(call) = Top /\ Len(ctx) = Top
    BY TopFacts, CallFacts DEF Inv
  <2> QED
    BY <1>2, <1>3, <1>4, <2>1 DEF Top
<1>6. \A i \in 1 .. Top + 1 : i \in 1 .. Top \/ i = Top + 1
  BY CallFacts
<1>7. \A i \in 1 .. Top + 1 : Calling(ctx'[i], call'[i])
  BY <1>4, <1>5, <1>6, CallFacts DEF Calling
<1>8. CallsInv'
  BY <1>2, <1>5, <1>7 DEF CallsInv, Calling, LevelOf
<1>9. FreesInv'
  BY <1>2, <1>4, <1>5, <1>6 DEF Inv, FreesInv, Freeing
<1>10. ListInv'
  BY <1>2 DEF Inv, ListInv
<1> QED
  BY <1>1, <1>8, <1>9, <1>10 DEF Inv

LEMMA ReturnedStep ==
  ASSUME Inv, Returned PROVE Inv'
<1>1. MyCall.op = "none" /\ UNCHANGED <<m_pNext, m_pFreeList, owners>>
  BY DEF Returned
<1>2. ASSUME IrqExit, UNCHANGED call PROVE Inv'
  <2>1. PICK c : c = [Me EXCEPT !.at = "exit"]
    OBVIOUS
  <2>2. Becomes(c) /\ CritInv' /\ UNCHANGED pageVars
    BY <1>1, <1>2, <2>1, IrqExitStep DEF IrqExit, Inv, pageVars
  <2>3. Calling(c, MyCall)
    BY <1>1 DEF Calling
  <2> QED
    BY <2>2, <2>3, TopOnlyStep
<1>3. ASSUME Return, call' = SubSeq(call, 1, Top - 1) PROVE Inv'
  <2>1. CritInv'
    BY <1>3, ReturnStep DEF Inv
  <2>2. ctx' = SubSeq(ctx, 1, Top - 1)
    BY <1>3 DEF Return
  <2>3. /\ Top' = Top - 1 /\ Len(call') = Top - 1 /\ call' \in Seq(CallRecords)
        /\ \A i \in 1 .. Top - 1 : i \in 1 .. Top /\ ctx'[i] = ctx[i] /\ call'[i] = call[i]
    <3>1. ctx \in Seq(Contexts) /\ call \in Seq(CallRecords) /\ Len(call) = Top /\ Len(ctx) = Top
          /\ Top \in Nat /\ Top >= 1
      BY TopFacts, CallFacts DEF Inv
    <3> QED
      BY <1>3, <2>2, <3>1 DEF Top
  <2>4. \A i \in 1 .. Top - 1 : Calling(ctx'[i], call'[i])
    BY <2>3, CallFacts
  <2>5. CallsInv'
    BY <1>1, <2>3, <2>4 DEF CallsInv, Calling, LevelOf
  <2>6. FreesInv'
    BY <1>1, <2>3 DEF Inv, FreesInv, Freeing
  <2>7. ListInv'
    BY <1>1 DEF Inv, ListInv
  <2> QED
    BY <2>1, <2>5, <2>6, <2>7 DEF Inv
<1> QED
  BY <1>2, <1>3 DEF Returned

-----------------------------------------------------------------------------
(* What is written inside the section.                                      *)

\* The running context is alone there and writes the lists.
LEMMA WriteFacts ==
  ASSUME Inv, MyCall.op \in {"take", "link"}, Goes([MyCall EXCEPT !.op = "done"]), UNCHANGED critVars
  PROVE  /\ CritInv' /\ CallsInv'
         /\ MyCall.list = m_pFreeList /\ MyCall.next = m_pNext
         /\ \A i \in 1 .. Top :
              /\ Freeing(call'[i]) => i # Top /\ call'[i] = call[i] /\ Freeing(call[i])
              /\ i # Top => call[i].op \notin {"take", "link"}
<1>1. CritInv'
  <2>1. UNCHANGED <<daif, count, saved, spsr, ctx, failed>>
    BY DEF critVars
  <2> QED
    BY <2>1 DEF Inv, CritInv, CritTypeOK, Stacked, Nested, SavedFor, Above, Waits, Entering, Depth,
                Runs, LevelOf, Me, Top, Before
<1>2. PICK k : k = [MyCall EXCEPT !.op = "done"]
  OBVIOUS
<1>3. k \in CallRecords /\ k.op = "done"
  BY <1>2, CallFacts DEF CallRecords, Ops
<1>4. /\ Top' = Top /\ Len(call') = Top /\ call' \in Seq(CallRecords) /\ ctx' = ctx
      /\ call'[Top] = k /\ \A i \in 1 .. Top : i # Top => call'[i] = call[i]
  BY <1>2, <1>3, CallFacts DEF Goes, critVars, Top
<1>5. Calling(Me, MyCall) /\ LevelOf(Me) = IRQ_LEVEL /\ Me.at = "run" /\ Len(Me.open) >= 1
      /\ Me.level < FIQ_LEVEL /\ MyCall.list = m_pFreeList /\ MyCall.next = m_pNext
  BY CallFacts DEF Calling
<1>6. \A i \in 1 .. Top : i # Top => call[i].op \notin {"take", "link", "done"}
  BY <1>5, OnlyTop DEF Inv, IRQ_LEVEL
<1>7. ASSUME NEW i \in 1 .. Top PROVE Calling(ctx[i], call[i])'
  <2>1. CASE i = Top
    BY <1>3, <1>4, <1>5, <2>1 DEF Calling, Me, LevelOf
  <2>2. CASE i # Top
    BY <1>4, <1>6, <2>2, CallFacts DEF Calling, LevelOf
  <2> QED
    BY <2>1, <2>2
<1>8. CallsInv'
  BY <1>4, <1>7 DEF CallsInv
<1> QED
  BY <1>1, <1>3, <1>4, <1>5, <1>6, <1>8 DEF Freeing

LEMMA TakeListedStep ==
  ASSUME Inv, TakeListed PROVE Inv'
<1>1. /\ MyCall.op = "take" /\ Goes([MyCall EXCEPT !.op = "done"]) /\ UNCHANGED critVars
      /\ m_pNext' = m_pNext /\ MyCall.list # <<>>
  BY DEF TakeListed
<1>2. /\ CritInv' /\ CallsInv' /\ MyCall.list = m_pFreeList
      /\ \A i \in 1 .. Top :
           Freeing(call'[i]) => i # Top /\ call'[i] = call[i] /\ Freeing(call[i])
  BY <1>1, WriteFacts
<1>3. PICK list : list = m_pFreeList
  OBVIOUS
<1>4. /\ list \in Seq(Page) /\ list # <<>> /\ Len(list) \in Nat /\ Len(list) >= 1
      /\ Head(list) = list[1] /\ list[1] \in Page
  BY <1>1, <1>2, <1>3 DEF Inv, ListInv
<1>5. m_pFreeList' = Tail(list) /\ owners' = [owners EXCEPT ![list[1]] = @ + 1]
  BY <1>2, <1>3, <1>4 DEF TakeListed
<1>6. /\ Tail(list) \in Seq(Page) /\ Len(Tail(list)) = Len(list) - 1
      /\ \A i \in 1 .. Len(list) - 1 : Tail(list)[i] = list[i + 1]
  BY <1>4
<1>7. /\ owners \in [Page \cup {Behind} -> {0, 1}] /\ owners[Behind] = 0 /\ m_pNext \in Nat
      /\ \A i, j \in 1 .. Len(list) : list[i] = list[j] => i = j
      /\ \A i \in 1 .. Len(list) : owners[list[i]] = 0 /\ list[i] < m_pNext
      /\ \A p \in Page : IF p >= m_pNext THEN owners[p] = 0
                         ELSE owners[p] = 1 \/ \E i \in 1 .. Len(list) : list[i] = p
  BY <1>3 DEF Inv, ListInv
<1>8. 1 \in 1 .. Len(list) /\ owners[list[1]] = 0
  BY <1>4, <1>7
<1>9. owners' \in [Page \cup {Behind} -> {0, 1}] /\ owners'[Behind] = 0 /\ owners'[list[1]] = 1
      /\ \A p \in Page : p # list[1] => owners'[p] = owners[p]
  BY <1>4, <1>5, <1>7, <1>8 DEF Page, Behind
<1>10. \A i \in 1 .. Len(list) - 1 :
         /\ i + 1 \in 1 .. Len(list) /\ i + 1 # 1 /\ list[i + 1] # list[1]
         /\ list[i + 1] \in Page
  <2> TAKE i \in 1 .. Len(list) - 1
  <2>1. i + 1 \in 1 .. Len(list) /\ i + 1 # 1
    BY <1>4
  <2> QED
    BY <1>4, <1>7, <1>8, <2>1
<1>11. ListInv'
  <2>1. \A i, j \in 1 .. Len(m_pFreeList') : m_pFreeList'[i] = m_pFreeList'[j] => i = j
    BY <1>4, <1>5, <1>6, <1>7, <1>10
  <2>2. \A i \in 1 .. Len(m_pFreeList') :
          owners'[m_pFreeList'[i]] = 0 /\ m_pFreeList'[i] < m_pNext'
    BY <1>1, <1>5, <1>6, <1>7, <1>9, <1>10
  <2>3. ASSUME NEW p \in Page, ~(p >= m_pNext'), owners'[p] # 1
        PROVE  \E i \in 1 .. Len(m_pFreeList') : m_pFreeList'[i] = p
    <3>1. p # list[1] /\ owners[p] # 1
      BY <1>9, <2>3
    <3>2. PICK i \in 1 .. Len(list) : list[i] = p
      BY <1>1, <1>7, <2>3, <3>1
    <3>3. i - 1 \in 1 .. Len(list) - 1 /\ (i - 1) + 1 = i
      BY <1>4, <3>1, <3>2
    <3> QED
      BY <1>5, <1>6, <3>2, <3>3
  <2>4. \A p \in Page : p >= m_pNext' => owners'[p] = 0
    BY <1>1, <1>4, <1>7, <1>8, <1>9 DEF Page
  <2> QED
    BY <1>1, <1>5, <1>6, <1>7, <1>9, <2>1, <2>2, <2>3, <2>4 DEF ListInv
<1>12. FreesInv'
  <2>1. Top' = Top
    BY <1>1 DEF critVars, Top
  <2>2. ASSUME NEW i \in 1 .. Top, Freeing(call'[i])
        PROVE  call'[i].page \in Page /\ owners'[call'[i].page] = 1
    <3>1. call'[i].page \in Page /\ owners[call'[i].page] = 1
      BY <1>2, <2>2 DEF Inv, FreesInv
    <3> QED
      BY <1>8, <1>9, <3>1
  <2>3. \A i, j \in 1 .. Top :
          i # j /\ Freeing(call'[i]) /\ Freeing(call'[j]) => call'[i].page # call'[j].page
    BY <1>2 DEF Inv, FreesInv
  <2> QED
    BY <2>1, <2>2, <2>3 DEF FreesInv, Freeing
<1> QED
  BY <1>2, <1>11, <1>12 DEF Inv

LEMMA TakeNextStep ==
  ASSUME Inv, TakeNext PROVE Inv'
<1>1. /\ MyCall.op = "take" /\ Goes([MyCall EXCEPT !.op = "done"]) /\ UNCHANGED critVars
      /\ m_pFreeList' = m_pFreeList /\ MyCall.list = <<>>
  BY DEF TakeNext
<1>2. /\ CritInv' /\ CallsInv' /\ MyCall.list = m_pFreeList /\ MyCall.next = m_pNext
      /\ \A i \in 1 .. Top :
           Freeing(call'[i]) => i # Top /\ call'[i] = call[i] /\ Freeing(call[i])
  BY <1>1, WriteFacts
<1>3. /\ m_pNext' = m_pNext + 1
      /\ owners' = IF m_pNext' > Pages THEN owners ELSE [owners EXCEPT ![Within(m_pNext)] = @ + 1]
  BY <1>2 DEF TakeNext
<1>4. /\ m_pNext \in Nat /\ Pages \in Nat /\ owners \in [Page \cup {Behind} -> {0, 1}] /\ owners[Behind] = 0
      /\ Len(m_pFreeList) = 0 /\ m_pFreeList \in Seq(Page)
      /\ \A p \in Page : p >= m_pNext => owners[p] = 0
      /\ \A p \in Page : p < m_pNext => owners[p] = 1
  <2>1. Len(m_pFreeList) = 0
    BY <1>1, <1>2
  <2> QED
    BY <2>1, PagesAssumption DEF Inv, ListInv, PagesAssumption, Page
<1>5. /\ owners' \in [Page \cup {Behind} -> {0, 1}] /\ owners'[Behind] = 0
      /\ \A p \in Page : owners'[p] = IF p = m_pNext THEN 1 ELSE owners[p]
  <2>1. CASE m_pNext' > Pages
    BY <1>3, <1>4, <2>1 DEF Page
  <2>2. CASE ~(m_pNext' > Pages)
    <3>0. m_pNext \in Page
      BY <1>3, <1>4, <2>2 DEF Page
    <3>1. m_pNext \in Page /\ owners' = [owners EXCEPT ![m_pNext] = @ + 1]
      BY <1>3, <2>2, <3>0 DEF Within
    <3>2. owners[m_pNext] = 0
      BY <1>4, <3>1
    <3> QED
      BY <1>4, <3>1, <3>2 DEF Page, Behind
  <2> QED
    BY <2>1, <2>2
<1>6. ListInv'
  BY <1>1, <1>3, <1>4, <1>5 DEF ListInv, Page
<1>7. FreesInv'
  <2>1. Top' = Top
    BY <1>1 DEF critVars, Top
  <2>2. ASSUME NEW i \in 1 .. Top, Freeing(call'[i])
        PROVE  call'[i].page \in Page /\ owners'[call'[i].page] = 1
    <3>1. call'[i].page \in Page /\ owners[call'[i].page] = 1
      BY <1>2, <2>2 DEF Inv, FreesInv
    <3> QED
      BY <1>5, <3>1
  <2>3. \A i, j \in 1 .. Top :
          i # j /\ Freeing(call'[i]) /\ Freeing(call'[j]) => call'[i].page # call'[j].page
    BY <1>2 DEF Inv, FreesInv
  <2> QED
    BY <2>1, <2>2, <2>3 DEF FreesInv, Freeing
<1> QED
  BY <1>2, <1>6, <1>7 DEF Inv

LEMMA LinkStep ==
  ASSUME Inv, Link PROVE Inv'
<1>1. /\ MyCall.op = "link" /\ Goes([MyCall EXCEPT !.op = "done"]) /\ UNCHANGED critVars
      /\ m_pNext' = m_pNext
  BY DEF Link
<1>2. /\ CritInv' /\ CallsInv' /\ MyCall.list = m_pFreeList
      /\ \A i \in 1 .. Top :
           Freeing(call'[i]) => i # Top /\ call'[i] = call[i] /\ Freeing(call[i])
  BY <1>1, WriteFacts
<1>3. PICK list : list = m_pFreeList
  OBVIOUS
<1>4. PICK page : page = MyCall.page
  OBVIOUS
<1>5. page \in Page /\ owners[page] = 1
  BY <1>1, <1>4, CallFacts DEF Inv, FreesInv, MyCall, Freeing
<1>6. /\ owners \in [Page \cup {Behind} -> {0, 1}] /\ owners[Behind] = 0 /\ m_pNext \in Nat /\ list \in Seq(Page) /\ Len(list) \in Nat
      /\ \A i, j \in 1 .. Len(list) : list[i] = list[j] => i = j
      /\ \A i \in 1 .. Len(list) : list[i] \in Page /\ owners[list[i]] = 0 /\ list[i] < m_pNext
      /\ \A p \in Page : IF p >= m_pNext THEN owners[p] = 0
                         ELSE owners[p] = 1 \/ \E i \in 1 .. Len(list) : list[i] = p
  BY <1>3 DEF Inv, ListInv
<1>7. m_pFreeList' = <<page>> \o list /\ owners' = [owners EXCEPT ![page] = @ - 1]
  BY <1>2, <1>3, <1>4 DEF Link
<1>8. /\ owners' \in [Page \cup {Behind} -> {0, 1}] /\ owners'[Behind] = 0 /\ owners'[page] = 0
      /\ \A p \in Page : p # page => owners'[p] = owners[p]
  BY <1>5, <1>6, <1>7 DEF Page, Behind
<1>9. /\ m_pFreeList' \in Seq(Page) /\ Len(m_pFreeList') = Len(list) + 1
      /\ m_pFreeList'[1] = page
      /\ \A i \in 1 .. Len(list) : m_pFreeList'[i + 1] = list[i]
  BY <1>5, <1>6, <1>7
<1>10. \A i \in 1 .. Len(list) + 1 : i = 1 \/ (i - 1 \in 1 .. Len(list) /\ m_pFreeList'[i] = list[i - 1])
  <2> TAKE i \in 1 .. Len(list) + 1
  <2>1. i = 1 \/ (i - 1 \in 1 .. Len(list) /\ (i - 1) + 1 = i)
    BY <1>6
  <2> QED
    BY <1>9, <2>1
<1>11. \A i \in 1 .. Len(list) : list[i] # page
  BY <1>5, <1>6
<1>12. ListInv'
  <2>1. ASSUME NEW i \in 1 .. Len(list) + 1, NEW j \in 1 .. Len(list) + 1,
               m_pFreeList'[i] = m_pFreeList'[j]
        PROVE  i = j
    <3>1. CASE i = 1
      BY <1>9, <1>10, <1>11, <2>1, <3>1
    <3>2. CASE j = 1
      BY <1>9, <1>10, <1>11, <2>1, <3>2
    <3>3. CASE i # 1 /\ j # 1
      <4>1. i - 1 = j - 1
        BY <1>6, <1>10, <2>1, <3>3
      <4> QED
        BY <4>1
    <3> QED
      BY <3>1, <3>2, <3>3
  <2>2. page < m_pNext
    BY <1>5, <1>6 DEF Page
  <2>3. ASSUME NEW i \in 1 .. Len(list) + 1
        PROVE  owners'[m_pFreeList'[i]] = 0 /\ m_pFreeList'[i] < m_pNext
    BY <1>6, <1>8, <1>9, <1>10, <1>11, <2>2
  <2>4. ASSUME NEW p \in Page, ~(p >= m_pNext), owners'[p] # 1
        PROVE  \E i \in 1 .. Len(list) + 1 : m_pFreeList'[i] = p
    <3>1. CASE p = page
      BY <1>6, <1>9, <3>1
    <3>2. CASE p # page
      <4>1. PICK i \in 1 .. Len(list) : list[i] = p
        BY <1>6, <1>8, <2>4, <3>2
      <4>2. i + 1 \in 1 .. Len(list) + 1
        BY <1>6
      <4> QED
        BY <1>9, <4>1, <4>2
    <3> QED
      BY <3>1, <3>2
  <2>5. \A p \in Page : p >= m_pNext => owners'[p] = 0
    BY <1>6, <1>8
  <2> QED
    BY <1>1, <1>6, <1>8, <1>9, <2>1, <2>3, <2>4, <2>5 DEF ListInv
<1>13. FreesInv'
  <2>1. Top' = Top
    BY <1>1 DEF critVars, Top
  <2>2. ASSUME NEW i \in 1 .. Top, Freeing(call'[i])
        PROVE  call'[i].page \in Page /\ owners'[call'[i].page] = 1
    <3>1. i # Top /\ call'[i] = call[i] /\ Freeing(call[i]) /\ Freeing(call[Top])
      BY <1>1, <1>2, <2>2 DEF MyCall, Freeing
    <3>2. call[i].page # page /\ call[i].page \in Page /\ owners[call[i].page] = 1
      BY <1>4, <3>1, CallFacts DEF Inv, FreesInv, MyCall
    <3> QED
      BY <1>8, <3>1, <3>2
  <2>3. \A i, j \in 1 .. Top :
          i # j /\ Freeing(call'[i]) /\ Freeing(call'[j]) => call'[i].page # call'[j].page
    BY <1>2 DEF Inv, FreesInv
  <2> QED
    BY <2>1, <2>2, <2>3 DEF FreesInv, Freeing
<1> QED
  BY <1>2, <1>12, <1>13 DEF Inv

-----------------------------------------------------------------------------
(* The theorems.                                                            *)

LEMMA StepInv ==
  ASSUME Inv, [Next]_vars PROVE Inv'
<1>1. ASSUME Allocate PROVE Inv'
  BY <1>1, AcquireStep DEF Allocate
<1>2. ASSUME NEW p \in Page, Free(p) PROVE Inv'
  BY <1>2, AcquireStep DEF Free
<1>3. CASE UNCHANGED vars
  <2>1. UNCHANGED <<daif, count, saved, spsr, ctx, failed, m_pNext, m_pFreeList, call, owners>>
    BY <1>3 DEF vars, critVars, pageVars
  <2>2. CritInv'
    BY <2>1 DEF Inv, CritInv, CritTypeOK, Stacked, Nested, SavedFor, Above, Waits, Entering, Depth,
                Runs, LevelOf, Me, Top, Before
  <2>3. CallsInv' /\ FreesInv'
    BY <2>1 DEF Inv, CallsInv, FreesInv, Calling, Freeing, Top, LevelOf
  <2>4. ListInv'
    BY <2>1 DEF Inv, ListInv, Behind, Page
  <2> QED
    BY <2>2, <2>3, <2>4 DEF Inv
<1> QED
  BY <1>1, <1>2, <1>3, ReadsStep, TakeListedStep, TakeNextStep, LinkStep, ReleaseStep,
     OtherSectionStep, ProceedStep, InterruptedStep, ReturnedStep DEF Next

LEMMA ListInvProperty ==
  ASSUME Inv PROVE PagesExact
<1> SUFFICES ASSUME NEW p \in Page
             PROVE  LET listed == {i \in DOMAIN m_pFreeList : m_pFreeList[i] = p}
                    IN  IF p >= m_pNext THEN owners[p] = 0 /\ listed = {}
                        ELSE \/ owners[p] = 1 /\ listed = {}
                             \/ owners[p] = 0 /\ \E i \in listed : listed = {i}
  BY DEF PagesExact, Inv, ListInv
<1> DEFINE listed == {i \in DOMAIN m_pFreeList : m_pFreeList[i] = p}
<1>1. DOMAIN m_pFreeList = 1 .. Len(m_pFreeList) /\ m_pNext \in Nat /\ owners[p] \in {0, 1} /\ p \in Nat
  BY DEF Inv, ListInv, Page
<1>2. \A i \in listed : i \in 1 .. Len(m_pFreeList) /\ owners[p] = 0 /\ p < m_pNext
  BY <1>1 DEF Inv, ListInv
<1>3. \A i, j \in listed : i = j
  BY <1>1 DEF Inv, ListInv
<1>4. CASE p >= m_pNext
  <2>1. listed = {} /\ owners[p] = 0
    BY <1>1, <1>2, <1>4 DEF Inv, ListInv
  <2> QED
    BY <1>4, <2>1
<1>5. CASE ~(p >= m_pNext) /\ owners[p] = 1
  <2>1. listed = {}
    BY <1>2, <1>5
  <2> QED
    BY <1>5, <2>1
<1>6. CASE ~(p >= m_pNext) /\ owners[p] # 1
  <2>1. PICK i \in 1 .. Len(m_pFreeList) : m_pFreeList[i] = p
    BY <1>6 DEF Inv, ListInv
  <2>2. i \in listed /\ listed = {i}
    BY <1>1, <1>3, <2>1
  <2> QED
    BY <1>1, <1>6, <2>2
<1> QED
  BY <1>4, <1>5, <1>6

\* Whatever interrupts what, a section of EnterCritical and LeaveCritical is
\* never interrupted by what it is to keep out.
THEOREM SectionsExcludeAlways == Spec => []SectionsExclude
<1>1. Inv => SectionsExclude
  BY CritInvProperties DEF Inv
<1> QED
  BY <1>1, InitInv, StepInv, PTL DEF Spec

\* The mask and the counter are back where they were when a section is left,
\* at any nesting, and no assertion of synchronize64.cpp fails.
THEOREM LevelKeptAlways == Spec => []LevelKept
<1>1. Inv => LevelKept
  BY CritInvProperties DEF Inv
<1> QED
  BY <1>1, InitInv, StepInv, PTL DEF Spec

\* A page of CPageAllocator has one owner or is once on the free list, though
\* handlers allocate and free pages between any two steps of a task.
THEOREM PagesExactAlways == Spec => []PagesExact
<1>1. Inv => PagesExact
  BY ListInvProperty
<1> QED
  BY <1>1, InitInv, StepInv, PTL DEF Spec
=============================================================================
