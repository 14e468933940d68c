-------------------------- MODULE KernelTimerProofs --------------------------
(* Proofs about KernelTimer, for any number of timers, any delays below     *)
(* half the range of the tick counter and any bounds: the list stays sorted *)
(* and timers fire on time.  A handler that cancels the very timer that the *)
(* poll has saved disturbs the timers of this one tick, never the list.     *)
EXTENDS KernelTimer, SequenceTheorems, TLAPS

\* What inserting into and removing from a sequence yield, by position.
LEMMA InsertAtFacts ==
  ASSUME NEW S, NEW s \in Seq(S), NEW p \in 1 .. Len(s) + 1, NEW e \in S
  PROVE  LET r == InsertAt(s, p, e) IN
         /\ r \in Seq(S)
         /\ Len(r) = Len(s) + 1
         /\ \A j \in 1 .. Len(s) + 1 : r[j] = IF j < p THEN s[j] ELSE IF j = p THEN e ELSE s[j - 1]
<1> DEFINE a == SubSeq(s, 1, p - 1)
           b == SubSeq(s, p, Len(s))
           ae == a \o <<e>>
<1>1. \A i \in 1 .. Len(s) : s[i] \in S
  BY ElementOfSeq
<1>2. Len(s) \in Nat
  BY LenProperties
<1>3. /\ a \in Seq(S) /\ Len(a) = p - 1
      /\ \A i \in 1 .. p - 1 : a[i] = s[i]
  BY <1>1, <1>2, SubSeqProperties
<1>4. /\ b \in Seq(S) /\ Len(b) = Len(s) - p + 1
      /\ \A i \in 1 .. Len(s) - p + 1 : b[i] = s[p + i - 1]
  BY <1>1, <1>2, SubSeqProperties
<1> HIDE DEF a, b
<1>5. /\ <<e>> \in Seq(S) /\ Len(<<e>>) = 1 /\ <<e>>[1] = e
  OBVIOUS
<1>6. /\ ae \in Seq(S) /\ Len(ae) = p
      /\ \A i \in 1 .. p : ae[i] = IF i <= p - 1 THEN a[i] ELSE e
  BY <1>2, <1>3, <1>5, ConcatProperties
<1> HIDE DEF ae
<1>7. /\ ae \o b \in Seq(S) /\ Len(ae \o b) = Len(s) + 1
      /\ \A i \in 1 .. Len(s) + 1 : (ae \o b)[i] = IF i <= p THEN ae[i] ELSE b[i - p]
  BY <1>2, <1>4, <1>6, ConcatProperties
<1>8. InsertAt(s, p, e) = ae \o b
  BY DEF InsertAt, ae, a, b
<1> QED
  BY <1>2, <1>3, <1>4, <1>6, <1>7, <1>8

LEMMA RemoveAtFacts ==
  ASSUME NEW S, NEW s \in Seq(S), NEW p \in 1 .. Len(s)
  PROVE  /\ RemoveAt(s, p) \in Seq(S)
         /\ Len(RemoveAt(s, p)) = Len(s) - 1
         /\ \A j \in 1 .. Len(s) - 1 : /\ j < p => RemoveAt(s, p)[j] = s[j]
                                       /\ j >= p => RemoveAt(s, p)[j] = s[j + 1]
<1> DEFINE a == SubSeq(s, 1, p - 1)
           b == SubSeq(s, p + 1, Len(s))
<1>1. \A i \in 1 .. Len(s) : s[i] \in S
  BY ElementOfSeq
<1>2. Len(s) \in Nat
  BY LenProperties
<1>3. /\ a \in Seq(S) /\ Len(a) = p - 1
      /\ \A i \in 1 .. p - 1 : a[i] = s[i]
  BY <1>1, <1>2, SubSeqProperties
<1>4. /\ b \in Seq(S) /\ Len(b) = Len(s) - p
      /\ \A i \in 1 .. Len(s) - p : b[i] = s[p + i]
  BY <1>1, <1>2, SubSeqProperties
<1> HIDE DEF a, b
<1>5. /\ Len(a) + Len(b) = Len(s) - 1
      /\ \A i \in 1 .. Len(s) - 1 : i <= Len(a) <=> i <= p - 1
  BY <1>2, <1>3, <1>4
<1>6. /\ a \o b \in Seq(S) /\ Len(a \o b) = Len(s) - 1
      /\ \A i \in 1 .. Len(s) - 1 : (a \o b)[i] = IF i <= Len(a) THEN a[i] ELSE b[i - Len(a)]
  <2>1. /\ a \o b \in Seq(S) /\ Len(a \o b) = Len(a) + Len(b)
        /\ \A i \in 1 .. Len(a) + Len(b) : (a \o b)[i] = IF i <= Len(a) THEN a[i] ELSE b[i - Len(a)]
    BY <1>3, <1>4, ConcatProperties
  <2> QED
    BY <1>5, <2>1
<1>7. ASSUME NEW j \in 1 .. Len(s) - 1 PROVE (j < p => (a \o b)[j] = s[j]) /\ (j >= p => (a \o b)[j] = s[j + 1])
  <2>1. CASE j < p
    <3>1. j \in 1 .. p - 1 /\ j <= Len(a)
      BY <1>2, <1>3, <2>1
    <3> QED
      BY <1>3, <1>6, <2>1, <3>1
  <2>2. CASE j >= p
    <3>1. j - Len(a) \in 1 .. Len(s) - p /\ p + (j - Len(a)) = j + 1 /\ ~(j <= Len(a))
      BY <1>2, <1>3, <2>2
    <3>2. (a \o b)[j] = b[j - Len(a)]
      BY <1>6, <3>1
    <3>3. b[j - Len(a)] = s[j + 1]
      BY <1>4, <3>1
    <3> QED
      BY <1>2, <1>3, <2>2, <3>2, <3>3
  <2> QED
    BY <2>1, <2>2
<1>8. RemoveAt(s, p) = a \o b
  BY DEF RemoveAt, a, b
<1> QED
  BY <1>6, <1>7, <1>8

-----------------------------------------------------------------------------
(* The order of the list.                                                   *)

Ordered(s, f) == \A i, j \in 1 .. Len(s) : i < j => s[i] # s[j] /\ f[s[i]] <= f[s[j]]

\* No member of d stands before n.
NextFirst(s, n, d) == \A i, j \in 1 .. Len(s) : s[i] = n /\ s[j] \in d => i <= j

Members(s) == {s[i] : i \in 1 .. Len(s)}

\* r is s with t inserted at p, which is where f puts it.
Inserted(s, f, t, p, r) ==
  /\ Len(s) \in Nat
  /\ \A i \in 1 .. Len(s) : f[s[i]] \in Int
  /\ f[t] \in Int
  /\ t \notin Members(s)
  /\ p \in 1 .. Len(s) + 1
  /\ Ordered(s, f)
  /\ \A i \in 1 .. p - 1 : f[s[i]] <= f[t]
  /\ p <= Len(s) => f[t] <= f[s[p]]
  /\ Len(r) = Len(s) + 1
  /\ \A j \in 1 .. Len(s) + 1 : r[j] = IF j < p THEN s[j] ELSE IF j = p THEN t ELSE s[j - 1]

LEMMA OrderedInsert ==
  ASSUME NEW s, NEW f, NEW t, NEW p, NEW r, Inserted(s, f, t, p, r)
  PROVE  /\ Ordered(r, f)
         /\ Members(r) = Members(s) \cup {t}
         /\ \A n, d : n # t /\ t \notin d /\ NextFirst(s, n, d) => NextFirst(r, n, d)
<1> SUFFICES ASSUME Len(s) \in Nat, \A i \in 1 .. Len(s) : f[s[i]] \in Int,
                    f[t] \in Int, t \notin Members(s), p \in 1 .. Len(s) + 1, Ordered(s, f),
                    \A i \in 1 .. p - 1 : f[s[i]] <= f[t],
                    p <= Len(s) => f[t] <= f[s[p]],
                    Len(r) = Len(s) + 1,
                    \A j \in 1 .. Len(s) + 1 : r[j] = IF j < p THEN s[j] ELSE IF j = p THEN t ELSE s[j - 1]
             PROVE  /\ Ordered(r, f)
                    /\ Members(r) = Members(s) \cup {t}
                    /\ \A n, d : n # t /\ t \notin d /\ NextFirst(s, n, d) => NextFirst(r, n, d)
  BY DEF Inserted
<1> USE DEF Members
<1>1. \A i \in p .. Len(s) : f[t] <= f[s[i]]
  <2> SUFFICES ASSUME NEW i \in p .. Len(s), i # p PROVE f[t] <= f[s[i]]
    OBVIOUS
  <2>1. f[s[p]] <= f[s[i]]
    BY DEF Ordered
  <2> QED
    BY <2>1
<1>2. \A j \in 1 .. Len(r) : j # p => \E l \in 1 .. Len(s) :
         r[j] = s[l] /\ l = IF j < p THEN j ELSE j - 1
  OBVIOUS
<1>3. r[p] = t /\ p \in 1 .. Len(r)
  OBVIOUS
<1>4. ASSUME NEW i \in 1 .. Len(r), NEW j \in 1 .. Len(r), i < j
      PROVE  r[i] # r[j] /\ f[r[i]] <= f[r[j]]
  <2>1. CASE i = p
    <3>0. j # p /\ ~(j < p)
      BY <1>4, <2>1
    <3>1. PICK k \in 1 .. Len(s) : r[j] = s[k] /\ k = j - 1
      BY <1>2, <3>0
    <3>2. k \in p .. Len(s)
      BY <1>4, <2>1, <3>1
    <3>3. f[r[i]] <= f[r[j]]
      BY <1>1, <1>3, <2>1, <3>1, <3>2
    <3> QED
      BY <1>3, <2>1, <3>1, <3>3
  <2>2. CASE j = p
    <3>0. i # p /\ i < p
      BY <1>4, <2>2
    <3>1. PICK k \in 1 .. Len(s) : r[i] = s[k] /\ k = i
      BY <1>2, <3>0
    <3>2. k \in 1 .. p - 1
      BY <1>4, <2>2, <3>1
    <3>3. f[r[i]] <= f[r[j]]
      BY <1>3, <2>2, <3>1, <3>2
    <3> QED
      BY <1>3, <2>2, <3>1, <3>3
  <2>3. CASE i # p /\ j # p
    <3>1. PICK k \in 1 .. Len(s) : r[i] = s[k] /\ k = IF i < p THEN i ELSE i - 1
      BY <1>2, <2>3
    <3>2. PICK l \in 1 .. Len(s) : r[j] = s[l] /\ l = IF j < p THEN j ELSE j - 1
      BY <1>2, <2>3
    <3>3. k < l
      BY <1>4, <2>3, <3>1, <3>2
    <3> QED
      BY <3>1, <3>2, <3>3 DEF Ordered
  <2> QED
    BY <2>1, <2>2, <2>3
<1>5. Ordered(r, f)
  BY <1>4 DEF Ordered
<1>6. ASSUME NEW n, NEW d, n # t, t \notin d, NextFirst(s, n, d),
             NEW i \in 1 .. Len(r), NEW j \in 1 .. Len(r), r[i] = n, r[j] \in d
      PROVE  i <= j
  <2>1. PICK k \in 1 .. Len(s) : r[i] = s[k] /\ k = IF i < p THEN i ELSE i - 1
    BY <1>2, <1>3, <1>6
  <2>2. PICK l \in 1 .. Len(s) : r[j] = s[l] /\ l = IF j < p THEN j ELSE j - 1
    BY <1>2, <1>3, <1>6
  <2>3. k <= l
    BY <1>6, <2>1, <2>2 DEF NextFirst
  <2> QED
    BY <1>3, <1>6, <2>1, <2>2, <2>3
<1>7. \A n, d : n # t /\ t \notin d /\ NextFirst(s, n, d) => NextFirst(r, n, d)
  BY <1>6 DEF NextFirst
<1>8. \A k \in 1 .. Len(s) : \E j \in 1 .. Len(r) : r[j] = s[k]
  <2> TAKE k \in 1 .. Len(s)
  <2>1. CASE k < p
    BY <2>1
  <2>2. CASE k >= p
    <3>1. k + 1 \in 1 .. Len(r) /\ r[k + 1] = s[k]
      BY <2>2
    <3> QED
      BY <3>1
  <2> QED
    BY <2>1, <2>2
<1>9. Members(r) = Members(s) \cup {t}
  <2>1. ASSUME NEW j \in 1 .. Len(r) PROVE r[j] \in Members(s) \cup {t}
    BY <1>2, <1>3
  <2>2. ASSUME NEW k \in 1 .. Len(s) PROVE s[k] \in Members(r)
    BY <1>8
  <2>3. t \in Members(r)
    BY <1>3
  <2> QED
    BY <2>1, <2>2, <2>3
<1> QED
  BY <1>5, <1>7, <1>9

\* r is s without its element at p.
Removed(s, f, p, r) ==
  /\ Len(s) \in Nat
  /\ \A i \in 1 .. Len(s) : f[s[i]] \in Int
  /\ p \in 1 .. Len(s)
  /\ Ordered(s, f)
  /\ Len(r) = Len(s) - 1
  /\ \A j \in 1 .. Len(s) - 1 : (j < p => r[j] = s[j]) /\ (j >= p => r[j] = s[j + 1])

LEMMA OrderedRemove ==
  ASSUME NEW s, NEW f, NEW p, NEW r, Removed(s, f, p, r)
  PROVE  /\ Ordered(r, f)
         /\ Members(r) = Members(s) \ {s[p]}
         /\ \A n, d : NextFirst(s, n, d) => NextFirst(r, n, d)
         /\ p < Len(s) => \A d : NextFirst(s, s[p], d) => NextFirst(r, s[p + 1], d)
         /\ p = Len(s) => \A d : NextFirst(s, s[p], d) /\ d \subseteq Members(s) => d \subseteq {s[p]}
<1> SUFFICES ASSUME Len(s) \in Nat, \A i \in 1 .. Len(s) : f[s[i]] \in Int,
                    p \in 1 .. Len(s), Ordered(s, f), Len(r) = Len(s) - 1,
                    \A j \in 1 .. Len(s) - 1 : (j < p => r[j] = s[j]) /\ (j >= p => r[j] = s[j + 1])
             PROVE  /\ Ordered(r, f)
                    /\ Members(r) = Members(s) \ {s[p]}
                    /\ \A n, d : NextFirst(s, n, d) => NextFirst(r, n, d)
                    /\ p < Len(s) => \A d : NextFirst(s, s[p], d) => NextFirst(r, s[p + 1], d)
                    /\ p = Len(s) => \A d : NextFirst(s, s[p], d) /\ d \subseteq Members(s) => d \subseteq {s[p]}
  BY DEF Removed
<1> USE DEF Members
<1>1. \A j \in 1 .. Len(r) : \E l \in 1 .. Len(s) :
         r[j] = s[l] /\ l = IF j < p THEN j ELSE j + 1
  OBVIOUS
<1>2. ASSUME NEW i \in 1 .. Len(r), NEW j \in 1 .. Len(r), i < j
      PROVE  r[i] # r[j] /\ f[r[i]] <= f[r[j]]
  <2>1. PICK k \in 1 .. Len(s) : r[i] = s[k] /\ k = IF i < p THEN i ELSE i + 1
    BY <1>1
  <2>2. PICK l \in 1 .. Len(s) : r[j] = s[l] /\ l = IF j < p THEN j ELSE j + 1
    BY <1>1
  <2>3. k < l
    BY <1>2, <2>1, <2>2
  <2> QED
    BY <2>1, <2>2, <2>3 DEF Ordered
<1>3. Ordered(r, f)
  BY <1>2 DEF Ordered
<1>4. ASSUME NEW n, NEW d, NextFirst(s, n, d),
             NEW i \in 1 .. Len(r), NEW j \in 1 .. Len(r), r[i] = n, r[j] \in d
      PROVE  i <= j
  <2>1. PICK k \in 1 .. Len(s) : r[i] = s[k] /\ k = IF i < p THEN i ELSE i + 1
    BY <1>1
  <2>2. PICK l \in 1 .. Len(s) : r[j] = s[l] /\ l = IF j < p THEN j ELSE j + 1
    BY <1>1
  <2>3. k <= l
    BY <1>4, <2>1, <2>2 DEF NextFirst
  <2> QED
    BY <2>1, <2>2, <2>3
<1>5. \A n, d : NextFirst(s, n, d) => NextFirst(r, n, d)
  BY <1>4 DEF NextFirst
<1>6. \A k \in 1 .. Len(s) : k # p => s[k] # s[p]
  BY DEF Ordered
<1>7. \A k \in 1 .. Len(s) : k # p => \E j \in 1 .. Len(r) : r[j] = s[k]
  <2> SUFFICES ASSUME NEW k \in 1 .. Len(s), k # p PROVE \E j \in 1 .. Len(r) : r[j] = s[k]
    OBVIOUS
  <2>1. CASE k < p
    BY <2>1
  <2>2. CASE k > p
    <3>1. k - 1 \in 1 .. Len(r) /\ r[k - 1] = s[k]
      BY <2>2
    <3> QED
      BY <3>1
  <2> QED
    BY <2>1, <2>2
<1>8. Members(r) = Members(s) \ {s[p]}
  <2>1. \A j \in 1 .. Len(r) : r[j] \in Members(s) \ {s[p]}
    <3> TAKE j \in 1 .. Len(r)
    <3>1. PICK l \in 1 .. Len(s) : r[j] = s[l] /\ l = IF j < p THEN j ELSE j + 1
      BY <1>1
    <3>2. l # p
      BY <3>1
    <3>3. s[l] # s[p]
      BY <1>6, <3>2
    <3> QED
      BY <3>1, <3>3
  <2>2. \A x \in Members(s) \ {s[p]} : \E k \in 1 .. Len(s) : k # p /\ x = s[k]
    OBVIOUS
  <2>3. ASSUME NEW x \in Members(s) \ {s[p]} PROVE x \in Members(r)
    <3>1. PICK k \in 1 .. Len(s) : k # p /\ x = s[k]
      BY <2>2
    <3>2. PICK j \in 1 .. Len(r) : r[j] = s[k]
      BY <1>7, <3>1
    <3> QED
      BY <3>1, <3>2
  <2>4. \A x \in Members(r) : \E j \in 1 .. Len(r) : x = r[j]
    OBVIOUS
  <2> HIDE DEF Members
  <2> QED
    BY <2>1, <2>3, <2>4
<1>9. ASSUME p < Len(s), NEW d, NextFirst(s, s[p], d),
             NEW i \in 1 .. Len(r), NEW j \in 1 .. Len(r), r[i] = s[p + 1], r[j] \in d
      PROVE  i <= j
  <2>1. PICK k \in 1 .. Len(s) : r[i] = s[k] /\ k = IF i < p THEN i ELSE i + 1
    BY <1>1
  <2>2. PICK l \in 1 .. Len(s) : r[j] = s[l] /\ l = IF j < p THEN j ELSE j + 1
    BY <1>1
  <2>3. k = p + 1
    <3>1. p + 1 \in 1 .. Len(s) /\ s[k] = s[p + 1]
      BY <1>9, <2>1
    <3>2. k < p + 1 \/ k = p + 1 \/ p + 1 < k
      OBVIOUS
    <3> QED
      BY <3>1, <3>2 DEF Ordered
  <2>4. p <= l
    BY <1>9, <2>2 DEF NextFirst
  <2> QED
    BY <2>1, <2>2, <2>3, <2>4
<1>10. p < Len(s) => \A d : NextFirst(s, s[p], d) => NextFirst(r, s[p + 1], d)
  BY <1>9 DEF NextFirst
<1>11. ASSUME p = Len(s), NEW d, NextFirst(s, s[p], d), d \subseteq Members(s), NEW x \in d PROVE x = s[p]
  <2>1. PICK k \in 1 .. Len(s) : x = s[k]
    BY <1>11
  <2>2. p <= k
    BY <1>11, <2>1 DEF NextFirst
  <2> QED
    BY <1>11, <2>1, <2>2
<1> QED
  BY <1>3, <1>5, <1>8, <1>10, <1>11

-----------------------------------------------------------------------------
(* The inductive invariant.  It ties m_nElapsesAt to the ticks that are     *)
(* left, bounds how late a timer can be, and says that the poll has not     *)
(* gone past a timer that is due.                                           *)

\* The deadline of an allocated timer, modulo the range of the counter.
Clock ==
  \A t \in Timer : Allocated(t) => /\ left[t] \in -LateBound .. Half - 1 - LateBound
                                   /\ elapsesAt[t] = Wrap(ticks + left[t])

\* Unless the poll was led past timers, only a timer that a task inserted late
\* is due before a tick, and it is not later than that.
Late ==
  /\ \A t \in Pending : cut \/ left[t] >= -HoldBound \/ t \in due
  /\ draft # NoTimer => left[draft] >= -HoldBound
  /\ due \subseteq Pending
  /\ \A t \in due : left[t] <= 0

\* The poll has nothing due behind it, unless a handler cancelled its element.
Saved ==
  /\ nextEl = NoTimer => due = {}
  /\ NextFirst(list, nextEl, due)

Polling ==
  /\ mode = "task" => nextEl = NoTimer
  /\ mode = "handler" <=> firing # NoTimer
  /\ nextEl \in Pending \cup {NoTimer, Dangling}
  /\ nextEl = Dangling => cut
  /\ cut \/ Saved
  /\ firing # NoTimer => firing # draft /\ left[firing] <= 0

List == Ordered(list, left) /\ \A t \in Pending : t # firing /\ t # draft

Inv == TypeOK /\ List /\ Clock /\ Late /\ Polling

LEMMA PendingMembers ==
  ASSUME NEW s \in Seq(Timer) PROVE ToSet(s) = Members(s) /\ Len(s) \in Nat /\ Members(s) \subseteq Timer
<1>1. DOMAIN s = 1 .. Len(s) /\ Len(s) \in Nat
  BY LenProperties
<1>2. \A i \in 1 .. Len(s) : s[i] \in Timer
  BY ElementOfSeq
<1> QED
  BY <1>1, <1>2 DEF ToSet, Members

\* The signed comparison of wrapped deadlines is the comparison of the ticks left.
LEMMA AfterLeft ==
  ASSUME NEW a \in Int, NEW b \in Int, ticks \in 0 .. TickMod - 1,
         -Half < a, a < Half, -Half < b, b < Half, -Half < a - b, a - b < Half
  PROVE  After(Wrap(ticks + a), Wrap(ticks + b)) <=> a > b
  BY TimerAssumption DEF After, Wrap

LEMMA ElapsedLeft ==
  ASSUME TypeOK, Clock, NEW t \in Timer, Allocated(t) PROVE Elapsed(t) <=> left[t] <= 0
<1>1. /\ left[t] \in Int /\ -Half < left[t] /\ left[t] < Half
      /\ elapsesAt[t] = Wrap(ticks + left[t]) /\ ticks = Wrap(ticks + 0) /\ ticks \in 0 .. TickMod - 1
  <2>1. left[t] \in -LateBound .. Half - 1 - LateBound /\ elapsesAt[t] = Wrap(ticks + left[t])
    BY DEF Clock
  <2>2. ticks \in 0 .. TickMod - 1
    BY DEF TypeOK
  <2> QED
    BY <2>1, <2>2, TimerAssumption DEF Wrap
<1>2. After(Wrap(ticks + left[t]), Wrap(ticks + 0)) <=> left[t] > 0
  <2> DEFINE a == left[t]
  <2>1. a \in Int /\ -Half < a /\ a < Half
    BY <1>1
  <2> HIDE DEF a
  <2>2. 0 \in Int /\ -Half < 0 /\ 0 < Half /\ -Half < a - 0 /\ a - 0 < Half
    BY <2>1, TimerAssumption
  <2>3. After(Wrap(ticks + a), Wrap(ticks + 0)) <=> a > 0
    BY <1>1, <2>1, <2>2, AfterLeft
  <2> QED
    BY <2>3 DEF a
<1> QED
  BY <1>1, <1>2 DEF Elapsed

LEMMA InsertStep ==
  ASSUME TypeOK, List, Clock, NEW t \in Timer, t \notin Pending,
         NEW l \in Int, -HoldBound <= l, l <= Half - 1 - LateBound,
         Insert(t, Wrap(ticks + l)), nextEl # t, t \notin due
  PROVE  /\ list' \in Seq(Timer)
         /\ Ordered(list', [left EXCEPT ![t] = l])
         /\ Pending' = Pending \cup {t}
         /\ NextFirst(list, nextEl, due) => NextFirst(list', nextEl, due)
<1> DEFINE f == [left EXCEPT ![t] = l]
<1>0. list \in Seq(Timer) /\ left \in [Timer -> Int] /\ ticks \in 0 .. TickMod - 1
  BY DEF TypeOK
<1>1. Pending = Members(list) /\ Len(list) \in Nat /\ Members(list) \subseteq Timer
  BY <1>0, PendingMembers DEF Pending
<1>2. PICK p \in 1 .. Len(list) + 1 : Position(p, Wrap(ticks + l)) /\ list' = InsertAt(list, p, t)
  BY DEF Insert
<1>3. /\ list' \in Seq(Timer) /\ Len(list') = Len(list) + 1
      /\ \A j \in 1 .. Len(list) + 1 : list'[j] = IF j < p THEN list[j] ELSE IF j = p THEN t ELSE list[j - 1]
  <2> DEFINE r == InsertAt(list, p, t)
  <2>1. /\ r \in Seq(Timer) /\ Len(r) = Len(list) + 1
        /\ \A j \in 1 .. Len(list) + 1 : r[j] = IF j < p THEN list[j] ELSE IF j = p THEN t ELSE list[j - 1]
    <3>1. list \in Seq(Timer) /\ t \in Timer /\ p \in 1 .. Len(list) + 1
      BY <1>0, <1>2
    <3> QED
      BY <3>1, InsertAtFacts
  <2> HIDE DEF r
  <2>2. list' = r
    BY <1>2 DEF r
  <2> QED
    BY <2>1, <2>2
<1>4. \A i \in 1 .. Len(list) : /\ list[i] \in Timer /\ list[i] \in Pending
                                /\ f[list[i]] = left[list[i]] /\ f[list[i]] \in Int
  BY <1>0, <1>1 DEF Members
<1>5. f[t] = l
  BY <1>0
<1>6. \A i \in 1 .. Len(list) : After(elapsesAt[list[i]], Wrap(ticks + l)) <=> f[list[i]] > f[t]
  <2> TAKE i \in 1 .. Len(list)
  <2> DEFINE a == left[list[i]]
  <2>1. a \in -LateBound .. Half - 1 - LateBound /\ elapsesAt[list[i]] = Wrap(ticks + a)
    BY <1>4 DEF Clock, Allocated
  <2> HIDE DEF a
  <2>2. /\ a \in Int /\ -Half < a /\ a < Half /\ -Half < l /\ l < Half
        /\ -Half < a - l /\ a - l < Half
    BY <2>1, TimerAssumption
  <2>3. After(Wrap(ticks + a), Wrap(ticks + l)) <=> a > l
    BY <1>0, <2>2, AfterLeft
  <2> QED
    BY <1>4, <1>5, <2>1, <2>3 DEF a
<1> HIDE DEF f
<1>7. \A i \in 1 .. p - 1 : f[list[i]] <= f[t]
  <2> TAKE i \in 1 .. p - 1
  <2>1. i \in 1 .. Len(list) /\ ~After(elapsesAt[list[i]], Wrap(ticks + l))
    BY <1>1, <1>2 DEF Position
  <2> QED
    BY <1>4, <1>5, <1>6, <2>1
<1>8. p <= Len(list) => f[t] <= f[list[p]]
  <2> SUFFICES ASSUME p <= Len(list) PROVE f[t] <= f[list[p]]
    OBVIOUS
  <2>1. p \in 1 .. Len(list) /\ After(elapsesAt[list[p]], Wrap(ticks + l))
    BY <1>1, <1>2 DEF Position
  <2> QED
    BY <1>4, <1>5, <1>6, <2>1
<1>9. Ordered(list, f)
  BY <1>1, <1>4 DEF Ordered, List
<1>10. /\ Ordered(list', f)
       /\ Members(list') = Members(list) \cup {t}
       /\ \A n, d : n # t /\ t \notin d /\ NextFirst(list, n, d) => NextFirst(list', n, d)
  <2>1. /\ p \in 1 .. Len(list) + 1
        /\ \A i \in 1 .. Len(list) : f[list[i]] \in Int
        /\ f[t] \in Int
        /\ t \notin Members(list)
        /\ Len(list') = Len(list) + 1
        /\ \A j \in 1 .. Len(list) + 1 :
             list'[j] = IF j < p THEN list[j] ELSE IF j = p THEN t ELSE list[j - 1]
    BY <1>1, <1>2, <1>3, <1>4, <1>5
  <2>2. Len(list) \in Nat
    BY <1>1
  <2>3. Inserted(list, f, t, p, list')
    BY ONLY <2>2, <1>7, <1>8, <1>9, <2>1 DEF Inserted
  <2> QED
    BY ONLY <2>3, OrderedInsert
<1>11. Pending' = Members(list')
  BY <1>3, PendingMembers DEF Pending
<1> QED
  BY <1>1, <1>3, <1>10, <1>11 DEF f

LEMMA RemoveStep ==
  ASSUME TypeOK, List, NEW i \in DOMAIN list, list' = RemoveAt(list, i)
  PROVE  /\ list' \in Seq(Timer)
         /\ Ordered(list', left)
         /\ list[i] \in Pending
         /\ Pending' = Pending \ {list[i]}
         /\ \A n, d : NextFirst(list, n, d) => NextFirst(list', n, d)
         /\ i < Len(list) => \A d : NextFirst(list, list[i], d) => NextFirst(list', list[i + 1], d)
         /\ i < Len(list) => list[i + 1] \in Pending /\ list[i + 1] # list[i]
         /\ i >= Len(list) => \A d : NextFirst(list, list[i], d) /\ d \subseteq Pending => d \subseteq {list[i]}
<1>0. list \in Seq(Timer) /\ left \in [Timer -> Int]
  BY DEF TypeOK
<1>1. /\ Pending = Members(list) /\ Len(list) \in Nat /\ Members(list) \subseteq Timer
      /\ DOMAIN list = 1 .. Len(list)
  BY <1>0, PendingMembers, LenProperties DEF Pending
<1>2. i \in 1 .. Len(list)
  BY <1>1
<1>3. /\ list' \in Seq(Timer) /\ Len(list') = Len(list) - 1
      /\ \A j \in 1 .. Len(list) - 1 : /\ j < i => list'[j] = list[j]
                                       /\ j >= i => list'[j] = list[j + 1]
  <2>1. list \in Seq(Timer) /\ i \in 1 .. Len(list)
    BY <1>0, <1>2
  <2>2. /\ RemoveAt(list, i) \in Seq(Timer) /\ Len(RemoveAt(list, i)) = Len(list) - 1
        /\ \A j \in 1 .. Len(list) - 1 : /\ j < i => RemoveAt(list, i)[j] = list[j]
                                         /\ j >= i => RemoveAt(list, i)[j] = list[j + 1]
    BY ONLY <2>1, RemoveAtFacts
  <2> QED
    BY <2>2
<1>4. \A j \in 1 .. Len(list) : left[list[j]] \in Int /\ list[j] \in Pending
  BY <1>0, <1>1 DEF Members
<1>5. Ordered(list, left)
  BY DEF List
<1>6. Removed(list, left, i, list')
  BY <1>1, <1>2, <1>3, <1>4, <1>5 DEF Removed
<1>7. Pending' = Members(list')
  BY <1>3, PendingMembers DEF Pending
<1>8. i < Len(list) => i + 1 \in 1 .. Len(list) /\ i < i + 1
  BY <1>1, <1>2
<1>9. i < Len(list) => list[i + 1] # list[i]
  BY <1>1, <1>2, <1>8, <1>5 DEF Ordered
<1>10. i >= Len(list) => i = Len(list)
  BY <1>1, <1>2
<1> QED
  <2>1. /\ Ordered(list', left)
        /\ Members(list') = Members(list) \ {list[i]}
        /\ \A n, d : NextFirst(list, n, d) => NextFirst(list', n, d)
        /\ i < Len(list) => \A d : NextFirst(list, list[i], d) => NextFirst(list', list[i + 1], d)
        /\ i = Len(list) => \A d : NextFirst(list, list[i], d) /\ d \subseteq Members(list) => d \subseteq {list[i]}
    BY <1>6, OrderedRemove
  <2>2. i < Len(list) => list[i + 1] \in Pending
    BY <1>4, <1>8
  <2> QED
    BY <1>1, <1>2, <1>3, <1>4, <1>7, <1>9, <1>10, <2>1, <2>2

-----------------------------------------------------------------------------
(* Every step preserves the invariant.                                      *)

LEMMA StartInv ==
  ASSUME Inv, NEW t \in Timer, NEW d \in Delay, Start(t, d) PROVE Inv'
<1> USE DEF Inv
<1>1. /\ d \in Int /\ -HoldBound <= d /\ d <= Half - 1 - LateBound /\ d \in -LateBound .. Half - 1 - LateBound /\ 0 <= d
  BY TimerAssumption
<1>2. /\ t \notin Pending /\ t # firing /\ t # draft /\ t \notin due /\ nextEl # t
      /\ Pending \subseteq Timer
  BY TimerAssumption, PendingMembers DEF Start, Allocated, Late, Polling, TypeOK, Pending
<1>3. /\ list' \in Seq(Timer)
      /\ Ordered(list', left')
      /\ Pending' = Pending \cup {t}
      /\ NextFirst(list, nextEl, due) => NextFirst(list', nextEl, due)
  BY <1>1, <1>2, InsertStep DEF Start, Deadline
<1>4. /\ elapsesAt' = [elapsesAt EXCEPT ![t] = Wrap(ticks + d)]
      /\ left' = [left EXCEPT ![t] = d]
      /\ nextEl' = nextEl \/ (nextEl = Dangling /\ nextEl' = t)
      /\ mode \in {"task", "handler"}
      /\ UNCHANGED <<ticks, mode, firing, draft, failed, due, cut>>
  BY DEF Start, Deadline, Reused
<1>5. Wrap(ticks + d) \in 0 .. TickMod - 1
  BY <1>1, TimerAssumption DEF TypeOK, Wrap
<1>6. TypeOK'
  BY <1>1, <1>3, <1>4, <1>5 DEF TypeOK
<1>7. List'
  BY <1>2, <1>3, <1>4 DEF List
<1>8. Clock'
  <2> SUFFICES ASSUME NEW x \in Timer, Allocated(x)'
               PROVE  left'[x] \in -LateBound .. Half - 1 - LateBound /\ elapsesAt'[x] = Wrap(ticks + left'[x])
    BY <1>4 DEF Clock
  <2>1. CASE x = t
    BY <1>1, <1>4, <2>1 DEF TypeOK
  <2>2. CASE x # t
    BY <1>3, <1>4, <2>2 DEF TypeOK, Clock, Allocated
  <2> QED
    BY <2>1, <2>2
<1>9. Late'
  <2>1. \A x \in Pending : left'[x] = left[x] /\ x # t
    BY <1>2, <1>4 DEF TypeOK
  <2>2. left'[t] = d
    BY <1>4 DEF TypeOK
  <2>3. draft # NoTimer => left'[draft] = left[draft]
    BY <1>2, <1>4 DEF TypeOK
  <2> QED
    BY <1>1, <1>3, <1>4, <2>1, <2>2, <2>3 DEF Late
<1>10. Polling'
  <2>1. firing # NoTimer => left'[firing] = left[firing]
    BY <1>2, <1>4 DEF TypeOK
  <2>2. CASE nextEl' = nextEl
    BY <1>3, <1>4, <2>1, <2>2 DEF Polling, Saved
  <2>3. CASE nextEl = Dangling /\ nextEl' = t
    <3>1. cut /\ mode = "handler" /\ t # Dangling
      BY <1>4, <2>3, TimerAssumption DEF Polling
    <3> QED
      BY <1>3, <1>4, <2>1, <2>3, <3>1 DEF Polling
  <2> QED
    BY <1>4, <2>2, <2>3
<1> QED
  BY <1>4, <1>6, <1>7, <1>8, <1>9, <1>10

LEMMA StartReadInv ==
  ASSUME Inv, NEW t \in Timer, NEW d \in Delay, StartRead(t, d) PROVE Inv'
<1> USE DEF Inv
<1>1. /\ d \in Int /\ -HoldBound <= d /\ d \in -LateBound .. Half - 1 - LateBound
  BY TimerAssumption
<1>2. /\ t \notin Pending /\ t # firing /\ t # draft /\ t \notin due /\ draft = NoTimer /\ firing = NoTimer
      /\ t # NoTimer
  BY TimerAssumption DEF StartRead, Allocated, Late, Polling
<1>4. /\ elapsesAt' = [elapsesAt EXCEPT ![t] = Wrap(ticks + d)]
      /\ left' = [left EXCEPT ![t] = d]
      /\ draft' = t
      /\ UNCHANGED <<list, ticks, mode, firing, nextEl, failed, due, cut>>
      /\ Pending' = Pending
  BY DEF StartRead, Deadline, Pending
<1>5. Wrap(ticks + d) \in 0 .. TickMod - 1
  BY <1>1, TimerAssumption DEF TypeOK, Wrap
<1>6. TypeOK'
  BY <1>1, <1>4, <1>5 DEF TypeOK
<1>3. /\ Pending \subseteq Timer /\ Pending = Members(list)
      /\ \A x \in Timer : x # t => left'[x] = left[x]
  BY <1>4, PendingMembers DEF TypeOK, Pending
<1>7. List'
  <2>1. \A i \in 1 .. Len(list) : left'[list[i]] = left[list[i]]
    BY <1>2, <1>3 DEF Members
  <2> QED
    BY <1>2, <1>4, <2>1 DEF List, Ordered
<1>8. Clock'
  <2> SUFFICES ASSUME NEW x \in Timer, Allocated(x)'
               PROVE  left'[x] \in -LateBound .. Half - 1 - LateBound /\ elapsesAt'[x] = Wrap(ticks + left'[x])
    BY <1>4 DEF Clock
  <2>1. CASE x = t
    BY <1>1, <1>4, <2>1 DEF TypeOK
  <2>2. CASE x # t
    BY <1>4, <2>2 DEF TypeOK, Clock, Allocated
  <2> QED
    BY <2>1, <2>2
<1>9. Late'
  <2>1. \A x \in Pending : left'[x] = left[x]
    BY <1>2, <1>3
  <2>2. left'[t] = d
    BY <1>4 DEF TypeOK
  <2> QED
    BY <1>1, <1>4, <2>1, <2>2 DEF Late
<1>10. Polling'
  BY <1>2, <1>4 DEF Polling, Saved
<1> QED
  BY <1>4, <1>6, <1>7, <1>8, <1>9, <1>10

LEMMA StartInsertInv ==
  ASSUME Inv, StartInsert PROVE Inv'
<1> USE DEF Inv
<1> DEFINE t == draft
           l == left[t]
<1>1. /\ t \in Timer /\ t \notin Pending /\ t # firing /\ t \notin due /\ firing = NoTimer
      /\ nextEl # t /\ nextEl = NoTimer /\ t # NoTimer
  BY TimerAssumption DEF StartInsert, TypeOK, List, Late, Polling
<1>2. l \in Int /\ -HoldBound <= l /\ l <= Half - 1 - LateBound /\ elapsesAt[t] = Wrap(ticks + l)
  BY <1>1, TimerAssumption DEF Clock, Late, Allocated
<1>3. Insert(t, Wrap(ticks + l))
  BY <1>2 DEF StartInsert
<1>4. left \in [Timer -> Int] /\ [left EXCEPT ![t] = l] = left
  BY DEF TypeOK
<1>5. /\ draft' = NoTimer
      /\ UNCHANGED <<ticks, elapsesAt, mode, firing, nextEl, failed, left, due, cut>>
  BY DEF StartInsert
<1> HIDE DEF t, l
<1>6. /\ list' \in Seq(Timer)
      /\ Ordered(list', [left EXCEPT ![t] = l])
      /\ Pending' = Pending \cup {t}
      /\ NextFirst(list, nextEl, due) => NextFirst(list', nextEl, due)
  BY <1>1, <1>2, <1>3, InsertStep
<1>7. t = draft /\ l = left[t]
  BY DEF t, l
<1>8. TypeOK'
  BY <1>5, <1>6 DEF TypeOK
<1>9. List'
  BY <1>1, <1>4, <1>5, <1>6, <1>7 DEF List
<1>10. Clock'
  BY <1>5, <1>6, <1>7, TimerAssumption DEF Clock, Allocated
<1>11. Late'
  BY <1>1, <1>2, <1>5, <1>6, <1>7 DEF Late
<1>12. Polling'
  BY <1>1, <1>5, <1>6 DEF Polling, Saved
<1> QED
  BY <1>5, <1>8, <1>9, <1>10, <1>11, <1>12

LEMMA CancelInv ==
  ASSUME Inv, NEW t \in Timer, Cancel(t) PROVE Inv'
<1> USE DEF Inv
<1>1. /\ cut' = (cut \/ nextEl = t) /\ cut' \in BOOLEAN
      /\ nextEl' = IF nextEl = t THEN Dangling ELSE nextEl
      /\ nextEl = t => mode # "task"
  BY TimerAssumption DEF Cancel, Polling, TypeOK
<1>2. PICK i \in DOMAIN list : list[i] = t /\ list' = RemoveAt(list, i)
  BY DEF Cancel
<1>3. /\ list' \in Seq(Timer) /\ Ordered(list', left)
      /\ t \in Pending /\ Pending' = Pending \ {t}
      /\ NextFirst(list, nextEl, due) => NextFirst(list', nextEl, due)
  BY <1>2, RemoveStep
<1>4. /\ elapsesAt' = [elapsesAt EXCEPT ![t] = 0]
      /\ left' = [left EXCEPT ![t] = 0]
      /\ due' = due \ {t}
      /\ UNCHANGED <<ticks, mode, firing, draft, failed>>
  BY DEF Cancel, Delete
<1>5. TypeOK'
  <2>1. 0 \in 0 .. TickMod - 1 /\ 0 \in Int
    BY TimerAssumption
  <2> QED
    BY <1>1, <1>3, <1>4, <2>1 DEF TypeOK
<1>6. \A x \in Timer : x # t => left'[x] = left[x] /\ elapsesAt'[x] = elapsesAt[x]
  BY <1>4 DEF TypeOK
<1>7. Pending' = Members(list') /\ Members(list') \subseteq Timer
  BY <1>3, PendingMembers DEF Pending
<1>8. List'
  <2>1. \A k \in 1 .. Len(list') : left'[list'[k]] = left[list'[k]]
    BY <1>3, <1>6, <1>7 DEF Members
  <2> QED
    BY <1>3, <1>4, <2>1 DEF List, Ordered
<1>9. t # draft /\ t # firing
  BY <1>3 DEF List
<1>10. Clock'
  BY <1>1, <1>3, <1>4, <1>6, <1>9 DEF Clock, Allocated
<1>11. Late'
  <2>1. draft # NoTimer => left'[draft] = left[draft]
    BY <1>6, <1>9 DEF TypeOK
  <2>2. \A x \in Pending' : x \in Pending /\ x # t /\ left'[x] = left[x]
    BY <1>3, <1>6, <1>7
  <2> QED
    BY <1>1, <1>3, <1>4, <2>1, <2>2 DEF Late
<1>12. Polling'
  <2>1. firing # NoTimer => left'[firing] = left[firing]
    BY <1>6, <1>9 DEF TypeOK
  <2>2. nextEl # t => (NextFirst(list, nextEl, due) => NextFirst(list', nextEl', due'))
    BY <1>1, <1>3, <1>4 DEF NextFirst
  <2>3. CASE nextEl = t
    BY <1>1, <1>4, <2>1, <2>3, TimerAssumption DEF Polling
  <2>4. CASE nextEl # t
    BY <1>1, <1>3, <1>4, <2>1, <2>2, <2>4 DEF Polling, Saved
  <2> QED
    BY <2>3, <2>4
<1> QED
  BY <1>1, <1>4, <1>5, <1>8, <1>10, <1>11, <1>12

LEMMA TickInv ==
  ASSUME Inv, Tick PROVE Inv'
<1> USE DEF Inv
<1>1. /\ firing = NoTimer /\ list \in Seq(Timer) /\ cut' = FALSE
      /\ UNCHANGED <<list, elapsesAt, firing, draft, failed>>
      /\ mode' = "poll" /\ nextEl' = ElementAt(1)
      /\ due' = {t \in Pending : left'[t] <= 0}
      /\ ticks' = Wrap(ticks + 1) /\ Pending' = Pending
      /\ left' = [t \in Timer |-> IF Allocated(t) /\ left[t] > -Half THEN left[t] - 1 ELSE left[t]]
  BY DEF Tick, Polling, TypeOK, Pending
<1>2. ticks \in 0 .. TickMod - 1 /\ ticks' \in 0 .. TickMod - 1
  BY <1>1, TimerAssumption DEF TypeOK, Wrap
<1>3. /\ Pending = Members(list) /\ Members(list) \subseteq Timer /\ Len(list) \in Nat
      /\ \A i \in 1 .. Len(list) : list[i] \in Pending
  BY <1>1, PendingMembers DEF Pending, Members
<1>4. ASSUME NEW t \in Timer, Allocated(t), t # draft
      PROVE  left[t] \in -LateBound + 1 .. Half - 1 - LateBound
  BY <1>1, <1>4, TimerAssumption DEF Tick, Clock, Allocated
<1>5. ASSUME draft # NoTimer PROVE draft \in Timer /\ left[draft] \in -HoldBound + 1 .. Half - 1 - LateBound
  <2>1. draft \in Timer /\ left[draft] > -HoldBound
    BY <1>5 DEF Tick, TypeOK
  <2>2. left[draft] \in -LateBound .. Half - 1 - LateBound
    BY <2>1 DEF Clock, Allocated
  <2> QED
    BY <2>1, <2>2, TimerAssumption
<1>6. ASSUME NEW t \in Timer, Allocated(t)
      PROVE  left'[t] = left[t] - 1 /\ left[t] \in -LateBound + 1 .. Half - 1 - LateBound
  <2>1. left[t] \in -LateBound + 1 .. Half - 1 - LateBound
    BY <1>4, <1>5, <1>6, TimerAssumption
  <2> QED
    BY <1>1, <1>6, <2>1, TimerAssumption
<1>7. TypeOK'
  <2>1. left' \in [Timer -> Int]
    BY <1>1 DEF TypeOK
  <2>2. nextEl' \in Timer \cup {NoTimer, Dangling}
    BY <1>1, <1>3 DEF ElementAt
  <2>3. due' \subseteq Timer
    BY <1>1, <1>3
  <2> QED
    BY <1>1, <1>2, <2>1, <2>2, <2>3 DEF TypeOK
<1>8. List'
  <2>1. \A i \in 1 .. Len(list) : left'[list[i]] = left[list[i]] - 1 /\ left[list[i]] \in Int
    <3> TAKE i \in 1 .. Len(list)
    <3>1. list[i] \in Timer /\ Allocated(list[i])
      BY <1>3 DEF Allocated
    <3> QED
      BY <1>6, <3>1
  <2> QED
    BY <1>1, <2>1 DEF List, Ordered
<1>9. Clock'
  <2> SUFFICES ASSUME NEW x \in Timer, Allocated(x)
               PROVE  left'[x] \in -LateBound .. Half - 1 - LateBound /\ elapsesAt[x] = Wrap(ticks' + left'[x])
    BY <1>1 DEF Clock, Allocated
  <2> DEFINE a == left[x]
  <2>1. elapsesAt[x] = Wrap(ticks + a)
    BY DEF Clock
  <2>2. left'[x] = a - 1 /\ a \in -LateBound + 1 .. Half - 1 - LateBound
    BY <1>6
  <2> HIDE DEF a
  <2>3. Wrap(ticks + a) = Wrap(Wrap(ticks + 1) + (a - 1))
    BY <1>2, <2>2, TimerAssumption DEF Wrap
  <2> QED
    BY <1>1, <2>1, <2>2, <2>3, TimerAssumption
<1>10. Late'
  <2>1. ASSUME NEW t \in Pending PROVE left'[t] >= -HoldBound \/ t \in due'
    <3>1. left'[t] = left[t] - 1 /\ left[t] \in Int
      BY <1>3, <1>6 DEF Allocated
    <3> QED
      BY <1>1, <3>1, TimerAssumption
  <2>2. draft # NoTimer => left'[draft] >= -HoldBound
    <3> SUFFICES ASSUME draft # NoTimer PROVE left'[draft] >= -HoldBound
      OBVIOUS
    <3>1. draft \in Timer /\ Allocated(draft) /\ left[draft] \in -HoldBound + 1 .. Half - 1 - LateBound
      BY <1>5 DEF Allocated
    <3> QED
      BY <1>6, <3>1, TimerAssumption
  <2> QED
    BY <1>1, <2>1, <2>2 DEF Late
<1>11. Polling'
  <2>1. CASE Len(list) = 0
    BY <1>1, <1>3, <2>1, TimerAssumption DEF Polling, Saved, NextFirst, ElementAt, Members
  <2>2. CASE Len(list) # 0
    <3>1. 1 \in 1 .. Len(list) /\ nextEl' = list[1] /\ list[1] \in Pending /\ list[1] \in Timer
      BY <1>1, <1>3, <2>2 DEF ElementAt
    <3>2. \A i \in 1 .. Len(list) : list[i] = list[1] => i = 1
      BY <3>1 DEF List, Ordered
    <3>3. NextFirst(list, nextEl', due')
      BY <3>1, <3>2 DEF NextFirst
    <3> QED
      BY <1>1, <3>1, <3>3, TimerAssumption DEF Polling, Saved
  <2> QED
    BY <2>1, <2>2
<1> QED
  BY <1>1, <1>7, <1>8, <1>9, <1>10, <1>11

LEMMA FireInv ==
  ASSUME Inv, Fire PROVE Inv'
<1> USE DEF Inv
<1> DEFINE t == nextEl
<1>1. /\ t \in Timer /\ Elapsed(t) /\ firing = NoTimer /\ t # NoTimer /\ t \in Pending /\ t # draft
      /\ list \in Seq(Timer) /\ Len(list) \in Nat
  BY TimerAssumption, PendingMembers DEF Fire, Polling, List, TypeOK
<1>2. PICK i \in DOMAIN list : list[i] = t /\ list' = RemoveAt(list, i) /\ nextEl' = Successor(i)
  BY DEF Fire
<1>3. DOMAIN list = 1 .. Len(list)
  BY <1>1, LenProperties
<1>4. /\ firing' = t /\ due' = due \ {t} /\ mode' = "handler"
      /\ UNCHANGED <<ticks, elapsesAt, draft, failed, left, cut>>
  BY DEF Fire
<1>5. left[t] <= 0
  BY <1>1, ElapsedLeft DEF Allocated
<1>6. /\ cut \/ NextFirst(list, t, due)
      /\ due \subseteq Pending
  BY DEF Polling, Saved, Late
<1> HIDE DEF t
<1>7. /\ list' \in Seq(Timer)
      /\ Ordered(list', left)
      /\ Pending' = Pending \ {t}
      /\ i < Len(list) => cut \/ NextFirst(list', list[i + 1], due)
      /\ i < Len(list) => list[i + 1] \in Pending /\ list[i + 1] # t
      /\ i >= Len(list) => cut \/ due \subseteq {t}
  BY <1>2, <1>6, RemoveStep
<1>8. Pending \subseteq Timer
  BY <1>1, PendingMembers DEF Pending
<1>9. TypeOK'
  <2>1. nextEl' \in Timer \cup {NoTimer}
    BY <1>2, <1>3, <1>7, <1>8 DEF Successor, ElementAt
  <2> QED
    BY <1>1, <1>4, <1>7, <2>1 DEF TypeOK
<1>10. List'
  BY <1>1, <1>4, <1>7 DEF List
<1>11. Clock'
  BY <1>1, <1>4, <1>7 DEF Clock, Allocated
<1>12. Late'
  BY <1>4, <1>7 DEF Late
<1>13. Polling'
  <2>1. CASE i < Len(list)
    <3>1. nextEl' = list[i + 1] /\ nextEl' \in Pending' /\ nextEl' \in Timer
      BY <1>2, <1>3, <1>7, <1>8, <2>1 DEF Successor, ElementAt
    <3>2. cut \/ NextFirst(list', nextEl', due')
      BY <1>4, <1>7, <2>1, <3>1 DEF NextFirst
    <3>3. nextEl' # NoTimer /\ nextEl' # Dangling
      BY <3>1, TimerAssumption
    <3> QED
      BY <1>1, <1>4, <1>5, <3>1, <3>2, <3>3 DEF Polling, Saved
  <2>2. CASE i >= Len(list)
    <3>1. nextEl' = NoTimer /\ (cut \/ due' = {})
      BY <1>2, <1>3, <1>4, <1>7, <2>2 DEF Successor, ElementAt
    <3>2. cut \/ NextFirst(list', nextEl', due')
      BY <3>1 DEF NextFirst
    <3> QED
      BY <1>1, <1>4, <1>5, <3>1, <3>2, TimerAssumption DEF Polling, Saved
  <2> QED
    BY <1>1, <1>3, <2>1, <2>2
<1> QED
  BY <1>4, <1>9, <1>10, <1>11, <1>12, <1>13

LEMMA ReturnInv ==
  ASSUME Inv, HandlerReturn PROVE Inv'
<1> USE DEF Inv
<1>1. /\ firing \in Timer /\ firing \notin Pending /\ firing # draft /\ firing # NoTimer
      /\ Pending \subseteq Timer /\ Pending = Members(list)
  BY TimerAssumption, PendingMembers DEF HandlerReturn, Polling, List, TypeOK, Pending
<1>2. /\ elapsesAt' = [elapsesAt EXCEPT ![firing] = 0]
      /\ left' = [left EXCEPT ![firing] = 0]
      /\ mode' = "poll" /\ firing' = NoTimer /\ Pending' = Pending
      /\ UNCHANGED <<list, ticks, nextEl, draft, failed, due, cut>>
  BY DEF HandlerReturn, Delete, Pending
<1>3. \A x \in Timer : x # firing => left'[x] = left[x] /\ elapsesAt'[x] = elapsesAt[x]
  BY <1>2 DEF TypeOK
<1>4. TypeOK'
  <2>1. 0 \in 0 .. TickMod - 1 /\ 0 \in Int
    BY TimerAssumption
  <2> QED
    BY <1>2, <2>1 DEF TypeOK
<1>5. List'
  <2>1. \A k \in 1 .. Len(list) : left'[list[k]] = left[list[k]]
    BY <1>1, <1>3 DEF Members
  <2>2. \A x \in Pending : x # NoTimer
    BY <1>1, TimerAssumption
  <2> QED
    BY <1>2, <2>1, <2>2 DEF List, Ordered
<1>6. Clock'
  BY <1>1, <1>2, <1>3, TimerAssumption DEF Clock, Allocated
<1>7. Late'
  <2>1. draft # NoTimer => left'[draft] = left[draft]
    BY <1>1, <1>3 DEF TypeOK
  <2>2. \A x \in Pending : left'[x] = left[x]
    BY <1>1, <1>3
  <2> QED
    BY <1>1, <1>2, <2>1, <2>2 DEF Late
<1>8. Polling'
  BY <1>2 DEF Polling, Saved
<1> QED
  BY <1>2, <1>4, <1>5, <1>6, <1>7, <1>8

LEMMA PollEndInv ==
  ASSUME Inv, PollEnd PROVE Inv'
<1> USE DEF Inv
<1>1. /\ mode' = "task" /\ nextEl' = NoTimer /\ firing = NoTimer /\ Pending' = Pending
      /\ UNCHANGED <<list, ticks, elapsesAt, firing, draft, failed, left, due, cut>>
  BY DEF PollEnd, Polling, Pending
<1>2. /\ Pending = Members(list) /\ \A i \in 1 .. Len(list) : list[i] \in Timer
      /\ left \in [Timer -> Int] /\ Len(list) \in Nat
  BY PendingMembers DEF TypeOK, Pending, Members
<1>3. ASSUME ~cut PROVE due = {}
  <2>1. CASE nextEl = NoTimer
    BY <1>3, <2>1 DEF Polling, Saved
  <2>2. CASE nextEl # NoTimer
    <3>1. nextEl \in Timer /\ ~Elapsed(nextEl) /\ nextEl \in Pending
      BY <2>2, TimerAssumption DEF PollEnd, Polling
    <3>2. ~(left[nextEl] <= 0)
      BY <3>1, ElapsedLeft DEF Allocated
    <3>3. PICK k \in 1 .. Len(list) : nextEl = list[k]
      BY <1>2, <3>1 DEF Members
    <3>4. ASSUME NEW x \in due PROVE FALSE
      <4>1. PICK j \in 1 .. Len(list) : x = list[j]
        BY <1>2, <3>4 DEF Members, Late
      <4>2. k <= j
        BY <1>3, <3>3, <4>1, <3>4 DEF Polling, Saved, NextFirst
      <4>3. left[list[k]] <= left[list[j]]
        <5>1. CASE k = j
          BY <1>2, <5>1
        <5>2. CASE k < j
          BY <5>2 DEF List, Ordered
        <5> QED
          BY <4>2, <5>1, <5>2
      <4>4. left[x] <= 0
        BY <3>4 DEF Late
      <4>5. left[list[k]] \in Int /\ left[list[j]] \in Int
        BY <1>2
      <4> QED
        BY <3>2, <3>3, <4>1, <4>3, <4>4, <4>5
    <3> QED
      BY <3>4
  <2> QED
    BY <2>1, <2>2
<1>4. TypeOK'
  BY <1>1 DEF TypeOK
<1>5. List' /\ Clock' /\ Late'
  BY <1>1 DEF List, Clock, Late, Allocated
<1>6. Polling'
  BY <1>1, <1>3, TimerAssumption DEF Polling, Saved, NextFirst
<1> QED
  BY <1>1, <1>4, <1>5, <1>6

LEMMA InitInv == Init => Inv
<1> SUFFICES ASSUME Init PROVE Inv
  OBVIOUS
<1>1. list = <<>> /\ list \in Seq(Timer) /\ Len(list) = 0
  BY DEF Init
<1>2. Pending = {}
  <2>1. Pending = Members(list)
    BY <1>1, PendingMembers DEF Pending
  <2>2. 1 .. Len(list) = {}
    BY <1>1
  <2> QED
    BY <2>1, <2>2 DEF Members
<1>3. TypeOK
  <2>1. 0 \in 0 .. TickMod - 1 /\ 0 \in Int
    BY TimerAssumption
  <2>2. elapsesAt \in [Timer -> 0 .. TickMod - 1] /\ left \in [Timer -> Int]
    BY <2>1 DEF Init
  <2>3. list \in Seq(Timer) /\ ticks \in 0 .. TickMod - 1 /\ due \subseteq Timer /\ failed \in BOOLEAN /\ cut \in BOOLEAN
    BY <1>1 DEF Init
  <2>4. /\ mode \in {"task", "poll", "handler"}
        /\ firing \in Timer \cup {NoTimer}
        /\ nextEl \in Timer \cup {NoTimer, Dangling}
        /\ draft \in Timer \cup {NoTimer}
    BY DEF Init
  <2> QED
    BY <2>2, <2>3, <2>4 DEF TypeOK
<1>4. List /\ Late /\ Polling
  BY <1>1, <1>2, TimerAssumption DEF Init, List, Late, Polling, Saved, Ordered, NextFirst
<1>5. Clock
  BY <1>2, TimerAssumption DEF Init, Clock, Allocated
<1> QED
  BY <1>3, <1>4, <1>5 DEF Inv

LEMMA Invariance == Spec => []Inv
<1>1. Inv /\ [Next]_vars => Inv'
  <2> SUFFICES ASSUME Inv, [Next]_vars PROVE Inv'
    OBVIOUS
  <2>2. ASSUME NEW t \in Timer, NEW d \in Delay, Start(t, d) PROVE Inv'
    BY <2>2, StartInv
  <2>3. ASSUME NEW t \in Timer, NEW d \in Delay, StartRead(t, d) PROVE Inv'
    BY <2>3, StartReadInv
  <2>4. ASSUME NEW t \in Timer, Cancel(t) PROVE Inv'
    BY <2>4, CancelInv
  <2>5. CASE PollDangling
    <3>1. failed' \in BOOLEAN /\ UNCHANGED <<list, ticks, elapsesAt, mode, firing, nextEl, draft, left, due, cut>>
      BY <2>5 DEF PollDangling
    <3> QED
      BY <3>1 DEF Inv, TypeOK, List, Clock, Late, Polling, Saved, Pending, Allocated
  <2>6. CASE Halted \/ UNCHANGED vars
    <3>1. UNCHANGED vars
      BY <2>6 DEF Halted
    <3> QED
      BY <3>1 DEF vars, Inv, TypeOK, List, Clock, Late, Polling, Saved, Pending, Allocated
  <2> QED
    BY <2>2, <2>3, <2>4, <2>5, <2>6, StartInsertInv, TickInv, FireInv, ReturnInv, PollEndInv DEF Next, Poll
<1> QED
  BY InitInv, <1>1, PTL DEF Spec

-----------------------------------------------------------------------------
(* The theorems.                                                            *)

\* Whatever handlers start and cancel, the list holds every pending timer
\* once, in the order in which they are due.
THEOREM ListSorted == Spec => []Sorted
<1>1. Inv => Sorted
  BY LenProperties DEF Inv, TypeOK, List, Ordered, Sorted
<1> QED
  BY <1>1, Invariance, PTL

\* No handler is called before its delay is over, and when the timer interrupt
\* returns all the timers that were due have fired, across the wrap-around of
\* m_nTicks.  A handler that cancels the saved timer may spoil its own tick
\* and no later one: timers the poll was led past fire after the next tick.
THEOREM FiresInTime == Spec => []OnTime
<1>1. Inv => OnTime
  <2> SUFFICES ASSUME Inv PROVE OnTime
    OBVIOUS
  <2>1. mode = "handler" => left[firing] <= 0
    BY DEF Inv, Polling
  <2>2. mode = "task" /\ ~cut => due = {}
    BY DEF Inv, Polling, Saved
  <2> QED
    BY <2>1, <2>2 DEF OnTime
<1> QED
  BY <1>1, Invariance, PTL

\* LateBound holds back no tick unless handlers cancel the saved timer.
LEMMA TickNotHeldBack == Inv /\ mode = "task" /\ ~cut => \A t \in Pending : left[t] > -LateBound
<1> SUFFICES ASSUME Inv, mode = "task", ~cut, NEW t \in Pending PROVE left[t] > -LateBound
  OBVIOUS
<1>1. due = {} /\ t \in Timer /\ left[t] \in Int
  BY PendingMembers DEF Inv, TypeOK, Polling, Saved, Pending
<1> QED
  BY <1>1, TimerAssumption DEF Inv, Late
=============================================================================
