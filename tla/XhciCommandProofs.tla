-------------------------- MODULE XhciCommandProofs --------------------------
(***************************************************************************)
(* Proofs about XhciCommand, for any size of the rings and any number of   *)
(* commands: the rings of the driver and the controller lose and repeat    *)
(* nothing, and a command never gets the result of another one.            *)
(*                                                                         *)
(* The argument numbers the TRBs that were ever written to a ring from 0   *)
(* on.  TRB x lies at index x % TRBCount with the cycle bit Cycle(x), and  *)
(* a reader at position a finds its bit as long as a is behind the writer. *)
(***************************************************************************)
EXTENDS XhciCommand, TLAPS

-----------------------------------------------------------------------------
(* Remainders and quotients.                                                *)

LEMMA DivMod ==
  ASSUME NEW x \in Int, NEW d \in Nat \ {0}
  PROVE  x \div d \in Int /\ x % d \in 0 .. d - 1 /\ x = d * (x \div d) + (x % d)
<1>1. x \div d \in Int
  OBVIOUS
<1>2. x % d \in 0 .. d - 1
  OBVIOUS
<1>3. x = d * (x \div d) + (x % d)
  OBVIOUS
<1> QED
  BY <1>1, <1>2, <1>3

LEMMA DivModUnique ==
  ASSUME NEW d \in Nat \ {0}, NEW q \in Int, NEW r \in 0 .. d - 1
  PROVE  (d * q + r) \div d = q /\ (d * q + r) % d = r
<1> DEFINE x == d * q + r
<1>1. x \in Int
  OBVIOUS
<1>2. x \div d \in Int /\ x % d \in 0 .. d - 1 /\ x = d * (x \div d) + (x % d)
  BY <1>1, DivMod
<1>3. d * (q - (x \div d)) = (x % d) - r
  BY <1>2
<1>4. q - (x \div d) = 0
  <2>1. CASE q - (x \div d) >= 1
    <3>1. d * (q - (x \div d)) >= d
      BY <1>2, <2>1
    <3> QED
      BY <1>2, <1>3, <3>1
  <2>2. CASE q - (x \div d) <= -1
    <3>1. d * (q - (x \div d)) <= -d
      BY <1>2, <2>2
    <3> QED
      BY <1>2, <1>3, <3>1
  <2> QED
    BY <1>2, <2>1, <2>2
<1> QED
  BY <1>2, <1>3, <1>4

\* The next number has the next remainder, or begins the next lap.
LEMMA NextMod ==
  ASSUME NEW x \in Int, NEW d \in Nat \ {0}
  PROVE  \/ x % d = d - 1 /\ (x + 1) % d = 0 /\ (x + 1) \div d = (x \div d) + 1
         \/ x % d < d - 1 /\ (x + 1) % d = (x % d) + 1 /\ (x + 1) \div d = x \div d
<1>1. PICK q \in Int, r \in 0 .. d - 1 : q = x \div d /\ r = x % d /\ x = d * q + r
  BY DivMod
<1>2. CASE r = d - 1
  <2>1. x + 1 = d * (q + 1) + 0 /\ q + 1 \in Int /\ 0 \in 0 .. d - 1
    BY <1>1, <1>2
  <2>2. (d * (q + 1) + 0) \div d = q + 1 /\ (d * (q + 1) + 0) % d = 0
    BY <2>1, DivModUnique
  <2> QED
    BY <1>1, <1>2, <2>1, <2>2
<1>3. CASE r # d - 1
  <2>1. x + 1 = d * q + (r + 1) /\ r + 1 \in 0 .. d - 1
    BY <1>1, <1>3
  <2>2. (d * q + (r + 1)) \div d = q /\ (d * q + (r + 1)) % d = r + 1
    BY <1>1, <2>1, DivModUnique
  <2> QED
    BY <1>1, <1>3, <2>1, <2>2
<1> QED
  BY <1>2, <1>3

\* A lap earlier the remainder is the same.
LEMMA LapMod ==
  ASSUME NEW x \in Int, NEW d \in Nat \ {0}
  PROVE  (x - d) % d = x % d /\ (x - d) \div d = (x \div d) - 1
<1>1. PICK q \in Int, r \in 0 .. d - 1 : q = x \div d /\ r = x % d /\ x = d * q + r
  BY DivMod
<1>2. x - d = d * (q - 1) + r /\ q - 1 \in Int
  BY <1>1
<1>3. (d * (q - 1) + r) \div d = q - 1 /\ (d * (q - 1) + r) % d = r
  BY <1>2, DivModUnique
<1> QED
  BY <1>1, <1>2, <1>3

\* Numbers less than a lap apart differ in the remainder.
LEMMA ModDiffers ==
  ASSUME NEW d \in Nat \ {0}, NEW x \in Int, NEW y \in Int, x < y, y - x < d
  PROVE  x % d # y % d
<1>1. PICK q \in Int, r \in 0 .. d - 1 : r = x % d /\ x = d * q + r
  BY DivMod
<1>2. PICK p \in Int, t \in 0 .. d - 1 : t = y % d /\ y = d * p + t
  BY DivMod
<1>3. SUFFICES ASSUME r = t PROVE FALSE
  BY <1>1, <1>2
<1>4. d * (p - q) = y - x /\ p - q \in Int
  BY <1>1, <1>2, <1>3
<1>5. CASE p - q >= 1
  <2>1. d * (p - q) >= d
    BY <1>4, <1>5
  <2> QED
    BY <1>4, <2>1
<1>6. CASE p - q <= 0
  <2>1. d * (p - q) <= 0
    BY <1>4, <1>6
  <2> QED
    BY <1>4, <2>1
<1> QED
  BY <1>4, <1>5, <1>6

-----------------------------------------------------------------------------
(* A ring of TRBCount TRBs, written at the positions before w.              *)

LEMMA Count == TRBCount \in Nat \ {0} /\ TRBCount > 2 /\ LinkIndex = TRBCount - 1 /\ LinkIndex \in Nat \ {0}
BY RingAssumption DEF LinkIndex

\* The cycle bit of the TRB at position x.
Cycle(x) == IF (x \div TRBCount) % 2 = 0 THEN 1 ELSE 0

Cell == [body : Int, c : {0, 1}]
EventCell == [body : [slot : Int, serial : Int], c : {0, 1}]
Trbs(C) == [0 .. TRBCount - 1 -> C]

Written(trb, w) == \A x \in w - TRBCount .. w - 1 : trb[x % TRBCount].c = Cycle(x)

LEMMA Index ==
  ASSUME NEW x \in Int
  PROVE  x % TRBCount \in 0 .. TRBCount - 1 /\ Cycle(x) \in {0, 1} /\ x \div TRBCount \in Int
BY Count, DivMod DEF Cycle

LEMMA FlipMod ==
  ASSUME NEW q \in Int PROVE  (q + 1) % 2 = 0 <=> q % 2 # 0
OBVIOUS

LEMMA NextCycle ==
  ASSUME NEW x \in Int
  PROVE  \/ x % TRBCount = LinkIndex /\ (x + 1) % TRBCount = 0 /\ Cycle(x + 1) = 1 - Cycle(x)
         \/ x % TRBCount < LinkIndex /\ (x + 1) % TRBCount = (x % TRBCount) + 1 /\ Cycle(x + 1) = Cycle(x)
<1>1. PICK n \in Nat \ {0} : n = TRBCount /\ LinkIndex = n - 1
  BY Count
<1>2. CASE x % n = n - 1
  <2>1. x % n = n - 1 /\ (x + 1) % n = 0 /\ (x + 1) \div n = (x \div n) + 1
    <3>1. ~(x % n < n - 1)
      BY <1>2
    <3> QED
      BY <3>1, NextMod, Zenon
  <2>2. x \div n \in Int
    BY DivMod
  <2>3. Cycle(x + 1) = 1 - Cycle(x)
    BY <1>1, <2>1, <2>2, FlipMod DEF Cycle
  <2> QED
    BY <1>1, <2>1, <2>3
<1>3. CASE x % n # n - 1
  <2>1. x % n < n - 1 /\ (x + 1) % n = (x % n) + 1 /\ (x + 1) \div n = x \div n
    BY <1>3, NextMod
  <2>2. Cycle(x + 1) = Cycle(x)
    BY <1>1, <2>1 DEF Cycle
  <2> QED
    BY <1>1, <2>1, <2>2
<1> QED
  BY <1>2, <1>3

LEMMA LapCycle ==
  ASSUME NEW x \in Int
  PROVE  (x - TRBCount) % TRBCount = x % TRBCount /\ Cycle(x - TRBCount) = 1 - Cycle(x)
<1>1. PICK n \in Nat \ {0} : n = TRBCount
  BY Count
<1>2. (x - n) % n = x % n /\ (x - n) \div n = (x \div n) - 1 /\ x \div n \in Int
  BY LapMod, DivMod
<1>3. (((x \div n) - 1) + 1) % 2 = 0 <=> ((x \div n) - 1) % 2 # 0
  BY <1>2, FlipMod
<1>4. ((x \div n) - 1) + 1 = x \div n
  BY <1>2
<1>5. Cycle(x - n) = 1 - Cycle(x)
  BY <1>1, <1>2, <1>3, <1>4 DEF Cycle
<1> QED
  BY <1>1, <1>2, <1>5

\* Positions less than a lap apart have different indices.
LEMMA IndexDiffers ==
  ASSUME NEW x \in Int, NEW y \in Int, x # y, x - y < TRBCount, y - x < TRBCount
  PROVE  x % TRBCount # y % TRBCount
<1>1. CASE x < y
  BY <1>1, Count, ModDiffers
<1>2. CASE y < x
  BY <1>2, Count, ModDiffers
<1> QED
  BY <1>1, <1>2

\* The next TRB is written over the one a lap before.
LEMMA WriteNext ==
  ASSUME NEW w \in Int, NEW trb, NEW new, Written(trb, w),
         new[w % TRBCount].c = Cycle(w),
         \A i \in 0 .. TRBCount - 1 : i # w % TRBCount => new[i] = trb[i]
  PROVE  /\ Written(new, w + 1)
         /\ \A x \in Int : w - TRBCount < x /\ x < w => new[x % TRBCount] = trb[x % TRBCount]
<1>1. ASSUME NEW x \in Int, w - TRBCount < x, x < w PROVE new[x % TRBCount] = trb[x % TRBCount]
  <2>1. x # w /\ x - w < TRBCount /\ w - x < TRBCount
    BY <1>1, Count
  <2>2. x % TRBCount # w % TRBCount
    BY <2>1, IndexDiffers, Zenon
  <2> QED
    BY <2>2, Index
<1>2. ASSUME NEW x \in (w + 1) - TRBCount .. w PROVE new[x % TRBCount].c = Cycle(x)
  <2>1. CASE x = w
    BY <2>1
  <2>2. CASE x < w
    <3>1. x \in w - TRBCount .. w - 1 /\ x \in Int /\ w - TRBCount < x
      BY <1>2, <2>2, Count
    <3> QED
      BY <1>1, <2>2, <3>1 DEF Written
  <2> QED
    BY <1>2, <2>1, <2>2, Count
<1>3. Written(new, w + 1)
  <2>1. (w + 1) - 1 = w
    OBVIOUS
  <2> QED
    BY <1>2, <2>1 DEF Written
<1> QED
  BY <1>1, <1>3

\* A reader at a finds its cycle bit exactly if a has been written.
LEMMA Owned ==
  ASSUME NEW w \in Int, NEW a \in Int, NEW trb, Written(trb, w),
         w - TRBCount <= a, a < w + TRBCount
  PROVE  trb[a % TRBCount].c = Cycle(a) <=> a < w
<1>1. CASE a < w
  BY <1>1, Count DEF Written
<1>2. CASE a >= w
  <2>1. a - TRBCount \in w - TRBCount .. w - 1
    BY <1>2, Count
  <2>2. trb[(a - TRBCount) % TRBCount].c = Cycle(a - TRBCount)
    BY <2>1 DEF Written
  <2>3. trb[a % TRBCount].c = 1 - Cycle(a)
    BY <2>2, LapCycle
  <2>4. Cycle(a) \in {0, 1}
    BY Index
  <2> QED
    BY <1>2, <2>3, <2>4
<1> QED
  BY <1>1, <1>2

\* Finds counts the positions from a reader at a up to the writer.
LEMMA FindsThem ==
  ASSUME NEW w \in Int, NEW a \in Int, NEW trb, Written(trb, w), a <= w, w - a < TRBCount
  PROVE  Finds(trb, a % TRBCount, Cycle(a)) = [k \in 1 .. w - a |-> (a + k - 1) % TRBCount]
<1> DEFINE i == a % TRBCount
           c == Cycle(a)
           mine(k) == trb[(i + k) % TRBCount].c = IF i + k < TRBCount THEN c ELSE 1 - c
<1>1. ASSUME NEW k \in 0 .. TRBCount - 1
      PROVE  /\ (i + k) % TRBCount = (a + k) % TRBCount
             /\ (IF i + k < TRBCount THEN c ELSE 1 - c) = Cycle(a + k)
  <2>1. PICK n \in Nat \ {0} : n = TRBCount
    BY Count
  <2>2. PICK q \in Int, r \in 0 .. n - 1 : q = a \div n /\ r = a % n /\ a = n * q + r
    BY DivMod
  <2>3. CASE r + k < n
    <3>1. a + k = n * q + (r + k) /\ r + k \in 0 .. n - 1 /\ r + k = n * 0 + (r + k)
      BY <2>1, <2>2, <2>3
    <3>2. PICK s \in 0 .. n - 1 : s = r + k
      BY <3>1
    <3>3. (n * q + s) \div n = q /\ (n * q + s) % n = s /\ (n * 0 + s) % n = s
      BY DivModUnique
    <3>4. (a + k) \div n = a \div n /\ (a + k) % n = s /\ (r + k) % n = s
      BY <2>2, <3>1, <3>2, <3>3
    <3> QED
      BY <2>1, <2>2, <2>3, <3>4 DEF Cycle
  <2>4. CASE r + k >= n
    <3>1. /\ a + k = n * (q + 1) + (r + k - n) /\ r + k - n \in 0 .. n - 1
          /\ r + k = n * 1 + (r + k - n) /\ q + 1 \in Int
      BY <2>1, <2>2, <2>4
    <3>2. PICK s \in 0 .. n - 1, p \in Int : s = r + k - n /\ p = q + 1
      BY <3>1
    <3>3. (n * p + s) \div n = p /\ (n * p + s) % n = s /\ (n * 1 + s) % n = s
      BY DivModUnique
    <3>4. (a + k) \div n = p /\ (a + k) % n = s /\ (r + k) % n = s
      BY <2>2, <3>1, <3>2, <3>3
    <3>5. p % 2 = 0 <=> q % 2 # 0
      BY <3>2, FlipMod
    <3>6. Cycle(a + k) = 1 - Cycle(a)
      BY <2>1, <2>2, <3>4, <3>5 DEF Cycle
    <3> QED
      BY <2>1, <2>2, <2>4, <3>4, <3>6
  <2> QED
    BY <2>2, <2>3, <2>4
<1>2. ASSUME NEW k \in 0 .. TRBCount - 1 PROVE mine(k) <=> k < w - a
  <2>1. trb[(a + k) % TRBCount].c = Cycle(a + k) <=> a + k < w
    BY Owned, Count
  <2> QED
    BY <1>1, <2>1
<1> DEFINE ends(n) == (\A k \in 0 .. n - 1 : mine(k)) /\ (n = TRBCount \/ ~mine(n))
<1> HIDE DEF mine
<1>3. w - a \in 0 .. TRBCount /\ ends(w - a)
  <2>1. \A k \in 0 .. (w - a) - 1 : mine(k)
    BY <1>2, Count
  <2>2. ~mine(w - a)
    BY <1>2, Count
  <2> QED
    BY <2>1, <2>2, Count
<1>4. ASSUME NEW n \in 0 .. TRBCount, ends(n) PROVE n = w - a
  <2>1. CASE n < w - a
    <3>1. n \in 0 .. TRBCount - 1 /\ n # TRBCount
      BY <2>1, Count
    <3>2. mine(n)
      BY <1>2, <2>1, <3>1
    <3> QED
      BY <1>4, <3>1, <3>2
  <2>2. CASE n > w - a
    <3>1. w - a \in 0 .. n - 1
      BY <2>2
    <3>2. ~mine(w - a)
      BY <1>2, Count
    <3> QED
      BY <1>4, <3>1, <3>2
  <2> QED
    BY <2>1, <2>2, Count
<1> HIDE DEF ends
<1>5. (CHOOSE n \in 0 .. TRBCount : ends(n)) = w - a
  BY <1>3, <1>4
<1>6. Finds(trb, i, c) = [k \in 1 .. w - a |-> (i + k - 1) % TRBCount]
  BY <1>5 DEF Finds, mine, ends
<1>7. ASSUME NEW k \in 1 .. w - a PROVE (i + k - 1) % TRBCount = (a + k - 1) % TRBCount
  <2>1. k - 1 \in 0 .. TRBCount - 1
    BY Count
  <2>2. (i + (k - 1)) % TRBCount = (a + (k - 1)) % TRBCount
    BY <1>1, <2>1
  <2>3. i + k - 1 = i + (k - 1) /\ a + k - 1 = a + (k - 1)
    BY Index
  <2> QED
    BY <2>2, <2>3
<1> QED
  BY <1>6, <1>7

-----------------------------------------------------------------------------
(* The entries of an unending sequence g from number a up to number b.      *)

Slice(g, a, b) == [k \in 1 .. b - a |-> g[(a + k) - 1]]

LEMMA SliceSeq ==
  ASSUME NEW S, NEW g \in [Int -> S], NEW a \in Int, NEW b \in Int, a <= b
  PROVE  Slice(g, a, b) \in Seq(S) /\ Len(Slice(g, a, b)) = b - a
<1>1. \A k \in 1 .. b - a : g[(a + k) - 1] \in S
  OBVIOUS
<1> QED
  BY <1>1 DEF Slice

LEMMA SliceAppend ==
  ASSUME NEW S, NEW g \in [Int -> S], NEW a \in Int, NEW b \in Int, a <= b
  PROVE  Append(Slice(g, a, b), g[b]) = Slice(g, a, b + 1)
<1>1. Slice(g, a, b) \in Seq(S) /\ Len(Slice(g, a, b)) = b - a
  BY SliceSeq
<1>2. Slice(g, a, b + 1) \in Seq(S) /\ Len(Slice(g, a, b + 1)) = (b - a) + 1
  <2>1. PICK n \in Int : n = b + 1 /\ a <= n
    OBVIOUS
  <2>2. Slice(g, a, n) \in Seq(S) /\ Len(Slice(g, a, n)) = n - a
    BY <2>1, SliceSeq
  <2> QED
    BY <2>1, <2>2
<1>3. \A k \in 1 .. b - a : Slice(g, a, b)[k] = g[(a + k) - 1]
  BY DEF Slice
<1>4. \A k \in 1 .. (b - a) + 1 : Slice(g, a, b + 1)[k] = g[(a + k) - 1]
  BY DEF Slice
<1> QED
  BY <1>1, <1>2, <1>3, <1>4

LEMMA SliceTail ==
  ASSUME NEW S, NEW g \in [Int -> S], NEW a \in Int, NEW b \in Int, a < b
  PROVE  Slice(g, a, b) # <<>> /\ Tail(Slice(g, a, b)) = Slice(g, a + 1, b)
<1>1. Slice(g, a, b) \in Seq(S) /\ Len(Slice(g, a, b)) = b - a
  BY SliceSeq
<1>2. Slice(g, a + 1, b) \in Seq(S) /\ Len(Slice(g, a + 1, b)) = (b - a) - 1
  BY SliceSeq
<1>3. \A k \in 1 .. b - a : Slice(g, a, b)[k] = g[(a + k) - 1]
  BY DEF Slice
<1>4. \A k \in 1 .. (b - a) - 1 : Slice(g, a + 1, b)[k] = g[((a + 1) + k) - 1]
  BY DEF Slice
<1>5. PICK s, t : s = Slice(g, a, b) /\ t = Slice(g, a + 1, b)
  OBVIOUS
<1>6. /\ s \in Seq(S) /\ Len(s) = b - a /\ t \in Seq(S) /\ Len(t) = Len(s) - 1 /\ s # <<>>
      /\ \A k \in 1 .. Len(s) - 1 : t[k] = s[k + 1]
  <2>1. \A k \in 1 .. (b - a) - 1 : k + 1 \in 1 .. b - a /\ (a + (k + 1)) - 1 = ((a + 1) + k) - 1
    OBVIOUS
  <2>2. \A k \in 1 .. (b - a) - 1 : t[k] = s[k + 1]
    BY <1>3, <1>4, <1>5, <2>1
  <2> QED
    BY <1>1, <1>2, <1>5, <2>2
<1>7. Tail(s) = t
  BY <1>6
<1> QED
  BY <1>5, <1>6, <1>7

-----------------------------------------------------------------------------
(* The commands among the TRBs of their ring.                               *)

\* The commands before position x; a position that is no link is that of the
\* command with this number.
Num(x) == x - (x \div TRBCount)

LEMMA NumNext ==
  ASSUME NEW x \in Int
  PROVE  /\ Num(x) \in Int
         /\ x % TRBCount = LinkIndex => Num(x + 1) = Num(x)
         /\ x % TRBCount # LinkIndex => Num(x + 1) = Num(x) + 1 /\ Num(x) % LinkIndex = x % TRBCount
<1>1. PICK n \in Nat \ {0} : n = TRBCount /\ n > 2 /\ LinkIndex = n - 1
  BY Count
<1>2. PICK q \in Int, r \in 0 .. n - 1 : q = x \div n /\ r = x % n /\ x = n * q + r
  BY DivMod
<1>3. Num(x) = x - q
  BY <1>1, <1>2 DEF Num
<1>4. CASE r = n - 1
  <2>1. ~(x % n < n - 1)
    BY <1>2, <1>4
  <2>2. (x + 1) \div n = (x \div n) + 1
    BY <2>1, NextMod, Zenon
  <2>3. Num(x + 1) = Num(x)
    BY <1>1, <1>2, <1>3, <2>2 DEF Num
  <2> QED
    BY <1>1, <1>2, <1>3, <1>4, <2>3
<1>5. CASE r # n - 1
  <2>1. x % n # n - 1
    BY <1>2, <1>5
  <2>2. (x + 1) \div n = x \div n
    BY <2>1, NextMod, Zenon
  <2>3. Num(x + 1) = Num(x) + 1
    BY <1>1, <1>2, <1>3, <2>2 DEF Num
  <2>4. PICK d \in Nat \ {0} : d = n - 1
    BY <1>1
  <2>5. Num(x) = d * q + r /\ r \in 0 .. d - 1
    <3>1. n = d + 1
      BY <2>4
    <3>2. (d + 1) * q = (d * q) + q
      OBVIOUS
    <3> QED
      BY <1>2, <1>3, <1>5, <2>4, <3>1, <3>2
  <2>6. (d * q + r) % d = r
    BY <2>5, DivModUnique
  <2> QED
    BY <1>1, <1>2, <1>3, <1>5, <2>3, <2>4, <2>5, <2>6
<1> QED
  BY <1>4, <1>5

\* Between two positions there are no more commands than positions, and none
\* is counted back.
LEMMA NumGrows ==
  ASSUME NEW x \in Int, NEW y \in Int, x <= y
  PROVE  Num(x) <= Num(y) /\ (Num(y) - Num(x) < LinkIndex => y - x < TRBCount)
<1>1. PICK n \in Nat \ {0} : n = TRBCount /\ n > 2 /\ LinkIndex = n - 1
  BY Count
<1>2. PICK q \in Int, r \in 0 .. n - 1 : q = x \div n /\ r = x % n /\ x = n * q + r
  BY DivMod
<1>3. PICK p \in Int, s \in 0 .. n - 1 : p = y \div n /\ s = y % n /\ y = n * p + s
  BY DivMod
<1>4. Num(x) = x - q /\ Num(y) = y - p
  BY <1>1, <1>2, <1>3 DEF Num
<1>5. PICK d \in Int : d = p - q
  OBVIOUS
<1>6. Num(y) - Num(x) = (y - x) - d /\ y - x = n * d + (s - r)
  <2>1. n * d = (n * p) - (n * q)
    BY <1>5
  <2> QED
    BY <1>2, <1>3, <1>4, <1>5, <2>1
<1>7. d >= 0
  <2>1. CASE d <= -1
    <3>1. n * d <= -n
      BY <2>1
    <3> QED
      BY <1>6, <3>1
  <2> QED
    BY <2>1
<1>8. d = 0 \/ d = 1 \/ d >= 2
  BY <1>7
<1>9. CASE d = 0
  BY <1>1, <1>4, <1>6, <1>9
<1>10. CASE d = 1
  BY <1>1, <1>4, <1>6, <1>10
<1>11. CASE d >= 2
  <2>1. n * d = (n - 1) * d + d /\ (n - 1) * d >= (n - 1) * 2
    BY <1>1, <1>11
  <2>2. Num(y) - Num(x) >= ((n - 1) * 2) + (s - r)
    BY <1>6, <2>1
  <2>3. s - r >= 1 - n /\ Num(x) \in Int /\ Num(y) \in Int
    BY <1>4
  <2>4. Num(y) - Num(x) >= n - 1
    BY <2>2, <2>3
  <2> QED
    BY <1>1, <1>4, <2>4
<1> QED
  BY <1>8, <1>9, <1>10, <1>11

-----------------------------------------------------------------------------
(* The inductive invariant.  The positions w, a, h and p are those of the    *)
(* next TRB that the driver writes and the controller reads on the command   *)
(* ring, and that the driver reads and the controller writes on the event    *)
(* ring.                                                                     *)

\* The serial number of command k, and the event that answers it.
Serial == [k \in Int |-> (k + 1) % Serials]
Answer == [k \in Int |-> [slot |-> k % LinkIndex, serial |-> (k + 1) % Serials]]

Writing == {"current", "pending", "enqueue"}
Waiting == {"enqueue", "doorbell", "wait", "expired"}
Places == {"idle", "current", "pending", "enqueue", "doorbell", "wait", "expired", "forget"}

Types ==
  /\ m_CmdRing \in [trb : Trbs(Cell), index : Int, cycle : {0, 1}]
  /\ m_EventRing \in [trb : Trbs(EventCell), index : Int, cycle : {0, 1}]
  /\ m_pCurrentCommandTRB \in Int /\ m_bCommandCompleted \in BOOLEAN
  /\ m_uchCompletionCode \in Int
  /\ task \in [at : Places, serial : Int, result : Int]
  /\ hc \in [running : BOOLEAN, at : Int, cycle : {0, 1}, slot : Int, doing : Int,
             evAt : Int, evCycle : {0, 1}, erdp : Int]

\* No more commands are unanswered than a ring has room for.
Bounds(w, a, h, p) ==
  /\ a <= w /\ h <= p /\ p <= Num(a)
  /\ Num(w) - h <= MaxSilent + 1

\* Until IncrementEnqueue the driver's index is still at the last command.
Enq(w) == IF task.at \in Writing THEN w - 1 ELSE w

CommandRing(w, a) ==
  /\ Written(m_CmdRing.trb, w)
  /\ \A x \in a .. w - 1 : x % TRBCount # LinkIndex => m_CmdRing.trb[x % TRBCount].body = Serial[Num(x)]
  /\ m_CmdRing.index = Enq(w) % TRBCount /\ m_CmdRing.cycle = Cycle(Enq(w))
  /\ Enq(w) % TRBCount # LinkIndex
  /\ queued = Slice(Serial, Num(a), Num(w))
  /\ task.serial = Num(w) % Serials

Controller(a, p) ==
  /\ hc.at = a % TRBCount /\ hc.cycle = Cycle(a)
  /\ IF hc.doing = NoCommand THEN p = Num(a)
     ELSE p = Num(a) - 1 /\ hc.doing = Serial[p] /\ hc.slot = p % LinkIndex

EventRing(h, p) ==
  /\ Written(m_EventRing.trb, p)
  /\ \A x \in h .. p - 1 : m_EventRing.trb[x % TRBCount].body = Answer[x]
  /\ m_EventRing.index = h % TRBCount /\ m_EventRing.cycle = Cycle(h)
  /\ hc.evAt = p % TRBCount /\ hc.evCycle = Cycle(p) /\ hc.erdp = h % TRBCount
  /\ posted = Slice(Answer, h, p)

\* A completion is accepted only in Waiting, and is that of the last command.
Waits(w) ==
  /\ ~failed
  /\ task.at = "idle" => task.result \in {NoCommand, Timeout, task.serial}
  /\ task.at \notin Waiting => m_bCommandCompleted
  /\ task.at = "pending" => m_pCurrentCommandTRB = (Num(w) - 1) % LinkIndex
  /\ task.at \in Waiting => IF m_bCommandCompleted THEN m_uchCompletionCode = task.serial
                            ELSE m_pCurrentCommandTRB = (Num(w) - 1) % LinkIndex

Good(w, a, h, p) ==
  /\ Types
  /\ Bounds(w, a, h, p)
  /\ CommandRing(w, a) /\ Controller(a, p) /\ EventRing(h, p)
  /\ Waits(w)

Inv == \E w, a, h, p \in Nat : Good(w, a, h, p)

-----------------------------------------------------------------------------
(* Facts that the steps share.                                              *)

LEMMA Constants ==
  /\ MaxSilent \in Nat /\ Serials \in Nat \ {0} /\ LinkIndex \in Nat \ {0}
  /\ MaxSilent + 2 <= LinkIndex /\ TRBCount \in Nat /\ LinkIndex = TRBCount - 1 /\ TRBCount > 2
  /\ NoCommand \in Int /\ NoTRB \in Int /\ Timeout \in Int /\ NoCommand < 0
BY CommandAssumption, RingAssumption DEF LinkIndex, NoCommand, NoTRB, Timeout

LEMMA Numbers ==
  /\ Serial \in [Int -> Int] /\ Answer \in [Int -> [slot : Int, serial : Int]]
  /\ \A k \in Int : /\ Serial[k] = (k + 1) % Serials /\ Serial[k] >= 0
                    /\ Answer[k] = [slot |-> k % LinkIndex, serial |-> Serial[k]]
<1>1. \A k \in Int : (k + 1) % Serials \in Nat /\ k % LinkIndex \in Nat
  BY Constants, DivMod
<1>2. \A k \in Int : Serial[k] = (k + 1) % Serials
  BY DEF Serial
<1>3. \A k \in Int : Answer[k] = [slot |-> k % LinkIndex, serial |-> (k + 1) % Serials]
  BY DEF Answer
<1>4. Serial \in [Int -> Int]
  <2>1. \A k \in Int : (k + 1) % Serials \in Int
    BY Constants, DivMod
  <2> QED
    BY <2>1, Zenon DEF Serial
<1>5. Answer \in [Int -> [slot : Int, serial : Int]]
  <2>1. \A k \in Int : [slot |-> k % LinkIndex, serial |-> (k + 1) % Serials] \in [slot : Int, serial : Int]
    BY Constants, DivMod
  <2> QED
    BY <2>1, Zenon DEF Answer
<1>6. \A k \in Int : Serial[k] >= 0
  BY <1>2, Constants, DivMod
<1>7. \A k \in Int : Answer[k] = [slot |-> k % LinkIndex, serial |-> Serial[k]]
  BY <1>2, <1>3, Zenon
<1> QED
  BY <1>2, <1>4, <1>5, <1>6, <1>7, Zenon

LEMMA Lengths ==
  ASSUME NEW a \in Int, NEW b \in Int, a <= b
  PROVE  Len(Slice(Serial, a, b)) = b - a /\ Len(Slice(Answer, a, b)) = b - a
<1>1. Serial \in [Int -> Int]
  BY Numbers
<1>2. Len(Slice(Serial, a, b)) = b - a
  BY <1>1, SliceSeq, Zenon
<1>3. Answer \in [Int -> [slot : Int, serial : Int]]
  BY Numbers
<1>4. Len(Slice(Answer, a, b)) = b - a
  BY <1>3, SliceSeq, Zenon
<1> QED
  BY <1>2, <1>4

\* The readers are less than a lap behind the writers.
LEMMA Distances ==
  ASSUME NEW w \in Nat, NEW a \in Nat, NEW h \in Nat, NEW p \in Nat, Bounds(w, a, h, p)
  PROVE  /\ Num(w) \in Int /\ Num(a) \in Int /\ Num(a) <= Num(w)
         /\ w - a < TRBCount /\ p - h <= MaxSilent + 1 /\ p - h < TRBCount - 1
<1>1. Num(w) \in Int /\ Num(a) \in Int
  BY NumNext
<1>2. a <= w /\ p <= Num(a) /\ Num(w) - h <= MaxSilent + 1 /\ h <= p
  BY DEF Bounds
<1>3. Num(a) <= Num(w) /\ (Num(w) - Num(a) < LinkIndex => w - a < TRBCount)
  BY <1>2, NumGrows
<1> QED
  BY <1>1, <1>2, <1>3, Constants

\* Counting goes on modulo Serials.
LEMMA SerialNext ==
  ASSUME NEW n \in Int PROVE ((n % Serials) + 1) % Serials = (n + 1) % Serials
<1>1. PICK d \in Nat \ {0} : d = Serials
  BY Constants
<1>2. PICK q \in Int, r \in 0 .. d - 1 : q = n \div d /\ r = n % d /\ n = d * q + r
  BY DivMod
<1>3. PICK p \in Int, s \in 0 .. d - 1 : p = (r + 1) \div d /\ s = (r + 1) % d /\ r + 1 = d * p + s
  BY DivMod
<1>4. n + 1 = d * (q + p) + s /\ q + p \in Int
  BY <1>2, <1>3
<1>5. (d * (q + p) + s) % d = s
  BY <1>4, DivModUnique
<1> QED
  BY <1>1, <1>2, <1>3, <1>4, <1>5

LEMMA InitInv == Init => Inv
<1> SUFFICES ASSUME Init PROVE Good(0, 0, 0, 0)
  BY DEF Inv
<1> USE DEF Init
<1>1. /\ 0 % TRBCount = 0 /\ Cycle(0) = 1 /\ Num(0) = 0 /\ 0 % Serials = 0
  <2>1. 0 = TRBCount * 0 + 0 /\ 0 = Serials * 0 + 0
    BY Constants
  <2>2. (TRBCount * 0 + 0) \div TRBCount = 0 /\ (TRBCount * 0 + 0) % TRBCount = 0
    BY Count, DivModUnique
  <2>3. (Serials * 0 + 0) % Serials = 0
    BY Constants, DivModUnique
  <2> QED
    BY <2>1, <2>2, <2>3 DEF Cycle, Num
<1>2. Types
  BY Constants DEF Types, NewRing, Trbs, Cell, EventCell, Places, NoEvent
<1>3. ASSUME NEW x \in 0 - TRBCount .. 0 - 1 PROVE x % TRBCount \in 0 .. TRBCount - 1 /\ Cycle(x) = 0
  <2>1. x = TRBCount * (-1) + (x + TRBCount) /\ x + TRBCount \in 0 .. TRBCount - 1
    BY Constants
  <2>2. PICK r \in 0 .. TRBCount - 1 : r = x + TRBCount
    BY <2>1
  <2>3. (TRBCount * (-1) + r) \div TRBCount = -1
    BY Count, DivModUnique
  <2>4. x \div TRBCount = -1
    BY <2>1, <2>2, <2>3
  <2>5. x \in Int
    BY <1>3, Constants
  <2> QED
    BY <2>4, <2>5, Index DEF Cycle
<1>4. Written(m_CmdRing.trb, 0) /\ Written(m_EventRing.trb, 0)
  BY <1>3 DEF Written, NewRing
<1>5. Slice(Serial, 0, 0) = <<>> /\ Slice(Answer, 0, 0) = <<>>
  BY DEF Slice
<1>6. CommandRing(0, 0)
  BY <1>1, <1>4, <1>5, Constants DEF CommandRing, NewRing, Enq, Writing
<1>7. Controller(0, 0) /\ EventRing(0, 0)
  BY <1>1, <1>4, <1>5 DEF Controller, EventRing, NewRing
<1>8. Waits(0) /\ Bounds(0, 0, 0, 0)
  BY <1>1, Constants DEF Waits, Waiting, Bounds
<1> QED
  BY <1>2, <1>6, <1>7, <1>8 DEF Good

-----------------------------------------------------------------------------
(* The steps of the task.                                                   *)

\* What a step keeps that leaves the rings and the controller alone.
LEMMA Elsewhere ==
  ASSUME NEW w \in Nat, NEW a \in Nat, NEW h \in Nat, NEW p \in Nat, Good(w, a, h, p),
         UNCHANGED <<m_CmdRing, m_EventRing, queued, posted>>,
         hc' = hc \/ \E b \in BOOLEAN : hc' = [hc EXCEPT !.running = b],
         task' \in [at : Places, serial : Int, result : Int],
         task'.serial = task.serial, task.at \in Writing <=> task'.at \in Writing,
         m_pCurrentCommandTRB' \in Int, m_bCommandCompleted' \in BOOLEAN,
         m_uchCompletionCode' \in Int, Waits(w)'
  PROVE  Good(w, a, h, p)'
<1>1. Types'
  BY DEF Good, Types
<1>2. Bounds(w, a, h, p)'
  BY DEF Good, Bounds, Num
<1>3. CommandRing(w, a)'
  BY DEF Good, CommandRing, Written, Cycle, Enq, Slice, Num, Serial
<1>4. /\ hc'.at = hc.at /\ hc'.cycle = hc.cycle /\ hc'.doing = hc.doing /\ hc'.slot = hc.slot
      /\ hc'.evAt = hc.evAt /\ hc'.evCycle = hc.evCycle /\ hc'.erdp = hc.erdp
  BY DEF Good, Types
<1>5. Controller(a, p)'
  BY <1>4 DEF Good, Controller, Cycle, Num, Serial
<1>6. EventRing(h, p)'
  BY <1>4 DEF Good, EventRing, Written, Cycle, Slice, Answer
<1> QED
  BY <1>1, <1>2, <1>3, <1>5, <1>6 DEF Good

LEMMA SetCurrentInv ==
  ASSUME NEW w \in Nat, NEW a \in Nat, NEW h \in Nat, NEW p \in Nat, Good(w, a, h, p), SetCurrent
  PROVE  Good(w, a, h, p)'
<1>1. task.at = "current" /\ task' = [task EXCEPT !.at = "pending"] /\ ~failed /\ ~failed'
  BY DEF SetCurrent, At, Moves
<1>2. m_pCurrentCommandTRB' = (Num(w) - 1) % LinkIndex
  <2>1. /\ m_CmdRing.index = (w - 1) % TRBCount /\ (w - 1) % TRBCount # LinkIndex
    BY <1>1 DEF Good, CommandRing, Enq, Writing
  <2>2. PICK x \in Int : x = w - 1 /\ x + 1 = w
    OBVIOUS
  <2>3. Num(x + 1) = Num(x) + 1 /\ Num(x) % LinkIndex = x % TRBCount /\ Num(x) \in Int
    BY <2>1, <2>2, NumNext
  <2>4. Num(w) - 1 = Num(x)
    BY <2>2, <2>3
  <2> QED
    BY <2>1, <2>2, <2>3, <2>4 DEF SetCurrent
<1>3. Waits(w)'
  BY <1>1, <1>2 DEF SetCurrent, Good, Types, Waits, Waiting, Num
<1>4. m_pCurrentCommandTRB' \in Int
  BY DEF SetCurrent, Good, Types
<1> QED
  BY <1>1, <1>3, <1>4, Elsewhere DEF SetCurrent, Good, Types, Places, Writing

\* The other steps on the way to Wait and back.
LEMMA TaskInv ==
  ASSUME NEW w \in Nat, NEW a \in Nat, NEW h \in Nat, NEW p \in Nat, Good(w, a, h, p),
         SetPending \/ Doorbell \/ Done \/ Expire \/ GiveUp \/ Forget
  PROVE  Good(w, a, h, p)'
<1> USE DEF At, Moves, Returns, Waiting, Writing, Places
<1>1. CASE SetPending
  <2>1. Waits(w)'
    BY <1>1 DEF SetPending, Good, Types, Waits, Num
  <2> QED
    BY <1>1, <2>1, Elsewhere DEF SetPending, Good, Types
<1>2. CASE Doorbell
  <2>1. Waits(w)'
    BY <1>2 DEF Doorbell, driverVars, Good, Types, Waits, Num
  <2>2. hc' = [hc EXCEPT !.running = TRUE]
    BY <1>2 DEF Doorbell
  <2> QED
    BY <1>2, <2>1, <2>2, Elsewhere DEF Doorbell, driverVars, Good, Types
<1>3. CASE Done
  <2>1. Waits(w)'
    BY <1>3 DEF Done, driverVars, Good, Types, Waits, Num
  <2> QED
    BY <1>3, <2>1, Elsewhere DEF Done, driverVars, Good, Types
<1>4. CASE Expire
  <2>1. Waits(w)'
    BY <1>4 DEF Expire, driverVars, Good, Types, Waits, Num
  <2> QED
    BY <1>4, <2>1, Elsewhere DEF Expire, driverVars, Good, Types
<1>5. CASE GiveUp
  <2>1. Waits(w)'
    BY <1>5 DEF GiveUp, Good, Types, Waits, Num
  <2> QED
    BY <1>5, <2>1, Elsewhere DEF GiveUp, Good, Types
<1>6. CASE Forget
  <2>1. Waits(w)'
    BY <1>6, Constants DEF Forget, Good, Types, Waits, Num
  <2> QED
    BY <1>6, <2>1, Elsewhere, Constants DEF Forget, Good, Types
<1> QED
  BY <1>1, <1>2, <1>3, <1>4, <1>5, <1>6

LEMMA StartInv ==
  ASSUME NEW w \in Nat, NEW a \in Nat, NEW h \in Nat, NEW p \in Nat, Good(w, a, h, p), Start
  PROVE  Good(w + 1, a, h, p)'
<1> DEFINE i == w % TRBCount
           number == Num(w)
<1>1. /\ task.at = "idle" /\ ~failed /\ m_bCommandCompleted /\ ~failed'
      /\ UNCHANGED <<m_EventRing, m_pCurrentCommandTRB, m_bCommandCompleted, m_uchCompletionCode,
                     hc, posted>>
  BY DEF Start, At, Good, Waits, Waiting
<1>2. /\ m_CmdRing.index = i /\ m_CmdRing.cycle = Cycle(w) /\ i # LinkIndex
      /\ task.serial = number % Serials /\ Written(m_CmdRing.trb, w)
      /\ queued = Slice(Serial, Num(a), number)
  BY <1>1 DEF Good, CommandRing, Enq, Writing
<1>3. /\ Num(w) \in Int /\ Num(a) \in Int /\ Num(a) <= Num(w) /\ w - a < TRBCount /\ a <= w
      /\ h <= p /\ p <= Num(a)
  BY Distances DEF Good, Bounds
<1>4. Num(w + 1) = number + 1 /\ i \in 0 .. TRBCount - 1 /\ Cycle(w) \in {0, 1}
  BY <1>2, NumNext, Index
<1>5. HasRoom(m_CmdRing)
  <2>1. w \in Int /\ ~(w < w) /\ w - TRBCount <= w /\ w < w + TRBCount
    BY Constants
  <2>2. m_CmdRing.trb[i].c # Cycle(w)
    BY <1>2, <2>1, Owned, Zenon
  <2> QED
    BY <1>2, <2>2 DEF HasRoom
<1>6. PICK serial \in Int : serial = (task.serial + 1) % Serials /\ serial = Serial[number]
  <2>1. ((number % Serials) + 1) % Serials = (number + 1) % Serials
    BY <1>3, SerialNext
  <2>2. Serial[number] = (number + 1) % Serials /\ Serial[number] \in Int
    BY <1>3, Numbers
  <2>3. (task.serial + 1) % Serials = Serial[number]
    BY <1>2, <2>1, <2>2, Zenon
  <2> QED
    BY <2>2, <2>3
<1>7. /\ m_CmdRing' = WriteTRB(m_CmdRing, serial)
      /\ queued' = Append(queued, serial)
      /\ task' = [at |-> "current", serial |-> serial, result |-> NoCommand]
  BY <1>5, <1>6 DEF Start
<1>8. m_CmdRing' = [m_CmdRing EXCEPT !.trb[i] = [body |-> serial, c |-> Cycle(w)]]
  BY <1>2, <1>7 DEF WriteTRB
<1>9. /\ m_CmdRing'.trb = [m_CmdRing.trb EXCEPT ![i] = [body |-> serial, c |-> Cycle(w)]]
      /\ m_CmdRing'.index = i /\ m_CmdRing'.cycle = Cycle(w)
      /\ m_CmdRing' \in [trb : Trbs(Cell), index : Int, cycle : {0, 1}]
  <2>1. m_CmdRing \in [trb : Trbs(Cell), index : Int, cycle : {0, 1}]
    BY DEF Good, Types
  <2>2. [body |-> serial, c |-> Cycle(w)] \in Cell
    BY <1>4, <1>6 DEF Cell
  <2> QED
    BY <1>2, <1>4, <1>8, <2>1, <2>2 DEF Trbs
<1>10. /\ m_CmdRing'.trb[i] = [body |-> serial, c |-> Cycle(w)]
       /\ \A j \in 0 .. TRBCount - 1 : j # i => m_CmdRing'.trb[j] = m_CmdRing.trb[j]
  <2>1. m_CmdRing.trb \in Trbs(Cell)
    BY DEF Good, Types
  <2> QED
    BY <1>4, <1>9, <2>1 DEF Trbs
<1>11. PICK trb : trb = m_CmdRing'.trb
  OBVIOUS
<1>12. /\ Written(trb, w + 1)
       /\ \A x \in Int : w - TRBCount < x /\ x < w => trb[x % TRBCount] = m_CmdRing.trb[x % TRBCount]
  <2>1. trb[i].c = Cycle(w) /\ \A j \in 0 .. TRBCount - 1 : j # i => trb[j] = m_CmdRing.trb[j]
    BY <1>10, <1>11
  <2> QED
    BY <1>2, <2>1, WriteNext
<1>13. ASSUME NEW x \in a .. w, x % TRBCount # LinkIndex PROVE trb[x % TRBCount].body = Serial[Num(x)]
  <2>1. CASE x = w
    BY <1>6, <1>10, <1>11, <2>1
  <2>2. CASE x # w
    <3>1. x \in a .. w - 1 /\ x \in Int /\ w - TRBCount < x /\ x < w
      BY <1>3, <2>2, Constants
    <3>2. m_CmdRing.trb[x % TRBCount].body = Serial[Num(x)]
      BY <1>13, <3>1 DEF Good, CommandRing
    <3> QED
      BY <1>12, <3>1, <3>2
  <2> QED
    BY <2>1, <2>2
<1>14. queued' = Slice(Serial, Num(a), Num(w + 1))
  <2>1. Append(Slice(Serial, Num(a), number), Serial[number]) = Slice(Serial, Num(a), number + 1)
    BY <1>3, Numbers, SliceAppend
  <2> QED
    BY <1>2, <1>4, <1>6, <1>7, <2>1
<1>15. CommandRing(w + 1, a)'
  <2>1. (w + 1) - 1 = w /\ task'.at \in Writing
    BY <1>7 DEF Writing
  <2>2. task'.serial = Num(w + 1) % Serials
    BY <1>3, <1>4, <1>6, <1>7, Numbers
  <2>3. Written(m_CmdRing.trb, w + 1)'
    BY <1>11, <1>12 DEF Written, Cycle
  <2>4. \A x \in a .. (w + 1) - 1 : x % TRBCount # LinkIndex => m_CmdRing'.trb[x % TRBCount].body = Serial[Num(x)]
    BY <1>11, <1>13, <2>1
  <2>5. Enq(w + 1)' = w
    BY <2>1 DEF Enq
  <2> QED
    BY <1>2, <1>9, <1>14, <2>2, <2>3, <2>4, <2>5 DEF CommandRing, Cycle, Slice, Num, Serial
<1>16. Bounds(w + 1, a, h, p)'
  <2>1. Len(queued) = number - Num(a) /\ Len(posted) = p - h
    <3>1. Len(Slice(Serial, Num(a), number)) = number - Num(a)
      BY <1>3, Lengths
    <3>2. h \in Int /\ p \in Int /\ h <= p
      BY <1>3
    <3>3. Len(Slice(Answer, h, p)) = p - h
      BY <3>2, Lengths
    <3>4. posted = Slice(Answer, h, p)
      BY DEF Good, EventRing
    <3> QED
      BY <1>2, <3>1, <3>3, <3>4
  <2>2. Unanswered = number - h
    <3>1. /\ number \in Int /\ Num(a) \in Int /\ p \in Int /\ h \in Int
          /\ p = Num(a) - (IF hc.doing = NoCommand THEN 0 ELSE 1)
      BY <1>3 DEF Good, Controller
    <3>2. PICK e : e = IF hc.doing = NoCommand THEN 0 ELSE 1
      OBVIOUS
    <3>3. Unanswered = number - Num(a) + e + (p - h) /\ p = Num(a) - e /\ e \in {0, 1}
      BY <2>1, <3>1, <3>2 DEF Unanswered
    <3> QED
      BY <3>1, <3>3
  <2>3. number - h <= MaxSilent
    BY <2>2 DEF Start
  <2> QED
    BY <1>3, <1>4, <2>3, Constants DEF Bounds, Num
<1>17. Controller(a, p)' /\ EventRing(h, p)'
  <2>1. Controller(a, p)'
    BY <1>1 DEF Good, Controller, Cycle, Num, Serial
  <2>2. EventRing(h, p)'
    BY <1>1 DEF Good, EventRing, Written, Cycle, Slice, Answer
  <2> QED
    BY <2>1, <2>2
<1>18. Waits(w + 1)'
  BY <1>1, <1>7 DEF Waits, Waiting
<1>19. Types'
  BY <1>1, <1>6, <1>7, <1>9, Constants DEF Good, Types, Places
<1> QED
  BY <1>15, <1>16, <1>17, <1>18, <1>19 DEF Good

LEMMA EnqueueInv ==
  ASSUME NEW w \in Nat, NEW a \in Nat, NEW h \in Nat, NEW p \in Nat, Good(w, a, h, p), Enqueue
  PROVE  Good(w, a, h, p)' \/ Good(w + 1, a, h, p)'
<1>1. /\ task.at = "enqueue" /\ ~failed /\ task' = [task EXCEPT !.at = "doorbell"]
      /\ m_CmdRing' = IncrementEnqueue(m_CmdRing) /\ failed' = HasRoom(m_CmdRing)
      /\ UNCHANGED <<m_EventRing, m_pCurrentCommandTRB, m_bCommandCompleted, m_uchCompletionCode,
                     hc, queued, posted>>
  BY DEF Enqueue, At, Moves
<1>2. PICK x \in Int : x = w - 1 /\ x + 1 = w /\ x < w
  OBVIOUS
<1>3. /\ m_CmdRing.index = x % TRBCount /\ m_CmdRing.cycle = Cycle(x)
      /\ x % TRBCount # LinkIndex /\ Written(m_CmdRing.trb, w)
      /\ m_CmdRing \in [trb : Trbs(Cell), index : Int, cycle : {0, 1}]
  BY <1>1, <1>2 DEF Good, Types, CommandRing, Enq, Writing
<1>4. Num(w) \in Int /\ Num(a) \in Int /\ Num(a) <= Num(w) /\ w - a < TRBCount /\ a <= w
  BY Distances DEF Good, Bounds
<1>5. ~failed'
  <2>1. w - TRBCount <= x /\ x < w + TRBCount
    BY <1>2, Constants
  <2>2. w \in Int /\ Written(m_CmdRing.trb, w)
    BY <1>3
  <2>3. m_CmdRing.trb[x % TRBCount].c = Cycle(x) <=> x < w
    BY <2>1, <2>2, Owned, Zenon
  <2> QED
    BY <1>1, <1>2, <1>3, <2>3 DEF HasRoom
<1>6. w % TRBCount = (x % TRBCount) + 1 /\ Cycle(w) = Cycle(x) /\ Cycle(w) \in {0, 1}
  BY <1>2, <1>3, NextCycle, Index
<1>7. Waits(w)'
  BY <1>1, <1>5 DEF Good, Types, Waits, Waiting, Num
<1>8. Controller(a, p)' /\ EventRing(h, p)'
  <2>1. Controller(a, p)'
    BY <1>1 DEF Good, Controller, Cycle, Num, Serial
  <2>2. EventRing(h, p)'
    BY <1>1 DEF Good, EventRing, Written, Cycle, Slice, Answer
  <2> QED
    BY <2>1, <2>2
<1>9. CASE w % TRBCount # LinkIndex
  <2>1. m_CmdRing' = [m_CmdRing EXCEPT !.index = @ + 1]
    BY <1>1, <1>3, <1>6, <1>9 DEF IncrementEnqueue
  <2>2. /\ m_CmdRing'.trb = m_CmdRing.trb /\ m_CmdRing'.cycle = Cycle(w)
        /\ m_CmdRing'.index = w % TRBCount
        /\ m_CmdRing' \in [trb : Trbs(Cell), index : Int, cycle : {0, 1}]
    BY <1>3, <1>6, <2>1
  <2>3. Enq(w)' = w
    BY <1>1 DEF Enq, Writing, Good, Types
  <2>4. task'.serial = task.serial
    BY <1>1 DEF Good, Types
  <2>5. CommandRing(w, a)'
    BY <1>1, <1>9, <2>2, <2>3, <2>4 DEF Good, CommandRing, Written, Cycle, Slice, Num, Serial
  <2>6. Types' /\ Bounds(w, a, h, p)'
    BY <1>1, <2>2 DEF Good, Types, Places, Bounds, Num
  <2> QED
    BY <1>7, <1>8, <2>5, <2>6 DEF Good
<1>10. CASE w % TRBCount = LinkIndex
  <2>1. m_CmdRing' = [m_CmdRing EXCEPT !.trb[LinkIndex].c = 1 - @, !.index = 0, !.cycle = 1 - @]
    BY <1>1, <1>3, <1>6, <1>10 DEF IncrementEnqueue
  <2>2. m_CmdRing.trb[LinkIndex].c = 1 - Cycle(w)
    <3>1. w - TRBCount \in w - TRBCount .. w - 1
      BY Constants
    <3>2. m_CmdRing.trb[(w - TRBCount) % TRBCount].c = Cycle(w - TRBCount)
      BY <1>3, <3>1 DEF Written
    <3> QED
      BY <1>10, <3>2, LapCycle
  <2>3. PICK cell \in Cell : /\ cell = [m_CmdRing.trb[LinkIndex] EXCEPT !.c = 1 - @]
                             /\ cell.c = Cycle(w)
    <3>1. m_CmdRing.trb[LinkIndex] \in Cell
      BY <1>3, Constants DEF Trbs
    <3> DEFINE new == [m_CmdRing.trb[LinkIndex] EXCEPT !.c = 1 - @]
    <3>2. new \in Cell /\ new.c = Cycle(w)
      BY <1>6, <2>2, <3>1 DEF Cell
    <3> QED
      BY <3>2
  <2>4. PICK trb \in Trbs(Cell) : trb = [m_CmdRing.trb EXCEPT ![LinkIndex] = cell]
    BY <1>3, <2>3 DEF Trbs
  <2>5. /\ m_CmdRing'.trb = trb /\ m_CmdRing'.index = 0 /\ m_CmdRing'.cycle = 1 - Cycle(w)
        /\ m_CmdRing' \in [trb : Trbs(Cell), index : Int, cycle : {0, 1}]
    <3>1. [m_CmdRing.trb EXCEPT ![LinkIndex].c = 1 - @] = trb
      BY <2>3, <2>4
    <3>2. m_CmdRing' = [m_CmdRing EXCEPT !.trb = trb, !.index = 0, !.cycle = 1 - @]
      BY <2>1, <3>1
    <3>4. m_CmdRing.cycle = Cycle(w) /\ 1 - Cycle(w) \in {0, 1}
      BY <1>3, <1>6
    <3>6. m_CmdRing \in [trb : Trbs(Cell), index : Int, cycle : {0, 1}]
      BY <1>3
    <3>5. m_CmdRing' = [trb |-> trb, index |-> 0, cycle |-> 1 - Cycle(w)]
      BY <3>2, <3>4, <3>6
    <3>3. m_CmdRing'.trb = trb /\ m_CmdRing'.index = 0 /\ m_CmdRing'.cycle = 1 - Cycle(w)
      BY <3>5
    <3> QED
      BY <2>4, <3>3, <3>4, <3>5
  <2>6. /\ trb[LinkIndex].c = Cycle(w)
        /\ \A j \in 0 .. TRBCount - 1 : j # LinkIndex => trb[j] = m_CmdRing.trb[j]
    <3>1. m_CmdRing.trb \in [0 .. TRBCount - 1 -> Cell] /\ LinkIndex \in 0 .. TRBCount - 1
      BY <1>3, Constants DEF Trbs
    <3> QED
      BY <2>3, <2>4, <3>1
  <2>7. /\ Written(trb, w + 1)
        /\ \A y \in Int : w - TRBCount < y /\ y < w => trb[y % TRBCount] = m_CmdRing.trb[y % TRBCount]
    <3>1. /\ w \in Int /\ trb[w % TRBCount].c = Cycle(w)
          /\ \A j \in 0 .. TRBCount - 1 : j # w % TRBCount => trb[j] = m_CmdRing.trb[j]
      BY <1>10, <2>6
    <3> QED
      BY <1>3, <3>1, WriteNext
  <2>8. /\ (w + 1) % TRBCount = 0 /\ Cycle(w + 1) = 1 - Cycle(w) /\ Num(w + 1) = Num(w)
        /\ 0 # LinkIndex
    <3>1. ~(w % TRBCount < LinkIndex) /\ w \in Int
      BY <1>10, Constants
    <3>2. (w + 1) % TRBCount = 0 /\ Cycle(w + 1) = 1 - Cycle(w)
      BY <3>1, NextCycle, Zenon
    <3> QED
      BY <1>10, <3>1, <3>2, NumNext, Constants
  <2>9. ASSUME NEW y \in a .. w, y % TRBCount # LinkIndex PROVE trb[y % TRBCount].body = Serial[Num(y)]
    <3>1. y \in a .. w - 1 /\ y \in Int /\ w - TRBCount < y /\ y < w
      BY <1>4, <1>10, <2>9, Constants
    <3>2. m_CmdRing.trb[y % TRBCount].body = Serial[Num(y)]
      BY <2>9, <3>1 DEF Good, CommandRing
    <3> QED
      BY <2>7, <3>1, <3>2
  <2>10. CommandRing(w + 1, a)'
    <3>1. Enq(w + 1)' = w + 1
      BY <1>1 DEF Enq, Writing, Good, Types
    <3>2. task'.serial = Num(w + 1) % Serials /\ queued' = Slice(Serial, Num(a), Num(w + 1))
      BY <1>1, <2>8 DEF Good, Types, CommandRing
    <3>3. Written(m_CmdRing.trb, w + 1)'
      BY <2>5, <2>7 DEF Written, Cycle
    <3>4. (w + 1) - 1 = w
      OBVIOUS
    <3>5. \A y \in a .. (w + 1) - 1 : y % TRBCount # LinkIndex => m_CmdRing'.trb[y % TRBCount].body = Serial[Num(y)]
      BY <2>5, <2>9, <3>4
    <3> QED
      BY <2>5, <2>8, <3>1, <3>2, <3>3, <3>5 DEF CommandRing, Cycle, Slice, Num, Serial
  <2>11. Types' /\ Bounds(w + 1, a, h, p)'
    <3>1. Types'
      BY <1>1, <2>5 DEF Good, Types, Places
    <3>2. Bounds(w + 1, a, h, p)'
      BY <1>4, <2>8 DEF Good, Bounds, Num
    <3> QED
      BY <3>1, <3>2
  <2>12. Waits(w + 1)'
    BY <1>7, <2>8 DEF Waits, Num
  <2> QED
    BY <1>8, <2>10, <2>11, <2>12 DEF Good
<1> QED
  BY <1>9, <1>10

-----------------------------------------------------------------------------
(* The interrupt handler and the controller.                                *)

LEMMA HandleEventInv ==
  ASSUME NEW w \in Nat, NEW a \in Nat, NEW h \in Nat, NEW p \in Nat, Good(w, a, h, p), HandleEvent
  PROVE  Good(w, a, h + 1, p)'
<1>1. /\ ~failed /\ HasEntry(m_EventRing) /\ m_EventRing' = IncrementDequeue(m_EventRing)
      /\ hc' = [hc EXCEPT !.erdp = m_EventRing'.index] /\ posted' = Tail(posted)
      /\ UNCHANGED <<m_CmdRing, task, queued, failed>>
  BY DEF HandleEvent
<1>2. /\ m_EventRing.index = h % TRBCount /\ m_EventRing.cycle = Cycle(h)
      /\ Written(m_EventRing.trb, p) /\ posted = Slice(Answer, h, p)
      /\ m_EventRing \in [trb : Trbs(EventCell), index : Int, cycle : {0, 1}]
  BY DEF Good, Types, EventRing
<1>3. /\ Num(w) \in Int /\ Num(a) \in Int /\ Num(a) <= Num(w) /\ h <= p /\ p <= Num(a)
      /\ p - h < TRBCount /\ Num(w) - h <= MaxSilent + 1
  BY Distances, Constants DEF Good, Bounds
<1>4. h < p
  <2>1. h \in Int /\ p \in Int /\ p - TRBCount <= h /\ h < p + TRBCount
    BY <1>3, Constants
  <2>2. m_EventRing.trb[h % TRBCount].c = Cycle(h)
    BY <1>1, <1>2 DEF HasEntry
  <2> QED
    BY <1>2, <2>1, <2>2, Owned, Zenon
<1>5. m_EventRing.trb[h % TRBCount].body = Answer[h]
  BY <1>4 DEF Good, EventRing
<1>6. /\ m_EventRing'.trb = m_EventRing.trb
      /\ m_EventRing'.index = (h + 1) % TRBCount /\ m_EventRing'.cycle = Cycle(h + 1)
      /\ m_EventRing' \in [trb : Trbs(EventCell), index : Int, cycle : {0, 1}]
  <2>1. CASE h % TRBCount = LinkIndex
    <3>1. ~(h % TRBCount < LinkIndex) /\ h \in Int
      BY <2>1, Constants
    <3>2. (h + 1) % TRBCount = 0 /\ Cycle(h + 1) = 1 - Cycle(h)
      BY <3>1, NextCycle, Zenon
    <3>3. m_EventRing' = [m_EventRing EXCEPT !.index = 0, !.cycle = 1 - @]
      BY <1>1, <1>2, <2>1, Constants DEF IncrementDequeue
    <3>4. m_EventRing.cycle = Cycle(h) /\ Cycle(h) \in {0, 1} /\ 1 - Cycle(h) \in {0, 1}
      BY <1>2, <3>1, Index
    <3>5. m_EventRing' = [trb |-> m_EventRing.trb, index |-> 0, cycle |-> 1 - Cycle(h)]
      BY <1>2, <3>3, <3>4
    <3> QED
      BY <1>2, <3>2, <3>4, <3>5
  <2>2. CASE h % TRBCount # LinkIndex
    <3>1. h \in Int /\ h % TRBCount \in Int
      BY Index
    <3>2. (h + 1) % TRBCount = (h % TRBCount) + 1 /\ Cycle(h + 1) = Cycle(h)
      BY <2>2, <3>1, NextCycle, Zenon
    <3>3. m_EventRing' = [m_EventRing EXCEPT !.index = @ + 1]
      BY <1>1, <1>2, <2>2, <3>1, Constants DEF IncrementDequeue
    <3> QED
      BY <1>2, <3>1, <3>2, <3>3
  <2> QED
    BY <2>1, <2>2
<1>7. /\ hc'.at = hc.at /\ hc'.cycle = hc.cycle /\ hc'.doing = hc.doing /\ hc'.slot = hc.slot
      /\ hc'.evAt = hc.evAt /\ hc'.evCycle = hc.evCycle /\ hc'.erdp = (h + 1) % TRBCount
      /\ hc' \in [running : BOOLEAN, at : Int, cycle : {0, 1}, slot : Int, doing : Int,
                  evAt : Int, evCycle : {0, 1}, erdp : Int]
  BY <1>1, <1>6 DEF Good, Types
<1>8. EventRing(h + 1, p)'
  <2>1. Tail(Slice(Answer, h, p)) = Slice(Answer, h + 1, p)
    <3>1. Answer \in [Int -> [slot : Int, serial : Int]]
      BY Numbers
    <3>2. h \in Int /\ p \in Int
      OBVIOUS
    <3> QED
      BY <1>4, <3>1, <3>2, SliceTail, Zenon
  <2>2. Written(m_EventRing.trb, p)'
    BY <1>2, <1>6 DEF Written, Cycle
  <2>3. \A x \in h + 1 .. p - 1 : m_EventRing'.trb[x % TRBCount].body = Answer[x]
    BY <1>6 DEF Good, EventRing
  <2>4. hc'.evAt = p % TRBCount /\ hc'.evCycle = Cycle(p)
    BY <1>7 DEF Good, EventRing
  <2> QED
    BY <1>1, <1>2, <1>6, <1>7, <2>1, <2>2, <2>3, <2>4 DEF EventRing, Cycle, Slice, Answer
<1>9. CommandRing(w, a)' /\ Controller(a, p)'
  <2>1. CommandRing(w, a)'
    BY <1>1 DEF Good, CommandRing, Written, Cycle, Enq, Slice, Num, Serial
  <2>2. Controller(a, p)'
    BY <1>7 DEF Good, Controller, Cycle, Num, Serial
  <2> QED
    BY <2>1, <2>2
<1>10. Bounds(w, a, h + 1, p)'
  <2>1. Bounds(w, a, h + 1, p)
    BY <1>3, <1>4, Constants DEF Good, Bounds
  <2> QED
    BY <2>1 DEF Bounds, Num
<1>11. PICK event : event = m_EventRing.trb[m_EventRing.index].body /\ event = Answer[h]
  BY <1>2, <1>5
<1>12. event.slot = h % LinkIndex /\ event.serial = (h + 1) % Serials /\ event.serial \in Int
  <2>1. h \in Int
    OBVIOUS
  <2>2. Answer[h] = [slot |-> h % LinkIndex, serial |-> Serial[h]] /\ Serial[h] = (h + 1) % Serials
    BY <2>1, Numbers, Zenon
  <2>3. Serial[h] \in Int
    BY <2>1, Numbers
  <2> QED
    BY <1>11, <2>2, <2>3
<1>13. CASE Accepts(event.slot)
  <2>1. /\ m_pCurrentCommandTRB' = NoTRB /\ m_uchCompletionCode' = event.serial
        /\ m_bCommandCompleted' = TRUE /\ ~m_bCommandCompleted
        /\ m_pCurrentCommandTRB = event.slot
    BY <1>11, <1>13 DEF HandleEvent, CommandCompleted, Accepts
  <2>2. task.at \in Waiting /\ m_pCurrentCommandTRB = (Num(w) - 1) % LinkIndex
    BY <2>1 DEF Good, Waits
  <2>3. Num(w) - 1 = h
    <3>1. PICK n \in Int : n = Num(w) - 1
      BY <1>3
    <3>2. h <= n /\ n - h < LinkIndex /\ LinkIndex \in Nat \ {0} /\ h \in Int
      BY <1>3, <1>4, <3>1, Constants
    <3>3. h % LinkIndex = n % LinkIndex
      BY <1>12, <2>1, <2>2, <3>1
    <3>4. ~(h < n)
      BY <3>2, <3>3, ModDiffers, Zenon
    <3> QED
      BY <3>1, <3>2, <3>4
  <2>4. event.serial = task.serial
    BY <1>3, <1>12, <2>3 DEF Good, CommandRing
  <2>5. Waits(w)'
    BY <1>1, <2>1, <2>2, <2>4 DEF Good, Waits, Waiting
  <2>6. Types'
    BY <1>1, <1>6, <1>7, <1>12, <2>1, Constants DEF Good, Types
  <2> QED
    BY <1>8, <1>9, <1>10, <2>5, <2>6 DEF Good
<1>14. CASE ~Accepts(event.slot)
  <2>1. UNCHANGED <<m_pCurrentCommandTRB, m_uchCompletionCode, m_bCommandCompleted>>
    BY <1>11, <1>14 DEF HandleEvent, CommandCompleted
  <2>2. Waits(w)'
    BY <1>1, <2>1 DEF Good, Waits, Num
  <2>3. Types'
    BY <1>1, <1>6, <1>7, <2>1 DEF Good, Types
  <2> QED
    BY <1>8, <1>9, <1>10, <2>2, <2>3 DEF Good
<1> QED
  BY <1>13, <1>14

LEMMA HcFetchInv ==
  ASSUME NEW w \in Nat, NEW a \in Nat, NEW h \in Nat, NEW p \in Nat, Good(w, a, h, p), HcFetch
  PROVE  Good(w, a + 1, h, p)'
<1>1. /\ ~failed /\ hc.doing = NoCommand /\ HcOwns
      /\ UNCHANGED <<m_CmdRing, m_EventRing, m_pCurrentCommandTRB, m_bCommandCompleted,
                     m_uchCompletionCode, task, posted, failed>>
  BY DEF HcFetch, driverVars
<1>2. /\ hc.at = a % TRBCount /\ hc.cycle = Cycle(a) /\ p = Num(a)
      /\ Written(m_CmdRing.trb, w) /\ queued = Slice(Serial, Num(a), Num(w))
      /\ hc \in [running : BOOLEAN, at : Int, cycle : {0, 1}, slot : Int, doing : Int,
                 evAt : Int, evCycle : {0, 1}, erdp : Int]
  BY <1>1 DEF Good, Types, Controller, CommandRing
<1>3. Num(w) \in Int /\ Num(a) \in Int /\ Num(a) <= Num(w) /\ w - a < TRBCount /\ a <= w
  BY Distances DEF Good, Bounds
<1>4. a < w
  <2>1. a \in Int /\ w \in Int /\ w - TRBCount <= a /\ a < w + TRBCount
    BY <1>3, Constants
  <2>2. m_CmdRing.trb[a % TRBCount].c = Cycle(a)
    BY <1>1, <1>2 DEF HcOwns
  <2> QED
    BY <1>2, <2>1, <2>2, Owned, Zenon
<1>5. Num(a + 1) \in Int /\ Num(a + 1) <= Num(w)
  <2>1. a + 1 \in Int /\ a + 1 <= w
    BY <1>4
  <2> QED
    BY <2>1, NumNext, NumGrows
<1>6. EventRing(h, p)' /\ Waits(w)' /\ Written(m_CmdRing.trb, w)'
      /\ (hc'.doing = NoCommand => p = Num(a + 1))
      /\ (hc'.doing # NoCommand => p = Num(a + 1) - 1 /\ hc'.doing = Serial[p] /\ hc'.slot = p % LinkIndex)
      /\ hc'.at = (a + 1) % TRBCount /\ hc'.cycle = Cycle(a + 1)
      /\ queued' = Slice(Serial, Num(a + 1), Num(w))
      /\ p <= Num(a + 1)
      /\ hc' \in [running : BOOLEAN, at : Int, cycle : {0, 1}, slot : Int, doing : Int,
                  evAt : Int, evCycle : {0, 1}, erdp : Int]
  <2>1. Waits(w)' /\ Written(m_CmdRing.trb, w)'
    <3>1. Waits(w)'
      BY <1>1 DEF Good, Waits, Num
    <3>2. Written(m_CmdRing.trb, w)'
      BY <1>1, <1>2 DEF Written, Cycle
    <3> QED
      BY <3>1, <3>2
  <2>2. CASE hc.at = LinkIndex
    <3>1. hc' = [hc EXCEPT !.at = 0, !.cycle = 1 - @] /\ queued' = queued
      BY <2>2 DEF HcFetch
    <3>2. ~(a % TRBCount < LinkIndex) /\ a \in Int
      BY <1>2, <2>2, Constants
    <3>3. (a + 1) % TRBCount = 0 /\ Cycle(a + 1) = 1 - Cycle(a)
      BY <3>2, NextCycle, Zenon
    <3>4. Num(a + 1) = Num(a)
      BY <1>2, <2>2, <3>2, NumNext
    <3>5. /\ hc'.at = (a + 1) % TRBCount /\ hc'.cycle = Cycle(a + 1) /\ hc'.doing = NoCommand
          /\ hc'.evAt = hc.evAt /\ hc'.evCycle = hc.evCycle /\ hc'.erdp = hc.erdp
          /\ hc' \in [running : BOOLEAN, at : Int, cycle : {0, 1}, slot : Int, doing : Int,
                      evAt : Int, evCycle : {0, 1}, erdp : Int]
      <4>1. PICK c \in {0, 1} : c = 1 - hc.cycle /\ hc.cycle = Cycle(a)
        BY <1>2
      <4>2. hc' = [hc EXCEPT !.at = 0, !.cycle = c]
        BY <3>1, <4>1
      <4>3. hc' \in [running : BOOLEAN, at : Int, cycle : {0, 1}, slot : Int, doing : Int,
                     evAt : Int, evCycle : {0, 1}, erdp : Int]
        <5>1. hc' = [running |-> hc.running, at |-> 0, cycle |-> c, slot |-> hc.slot,
                     doing |-> hc.doing, evAt |-> hc.evAt, evCycle |-> hc.evCycle, erdp |-> hc.erdp]
          BY <1>2, <4>2
        <5> QED
          BY <1>2, <5>1
      <4>4. hc'.at = 0 /\ hc'.cycle = c
        BY <1>2, <4>2
      <4> QED
        BY <1>1, <1>2, <3>3, <4>1, <4>2, <4>3, <4>4
    <3>6. EventRing(h, p)'
      BY <1>1, <3>5 DEF Good, EventRing, Written, Cycle, Slice, Answer
    <3> QED
      BY <1>2, <1>3, <2>1, <3>1, <3>4, <3>5, <3>6
  <2>3. CASE hc.at # LinkIndex
    <3>1. /\ hc' = [hc EXCEPT !.at = @ + 1, !.slot = hc.at, !.doing = m_CmdRing.trb[hc.at].body]
          /\ queued' = Tail(queued)
      BY <2>3 DEF HcFetch
    <3>2. a % TRBCount # LinkIndex /\ a \in Int
      BY <1>2, <2>3
    <3>3. (a + 1) % TRBCount = (a % TRBCount) + 1 /\ Cycle(a + 1) = Cycle(a)
      BY <3>2, NextCycle, Zenon
    <3>4. Num(a + 1) = Num(a) + 1 /\ Num(a) % LinkIndex = a % TRBCount
      BY <3>2, NumNext
    <3>5. m_CmdRing.trb[a % TRBCount].body = Serial[Num(a)]
      BY <1>4, <3>2 DEF Good, CommandRing
    <3>6. Serial[Num(a)] \in Int /\ Serial[Num(a)] >= 0
      BY <1>3, Numbers
    <3>7. /\ hc'.at = (a + 1) % TRBCount /\ hc'.cycle = Cycle(a + 1) /\ hc'.doing = Serial[Num(a)]
          /\ hc'.slot = Num(a) % LinkIndex
          /\ hc'.evAt = hc.evAt /\ hc'.evCycle = hc.evCycle /\ hc'.erdp = hc.erdp
          /\ hc' \in [running : BOOLEAN, at : Int, cycle : {0, 1}, slot : Int, doing : Int,
                      evAt : Int, evCycle : {0, 1}, erdp : Int]
      <4>1. (a % TRBCount) + 1 \in Int /\ a % TRBCount \in Int
        BY <3>2, Index
      <4> QED
        BY <1>2, <3>1, <3>3, <3>4, <3>5, <3>6, <4>1
    <3>8. EventRing(h, p)'
      BY <1>1, <3>7 DEF Good, EventRing, Written, Cycle, Slice, Answer
    <3>9. Tail(Slice(Serial, Num(a), Num(w))) = Slice(Serial, Num(a) + 1, Num(w))
      <4>1. Num(a) < Num(w)
        BY <1>3, <1>5, <3>4
      <4> QED
        BY <1>3, <4>1, Numbers, SliceTail
    <3>10. hc'.doing # NoCommand
      BY <3>6, <3>7, Constants
    <3>11. queued' = Slice(Serial, Num(a + 1), Num(w))
      BY <1>2, <3>1, <3>4, <3>9
    <3>12. p = Num(a + 1) - 1
      BY <1>2, <1>3, <3>4
    <3>13. p <= Num(a + 1)
      BY <1>5, <3>12
    <3>14. hc'.doing = Serial[p] /\ hc'.slot = p % LinkIndex
      BY <1>2, <3>7
    <3> QED
      BY <2>1, <3>7, <3>8, <3>10, <3>11, <3>12, <3>13, <3>14
  <2> QED
    BY <2>2, <2>3
<1>7. CommandRing(w, a + 1)'
  <2>1. /\ m_CmdRing' = m_CmdRing /\ task' = task /\ Enq(w)' = Enq(w)
    BY <1>1 DEF Enq
  <2>2. \A x \in a + 1 .. w - 1 : x % TRBCount # LinkIndex => m_CmdRing.trb[x % TRBCount].body = Serial[Num(x)]
    BY DEF Good, CommandRing
  <2>3. /\ m_CmdRing.index = Enq(w) % TRBCount /\ m_CmdRing.cycle = Cycle(Enq(w))
        /\ Enq(w) % TRBCount # LinkIndex /\ task.serial = Num(w) % Serials
    BY DEF Good, CommandRing
  <2> QED
    BY <1>6, <2>1, <2>2, <2>3 DEF CommandRing, Cycle, Slice, Num, Serial
<1>8. Controller(a + 1, p)'
  BY <1>6 DEF Controller, Cycle, Num, Serial
<1>9. Bounds(w, a + 1, h, p)'
  BY <1>3, <1>4, <1>6 DEF Good, Bounds, Num
<1>10. Types'
  BY <1>1, <1>6 DEF Good, Types
<1> QED
  BY <1>6, <1>7, <1>8, <1>9, <1>10 DEF Good

LEMMA HcCompleteInv ==
  ASSUME NEW w \in Nat, NEW a \in Nat, NEW h \in Nat, NEW p \in Nat, Good(w, a, h, p), HcComplete
  PROVE  Good(w, a, h, p + 1)'
<1> DEFINE i == p % TRBCount
<1>1. /\ ~failed /\ hc.doing # NoCommand
      /\ UNCHANGED <<m_CmdRing, m_pCurrentCommandTRB, m_bCommandCompleted, m_uchCompletionCode,
                     task, queued, failed>>
  BY DEF HcComplete
<1>2. /\ hc.evAt = i /\ hc.evCycle = Cycle(p) /\ Written(m_EventRing.trb, p)
      /\ posted = Slice(Answer, h, p)
      /\ m_EventRing \in [trb : Trbs(EventCell), index : Int, cycle : {0, 1}]
      /\ p = Num(a) - 1 /\ hc.doing = Serial[p] /\ hc.slot = p % LinkIndex
  BY <1>1 DEF Good, Types, EventRing, Controller
<1>3. p - h < TRBCount - 1 /\ h <= p /\ i \in 0 .. TRBCount - 1 /\ Cycle(p) \in {0, 1} /\ p \in Int
  BY Distances, Index DEF Good, Bounds
<1>4. PICK event \in [slot : Int, serial : Int] :
        event = Answer[p] /\ event = [slot |-> hc.slot, serial |-> hc.doing]
  <2>1. Answer[p] = [slot |-> p % LinkIndex, serial |-> Serial[p]]
    BY <1>3, Numbers, Zenon
  <2>2. Answer[p] \in [slot : Int, serial : Int]
    BY <1>3, Numbers
  <2> QED
    BY <1>2, <2>1, <2>2
<1>5. /\ m_EventRing' = [m_EventRing EXCEPT !.trb[i] = [body |-> event, c |-> Cycle(p)]]
      /\ posted' = Append(posted, event)
  BY <1>2, <1>4 DEF HcComplete
<1>6. PICK trb \in Trbs(EventCell) : trb = [m_EventRing.trb EXCEPT ![i] = [body |-> event, c |-> Cycle(p)]]
  <2>1. [body |-> event, c |-> Cycle(p)] \in EventCell
    BY <1>3, <1>4 DEF EventCell
  <2> QED
    BY <1>2, <2>1 DEF Trbs
<1>7. /\ m_EventRing'.trb = trb /\ m_EventRing'.index = m_EventRing.index
      /\ m_EventRing'.cycle = m_EventRing.cycle
      /\ m_EventRing' \in [trb : Trbs(EventCell), index : Int, cycle : {0, 1}]
  <2>1. m_EventRing' = [m_EventRing EXCEPT !.trb = trb]
    BY <1>5, <1>6
  <2> QED
    BY <1>2, <1>6, <2>1
<1>8. /\ trb[i] = [body |-> event, c |-> Cycle(p)] /\ trb[i].c = Cycle(p) /\ trb[i].body = event
      /\ \A j \in 0 .. TRBCount - 1 : j # i => trb[j] = m_EventRing.trb[j]
  BY <1>2, <1>3, <1>6 DEF Trbs
<1>9. /\ Written(trb, p + 1)
      /\ \A x \in Int : p - TRBCount < x /\ x < p => trb[x % TRBCount] = m_EventRing.trb[x % TRBCount]
  BY <1>2, <1>3, <1>8, WriteNext
<1>10. ASSUME NEW x \in h .. p PROVE trb[x % TRBCount].body = Answer[x]
  <2>1. CASE x = p
    BY <1>4, <1>8, <2>1
  <2>2. CASE x # p
    <3>1. x \in h .. p - 1 /\ x \in Int /\ p - TRBCount < x /\ x < p
      BY <1>3, <2>2, Constants
    <3>2. m_EventRing.trb[x % TRBCount].body = Answer[x]
      BY <3>1 DEF Good, EventRing
    <3> QED
      BY <1>9, <3>1, <3>2
  <2> QED
    BY <2>1, <2>2
<1>11. hc.evAt + 1 = TRBCount <=> p % TRBCount = LinkIndex
  BY <1>2, <1>3, Constants
<1>12. PICK n \in 0 .. TRBCount - 1, c \in {0, 1} :
         /\ n = (p + 1) % TRBCount /\ c = Cycle(p + 1)
         /\ (hc.evAt + 1) % TRBCount = n
         /\ c = IF hc.evAt + 1 = TRBCount THEN 1 - Cycle(p) ELSE Cycle(p)
  <2>1. (p + 1) % TRBCount \in 0 .. TRBCount - 1 /\ Cycle(p + 1) \in {0, 1} /\ p + 1 \in Int
    BY Index
  <2>2. CASE p % TRBCount = LinkIndex
    <3>1. ~(p % TRBCount < LinkIndex)
      BY <1>3, <2>2, Constants
    <3>2. (p + 1) % TRBCount = 0 /\ Cycle(p + 1) = 1 - Cycle(p)
      BY <1>3, <3>1, NextCycle, Zenon
    <3>3. (hc.evAt + 1) % TRBCount = 0
      <4>1. hc.evAt + 1 = TRBCount * 1 + 0
        BY <1>11, <2>2, Constants
      <4>2. (TRBCount * 1 + 0) % TRBCount = 0
        BY Count, DivModUnique
      <4> QED
        BY <4>1, <4>2
    <3> QED
      BY <1>11, <2>1, <2>2, <3>2, <3>3
  <2>3. CASE p % TRBCount # LinkIndex
    <3>1. (p + 1) % TRBCount = (p % TRBCount) + 1 /\ Cycle(p + 1) = Cycle(p)
      BY <1>3, <2>3, NextCycle, Zenon
    <3>2. (hc.evAt + 1) % TRBCount = hc.evAt + 1
      <4>1. PICK r \in 0 .. TRBCount - 1 : r = hc.evAt + 1
        BY <1>2, <1>3, <2>3, Constants
      <4>2. (TRBCount * 0 + r) % TRBCount = r
        <5>1. TRBCount \in Nat \ {0} /\ 0 \in Int
          BY Count
        <5> QED
          BY <5>1, DivModUnique, Zenon
      <4>3. TRBCount * 0 + r = r
        BY Constants
      <4> QED
        BY <4>1, <4>2, <4>3
    <3> QED
      BY <1>2, <1>11, <2>1, <2>3, <3>1, <3>2
  <2> QED
    BY <2>2, <2>3
<1>13. hc' = [hc EXCEPT !.evAt = n, !.evCycle = c, !.doing = NoCommand]
  BY <1>2, <1>12 DEF HcComplete
<1>14. /\ hc'.at = hc.at /\ hc'.cycle = hc.cycle /\ hc'.doing = NoCommand
       /\ hc'.evAt = n /\ hc'.evCycle = c /\ hc'.erdp = hc.erdp
       /\ hc' \in [running : BOOLEAN, at : Int, cycle : {0, 1}, slot : Int, doing : Int,
                   evAt : Int, evCycle : {0, 1}, erdp : Int]
  <2>1. hc' = [running |-> hc.running, at |-> hc.at, cycle |-> hc.cycle, slot |-> hc.slot,
               doing |-> NoCommand, evAt |-> n, evCycle |-> c, erdp |-> hc.erdp]
    BY <1>13 DEF Good, Types
  <2>2. n \in Int /\ NoCommand \in Int
    BY <1>12, Constants
  <2> QED
    BY <2>1, <2>2 DEF Good, Types
<1>15. EventRing(h, p + 1)'
  <2>1. Append(Slice(Answer, h, p), Answer[p]) = Slice(Answer, h, p + 1)
    <3>1. Answer \in [Int -> [slot : Int, serial : Int]]
      BY Numbers
    <3>2. h \in Int /\ h <= p
      BY <1>3
    <3> QED
      BY <1>3, <3>1, <3>2, SliceAppend, Zenon
  <2>2. posted' = Slice(Answer, h, p + 1)
    BY <1>2, <1>4, <1>5, <2>1
  <2>3. Written(m_EventRing.trb, p + 1)'
    BY <1>7, <1>9 DEF Written, Cycle
  <2>4. \A x \in h .. (p + 1) - 1 : m_EventRing'.trb[x % TRBCount].body = Answer[x]
    BY <1>7, <1>10
  <2>5. m_EventRing'.index = h % TRBCount /\ m_EventRing'.cycle = Cycle(h) /\ hc'.erdp = h % TRBCount
    BY <1>7, <1>14 DEF Good, EventRing
  <2> QED
    BY <1>12, <1>14, <2>2, <2>3, <2>4, <2>5 DEF EventRing, Cycle, Slice, Answer
<1>16. CommandRing(w, a)' /\ Controller(a, p + 1)' /\ Waits(w)'
  <2>1. CommandRing(w, a)'
    BY <1>1 DEF Good, CommandRing, Written, Cycle, Enq, Slice, Num, Serial
  <2>2. p + 1 = Num(a)
    BY <1>2, NumNext
  <2>3. Controller(a, p + 1)'
    BY <1>14, <2>2 DEF Good, Controller, Cycle, Num
  <2>4. Waits(w)'
    BY <1>1 DEF Good, Waits, Num
  <2> QED
    BY <2>1, <2>3, <2>4
<1>17. Bounds(w, a, h, p + 1)'
  <2>1. Bounds(w, a, h, p + 1)
    BY <1>2, <1>3, NumNext DEF Good, Bounds
  <2> QED
    BY <2>1 DEF Bounds, Num
<1>18. Types'
  BY <1>1, <1>7, <1>14 DEF Good, Types
<1> QED
  BY <1>15, <1>16, <1>17, <1>18 DEF Good

LEMMA HcStopInv ==
  ASSUME NEW w \in Nat, NEW a \in Nat, NEW h \in Nat, NEW p \in Nat, Good(w, a, h, p), HcStop
  PROVE  Good(w, a, h, p)'
<1>1. hc' = [hc EXCEPT !.running = FALSE] /\ UNCHANGED <<driverVars, task, queued, posted, failed>>
  BY DEF HcStop
<1>2. Waits(w)'
  BY <1>1 DEF driverVars, Good, Waits, Num
<1> QED
  BY <1>1, <1>2, Elsewhere DEF driverVars, Good, Types

LEMMA StepInv == ASSUME Inv, [Next]_vars PROVE Inv'
<1>1. PICK w \in Nat, a \in Nat, h \in Nat, p \in Nat : Good(w, a, h, p)
  BY DEF Inv
<1>2. SUFFICES \E x, b, k, q \in Nat : Good(x, b, k, q)'
  BY DEF Inv
<1>3. w + 1 \in Nat /\ a + 1 \in Nat /\ h + 1 \in Nat /\ p + 1 \in Nat
  OBVIOUS
<1>4. CASE Start
  BY <1>1, <1>3, <1>4, StartInv
<1>5. CASE SetCurrent
  BY <1>1, <1>5, SetCurrentInv
<1>6. CASE SetPending \/ Doorbell \/ Done \/ Expire \/ GiveUp \/ Forget
  BY <1>1, <1>6, TaskInv
<1>7. CASE Enqueue
  BY <1>1, <1>3, <1>7, EnqueueInv
<1>8. CASE HandleEvent
  BY <1>1, <1>3, <1>8, HandleEventInv
<1>9. CASE HcFetch
  BY <1>1, <1>3, <1>9, HcFetchInv
<1>10. CASE HcStop
  BY <1>1, <1>10, HcStopInv
<1>11. CASE HcComplete
  BY <1>1, <1>3, <1>11, HcCompleteInv
<1>12. CASE UNCHANGED vars
  <2>1. Waits(w)'
    BY <1>1, <1>12 DEF vars, driverVars, Good, Waits, Num
  <2> QED
    BY <1>1, <1>12, <2>1, Elsewhere DEF vars, driverVars, Good, Types
<1> QED
  BY <1>4, <1>5, <1>6, <1>7, <1>8, <1>9, <1>10, <1>11, <1>12 DEF Next, Task

-----------------------------------------------------------------------------
(* Theorems.                                                                *)

\* The positions of the driver and the controller explain every state.
THEOREM Invariance == Spec => []Inv
<1>1. Inv /\ [Next]_vars => Inv'
  BY StepInv
<1> QED
  BY <1>1, InitInv, PTL DEF Spec

\* However late an answer comes, DoCommand returns the result of its command.
THEOREM ResultsAreOwn == Spec => []OwnResult
<1>1. Inv => OwnResult
  BY DEF Inv, Good, Waits, OwnResult
<1> QED
  BY <1>1, Invariance, PTL

\* The window of a lap from position a has one link, at its place l.
LEMMA Window ==
  ASSUME NEW a \in Int, NEW l, l = (LinkIndex - (a % TRBCount)) + 1
  PROVE  /\ l \in 1 .. TRBCount
         /\ \A k \in 1 .. TRBCount :
              /\ ((a + k) - 1) % TRBCount = LinkIndex <=> k = l
              /\ k <= l => Num((a + k) - 1) = (Num(a) + k) - 1
              /\ k > l => Num((a + k) - 1) = (Num(a) + k) - 2
<1>1. PICK n \in Nat \ {0} : n = TRBCount /\ n > 2 /\ LinkIndex = n - 1
  BY Count
<1>2. PICK q \in Int, r \in 0 .. n - 1 : q = a \div n /\ r = a % n /\ a = n * q + r
  BY DivMod
<1>3. l = n - r
  BY <1>1, <1>2
<1>4. Num(a) = a - q
  BY <1>1, <1>2 DEF Num
<1>5. ASSUME NEW k \in 1 .. n, k <= l
      PROVE  /\ ((a + k) - 1) % n = n - 1 <=> k = l
             /\ Num((a + k) - 1) = (Num(a) + k) - 1
  <2>1. PICK s \in 0 .. n - 1 : s = (r + k) - 1
    BY <1>3, <1>5
  <2>2. (n * q + s) \div n = q /\ (n * q + s) % n = s
    BY DivModUnique
  <2>3. (a + k) - 1 = n * q + s
    BY <1>2, <2>1
  <2>4. Num((a + k) - 1) = ((a + k) - 1) - q
    BY <1>1, <2>2, <2>3 DEF Num
  <2>5. s = n - 1 <=> k = l
    BY <1>3, <2>1
  <2> QED
    BY <1>2, <1>4, <2>2, <2>3, <2>4, <2>5
<1>6. ASSUME NEW k \in 1 .. n, k > l
      PROVE  /\ ((a + k) - 1) % n # n - 1
             /\ Num((a + k) - 1) = (Num(a) + k) - 2
  <2>1. PICK s \in 0 .. n - 1, p \in Int : s = ((r + k) - 1) - n /\ s # n - 1 /\ p = q + 1
    BY <1>3, <1>6
  <2>2. (n * p + s) \div n = p /\ (n * p + s) % n = s
    BY DivModUnique
  <2>3. (a + k) - 1 = n * p + s
    <3>1. n * p = (n * q) + n
      BY <2>1
    <3> QED
      BY <1>2, <2>1, <3>1
  <2>4. Num((a + k) - 1) = ((a + k) - 1) - p
    BY <1>1, <2>2, <2>3 DEF Num
  <2> QED
    BY <1>2, <1>4, <2>1, <2>2, <2>3, <2>4
<1>7. l \in 1 .. n
  BY <1>3
<1>8. ASSUME NEW k \in 1 .. n
      PROVE  /\ ((a + k) - 1) % n = n - 1 <=> k = l
             /\ k <= l => Num((a + k) - 1) = (Num(a) + k) - 1
             /\ k > l => Num((a + k) - 1) = (Num(a) + k) - 2
  <2>1. CASE k <= l
    BY <1>5, <1>7, <2>1
  <2>2. CASE k > l
    BY <1>6, <1>7, <2>2
  <2> QED
    BY <1>7, <2>1, <2>2
<1> QED
  BY <1>1, <1>7, <1>8

\* Across the end of the ring and the link, with any number of commands and
\* answers on their way, each end finds what the other has put there, in order.
THEOREM RingsAlwaysExact == Spec => []RingsExact
<1>1. ASSUME Inv PROVE RingsExact
  <2>1. PICK w \in Nat, a \in Nat, h \in Nat, p \in Nat : Good(w, a, h, p)
    BY <1>1 DEF Inv
  <2>2. /\ Num(w) \in Int /\ Num(a) \in Int /\ Num(a) <= Num(w) /\ w - a < TRBCount /\ a <= w
        /\ p - h < TRBCount /\ h <= p
    BY <2>1, Distances, Constants DEF Good, Bounds
  <2>3. /\ hc.at = a % TRBCount /\ hc.cycle = Cycle(a)
        /\ m_EventRing.index = h % TRBCount /\ m_EventRing.cycle = Cycle(h)
        /\ Written(m_CmdRing.trb, w) /\ Written(m_EventRing.trb, p)
        /\ queued = Slice(Serial, Num(a), Num(w)) /\ posted = Slice(Answer, h, p)
    BY <2>1 DEF Good, CommandRing, Controller, EventRing
  <2> DEFINE events == Finds(m_EventRing.trb, m_EventRing.index, m_EventRing.cycle)
             found == Finds(m_CmdRing.trb, hc.at, hc.cycle)
             commands == WithoutLink(found)
             n == w - a
             l == (LinkIndex - (a % TRBCount)) + 1
  <2>4. events = [k \in 1 .. p - h |-> (h + k - 1) % TRBCount]
    <3>1. p \in Int /\ h \in Int
      OBVIOUS
    <3>2. events = Finds(m_EventRing.trb, h % TRBCount, Cycle(h))
      BY <2>3, Zenon
    <3>3. Finds(m_EventRing.trb, h % TRBCount, Cycle(h)) = [k \in 1 .. p - h |-> (h + k - 1) % TRBCount]
      BY <2>2, <2>3, <3>1, FindsThem, Zenon
    <3> QED
      BY <3>2, <3>3, Zenon
  <2>5. posted = [k \in DOMAIN events |-> m_EventRing.trb[events[k]].body]
    <3>1. ASSUME NEW k \in 1 .. p - h PROVE m_EventRing.trb[(h + k - 1) % TRBCount].body = Answer[(h + k) - 1]
      <4>1. PICK x \in h .. p - 1 : x = (h + k) - 1 /\ x = h + k - 1
        BY <3>1
      <4>2. m_EventRing.trb[x % TRBCount].body = Answer[x]
        BY <2>1 DEF Good, EventRing
      <4> QED
        BY <4>1, <4>2
    <3>2. DOMAIN events = 1 .. p - h /\ \A k \in 1 .. p - h : events[k] = (h + k - 1) % TRBCount
      BY <2>4
    <3> HIDE DEF events
    <3>3. posted = [k \in 1 .. p - h |-> Answer[(h + k) - 1]]
      BY <2>3 DEF Slice
    <3> QED
      BY <3>1, <3>2, <3>3
  <2>6. found = [k \in 1 .. n |-> (a + k - 1) % TRBCount]
    <3>1. w \in Int /\ a \in Int
      OBVIOUS
    <3>2. found = Finds(m_CmdRing.trb, a % TRBCount, Cycle(a))
      BY <2>3, Zenon
    <3>3. Finds(m_CmdRing.trb, a % TRBCount, Cycle(a)) = [k \in 1 .. w - a |-> (a + k - 1) % TRBCount]
      BY <2>2, <2>3, <3>1, FindsThem, Zenon
    <3> QED
      BY <3>2, <3>3, Zenon
  <2>7. PICK m \in Nat : m = n /\ m < TRBCount /\ w = a + m
    BY <2>2
  <2>8. /\ DOMAIN found = 1 .. m /\ Len(found) = m
        /\ \A k \in 1 .. m : found[k] = ((a + k) - 1) % TRBCount
    <3>1. \A k \in 1 .. m : a + k - 1 = (a + k) - 1
      OBVIOUS
    <3> QED
      BY <2>6, <2>7, <3>1
  <2> HIDE DEF n, found
  <2>9. /\ l \in 1 .. TRBCount
        /\ \A k \in 1 .. TRBCount :
             /\ ((a + k) - 1) % TRBCount = LinkIndex <=> k = l
             /\ k <= l => Num((a + k) - 1) = (Num(a) + k) - 1
             /\ k > l => Num((a + k) - 1) = (Num(a) + k) - 2
    <3>1. a \in Int
      OBVIOUS
    <3> QED
      BY <3>1, Window
  <2> HIDE DEF l
  <2>10. /\ w = (a + (m + 1)) - 1 /\ m + 1 \in 1 .. TRBCount
         /\ \A k \in 1 .. m : k \in 1 .. TRBCount
    BY <2>7, Constants
  <2>11. ASSUME NEW k \in 1 .. m, k # l
         PROVE  m_CmdRing.trb[found[k]].body = Serial[Num((a + k) - 1)]
    <3>1. PICK x \in a .. w - 1 : x = (a + k) - 1
      BY <2>7
    <3>2. x % TRBCount # LinkIndex
      <4>1. k \in 1 .. TRBCount
        BY <2>10, Zenon
      <4>2. ((a + k) - 1) % TRBCount # LinkIndex
        BY <2>9, <2>11, <4>1, Zenon
      <4> QED
        BY <3>1, <4>2, Zenon
    <3>3. m_CmdRing.trb[x % TRBCount].body = Serial[Num(x)]
      BY <2>1, <3>2 DEF Good, CommandRing
    <3> QED
      BY <2>8, <3>1, <3>3
  <2>12. queued = [k \in DOMAIN commands |-> m_CmdRing.trb[commands[k]].body]
    <3>1. queued = [k \in 1 .. Num(w) - Num(a) |-> Serial[(Num(a) + k) - 1]]
      BY <2>3 DEF Slice
    <3>2. CASE l > m
      <4>1. commands = found
        <5>1. ASSUME NEW k \in 1 .. m PROVE k # l
          BY <2>9, <3>2
        <5>2. ASSUME NEW k \in 1 .. m PROVE found[k] # LinkIndex
          BY <2>8, <2>9, <2>10, <5>1, Zenon
        <5> QED
          BY <2>8, <5>2, Zenon DEF WithoutLink
      <4>2. Num(w) - Num(a) = m
        BY <2>2, <2>9, <2>10, <3>2
      <4>3. \A k \in 1 .. m : m_CmdRing.trb[found[k]].body = Serial[(Num(a) + k) - 1]
        <5>1. ASSUME NEW k \in 1 .. m PROVE k # l /\ k <= l /\ k \in 1 .. TRBCount
          BY <2>9, <2>10, <3>2
        <5>2. ASSUME NEW k \in 1 .. m PROVE Num((a + k) - 1) = (Num(a) + k) - 1
          BY <2>9, <5>1, Zenon
        <5> QED
          BY <2>11, <5>1, <5>2, Zenon
      <4> QED
        BY <2>8, <3>1, <4>1, <4>2, <4>3
    <3>3. CASE l <= m
      <4>1. l \in DOMAIN found /\ \A k \in DOMAIN found : found[k] = LinkIndex <=> k = l
        <5>1. l \in 1 .. m
          BY <2>9, <3>3
        <5>2. ASSUME NEW k \in 1 .. m PROVE found[k] = LinkIndex <=> k = l
          <6>1. k \in 1 .. TRBCount
            BY <2>10, Zenon
          <6> QED
            BY <2>8, <2>9, <6>1, Zenon
        <5> QED
          BY <2>8, <5>1, <5>2, Zenon
      <4>2. (CHOOSE k \in DOMAIN found : found[k] = LinkIndex) = l
        BY <4>1
      <4>3. commands = [k \in 1 .. m - 1 |-> found[IF k < l THEN k ELSE k + 1]]
        BY <2>8, <4>1, <4>2 DEF WithoutLink
      <4>4. Num(w) - Num(a) = m - 1
        BY <2>2, <2>9, <2>10, <3>3
      <4>5. ASSUME NEW k \in 1 .. m - 1
            PROVE  m_CmdRing.trb[commands[k]].body = Serial[(Num(a) + k) - 1]
        <5>1. PICK j \in 1 .. m : j = IF k < l THEN k ELSE k + 1
          BY <2>7
        <5>2. commands[k] = found[j] /\ j # l
          BY <2>9, <4>3, <5>1
        <5>3. Num((a + j) - 1) = (Num(a) + k) - 1
          <6>1. j \in 1 .. TRBCount
            BY <2>10, Zenon
          <6>2. CASE k < l
            BY <2>2, <2>9, <5>1, <6>1, <6>2
          <6>3. CASE k >= l
            <7>1. j = k + 1 /\ j > l
              BY <2>9, <5>1, <6>3
            <7> QED
              BY <2>2, <2>9, <6>1, <7>1
          <6> QED
            BY <2>9, <6>2, <6>3
        <5> QED
          BY <2>11, <5>2, <5>3
      <4>6. DOMAIN commands = 1 .. m - 1
        BY <4>3
      <4> HIDE DEF commands
      <4> QED
        BY <3>1, <4>4, <4>5, <4>6
    <3> QED
      BY <2>7, <2>9, <3>2, <3>3
  <2> QED
    BY <2>5, <2>12 DEF RingsExact, found
<1> QED
  BY <1>1, Invariance, PTL
=============================================================================
