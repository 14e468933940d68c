-------------------------- MODULE SystemClockProofs --------------------------
(***************************************************************************)
(* Proofs about SystemClock, for any widths of the words, frequencies,     *)
(* zones and lateness of the interrupt: what CTimer counts is what the     *)
(* hardware counter says, through every wrap-around.                       *)
(***************************************************************************)
EXTENDS SystemClock, TLAPS

-----------------------------------------------------------------------------
(* Remainders and quotients.                                                *)

LEMMA DivMod ==
  ASSUME NEW x \in Int, NEW d \in Nat \ {0}
  PROVE  x \div d \in Int /\ x % d \in 0 .. d - 1 /\ x = d * (x \div d) + (x % d)
<1>1. x \div d \in Int
  OBVIOUS
<1>2. x % d \in 0 .. d - 1
  OBVIOUS
<1>3. x = d * (x \div d) + (x % d)
  OBVIOUS
<1> QED
  BY <1>1, <1>2, <1>3

\* The quotient and the remainder are determined by that equation.
LEMMA DivModUnique ==
  ASSUME NEW d \in Nat \ {0}, NEW q \in Int, NEW r \in 0 .. d - 1
  PROVE  (d * q + r) \div d = q /\ (d * q + r) % d = r
<1> DEFINE x == d * q + r
<1>1. x \in Int
  OBVIOUS
<1>2. x \div d \in Int /\ x % d \in 0 .. d - 1 /\ x = d * (x \div d) + (x % d)
  BY <1>1, DivMod
<1>3. d * (q - (x \div d)) = (x % d) - r
  BY <1>2
<1>4. q - (x \div d) = 0
  <2>1. CASE q - (x \div d) >= 1
    <3>1. d * (q - (x \div d)) >= d
      BY <1>2, <2>1
    <3> QED
      BY <1>2, <1>3, <3>1
  <2>2. CASE q - (x \div d) <= -1
    <3>1. d * (q - (x \div d)) <= -d
      BY <1>2, <2>2
    <3> QED
      BY <1>2, <1>3, <3>1
  <2> QED
    BY <1>2, <2>1, <2>2
<1> QED
  BY <1>2, <1>3, <1>4

\* Terms that are added may be reduced before or after the addition.
LEMMA ModAdd ==
  ASSUME NEW x \in Int, NEW y \in Int, NEW d \in Nat \ {0}
  PROVE  ((x % d) + y) % d = (x + y) % d
<1> DEFINE q == x \div d
           s == (x % d) + y
<1>1. q \in Int /\ s \in Int /\ x + y = d * q + s
  BY DivMod
<1>2. s \div d \in Int /\ s % d \in 0 .. d - 1 /\ s = d * (s \div d) + (s % d)
  BY <1>1, DivMod
<1>3. PICK p \in Int, t \in 0 .. d - 1 : p = s \div d /\ t = s % d
  BY <1>2
<1>4. x + y = d * (q + p) + t
  <2>1. s = d * p + t
    BY <1>2, <1>3
  <2> HIDE DEF q, s
  <2> QED
    BY <1>1, <1>3, <2>1
<1>5. (d * (q + p) + t) % d = t
  <2> HIDE DEF q, s
  <2>1. q + p \in Int
    BY <1>1, <1>3
  <2> QED
    BY <2>1, <1>3, DivModUnique
<1> QED
  BY <1>3, <1>4, <1>5

LEMMA ModSmall ==
  ASSUME NEW d \in Nat \ {0}, NEW x \in 0 .. d - 1 PROVE x % d = x
OBVIOUS

\* Counting one more begins a new quotient or adds one to the remainder.
LEMMA CountOne ==
  ASSUME NEW x \in Nat, NEW d \in Nat \ {0}
  PROVE  \/ (x + 1) % d = 0 /\ (x + 1) \div d = x \div d + 1 /\ x % d = d - 1
         \/ (x + 1) % d = (x % d) + 1 /\ (x + 1) \div d = x \div d
<1> DEFINE q == x \div d
           r == x % d
<1>1. q \in Int /\ r \in 0 .. d - 1 /\ x = d * q + r
  BY DivMod
<1>2. CASE r = d - 1
  <2>1. x + 1 = d * (q + 1) + 0 /\ q + 1 \in Int /\ 0 \in 0 .. d - 1
    BY <1>1, <1>2
  <2>2. (d * (q + 1) + 0) \div d = q + 1 /\ (d * (q + 1) + 0) % d = 0
    BY <2>1, DivModUnique
  <2> QED
    BY <1>2, <2>1, <2>2
<1>3. CASE r # d - 1
  <2>1. x + 1 = d * q + (r + 1) /\ r + 1 \in 0 .. d - 1
    BY <1>1, <1>3
  <2>2. (d * q + (r + 1)) \div d = q /\ (d * q + (r + 1)) % d = r + 1
    BY <1>1, <2>1, DivModUnique
  <2> QED
    BY <2>1, <2>2
<1> QED
  BY <1>2, <1>3

-----------------------------------------------------------------------------
(* The inductive invariant.                                                 *)

\* What the assumptions say of the constants.
LEMMA Constants ==
  /\ WordMod \in Nat \ {0}
  /\ HZ \in Nat \ {0} /\ FRQ \in Nat \ {0} /\ Period \in Nat \ {0}
  /\ WordMod \div 2 \in Nat /\ 2 * (WordMod \div 2) = WordMod
  /\ \A z \in Zone : z \in Int /\ -(WordMod \div 2) < z /\ z < WordMod \div 2
<1> USE ClockAssumption
<1>1. WordMod \in Nat \ {0} /\ HZ \in Nat \ {0} /\ FRQ \in Nat \ {0}
  OBVIOUS
<1>2. WordMod = 2 * (WordMod \div 2) + (WordMod % 2) /\ WordMod \div 2 \in Int
  BY <1>1, DivMod
<1>3. WordMod \div 2 \in Nat /\ 2 * (WordMod \div 2) = WordMod
  BY <1>1, <1>2
<1>4. FRQ = HZ * (FRQ \div HZ) + (FRQ % HZ) /\ FRQ \div HZ \in Int
  BY <1>1, DivMod
<1>5. PICK p \in Int : p = FRQ \div HZ
  BY <1>4
<1>6. FRQ = HZ * p
  BY <1>1, <1>4, <1>5
<1>7. p \in Nat \ {0}
  <2>1. CASE p <= 0
    <3>1. HZ * p <= 0
      BY <1>1, <2>1
    <3> QED
      BY <1>1, <1>6, <3>1
  <2> QED
    BY <1>5, <2>1
<1>8. Period \in Nat \ {0}
  BY <1>5, <1>7 DEF Period
<1>9. \A z \in Zone : z \in Int /\ -(WordMod \div 2) < z /\ z < WordMod \div 2
  BY <1>3
<1> QED
  BY <1>1, <1>3, <1>8, <1>9

LEMMA ModAddWord ==
  ASSUME NEW x \in Int, NEW y \in Int
  PROVE  ((x % WordMod) + y) % WordMod = (x + y) % WordMod
<1>1. PICK d \in Nat \ {0} : d = WordMod
  BY Constants
<1> QED
  BY <1>1, ModAdd, Zenon

Types ==
  /\ counter \in Nat /\ cval \in Nat
  /\ ticks \in 0 .. WordMod - 1 /\ uptime \in 0 .. WordMod - 1 /\ time \in 0 .. WordMod - 1
  /\ zone \in Int /\ -(WordMod \div 2) < zone /\ zone < WordMod \div 2
  /\ utc \in {NoTime} \cup 0 .. WordMod - 1

\* The timer interrupt was served k times since the start.
Served(k) ==
  /\ cval = (k + 1) * Period /\ k * Period <= counter
  /\ ticks = k % WordMod
  /\ k < WordMod => uptime = k \div HZ

\* The local time is the time in UTC shifted by the zone, modulo 2^32.
Linked == utc # NoTime => time = Local(utc)

Inv == Types /\ (\E k \in Nat : Served(k)) /\ Linked

LEMMA InitInv == Init => Inv
<1> SUFFICES ASSUME Init PROVE Inv
  OBVIOUS
<1>1. Types
  BY Constants DEF Init, Types, NoTime
<1>2. Served(0)
  BY Constants, DivMod DEF Init, Served
<1>3. Linked
  BY DEF Init, Linked
<1> QED
  BY <1>1, <1>2, <1>3 DEF Inv

LEMMA TimerIrqServed ==
  ASSUME Types, NEW k \in Nat, Served(k), TimerIrq PROVE Served(k + 1)'
<1>1. /\ counter >= cval /\ cval' = cval + Period /\ counter' = counter
      /\ ticks' = (ticks + 1) % WordMod
      /\ FullSecond => uptime' = (uptime + 1) % WordMod
      /\ ~FullSecond => uptime' = uptime
  BY DEF TimerIrq, Pending, NextCompare, Inc
<1>2. cval' = ((k + 1) + 1) * Period /\ (k + 1) * Period <= counter'
  BY <1>1, Constants DEF Served, Types
<1>3. ticks' = (k + 1) % WordMod
  <2>1. ((k % WordMod) + 1) % WordMod = (k + 1) % WordMod
    BY ModAddWord
  <2>2. ticks = k % WordMod
    BY DEF Served
  <2> QED
    BY <1>1, <2>1, <2>2, Zenon
<1>4. ASSUME k + 1 < WordMod PROVE uptime' = (k + 1) \div HZ
  <2>1. FullSecond <=> (k + 1) % HZ = 0
    <3>1. Inc(ticks) = ticks'
      BY <1>1 DEF Inc
    <3>2. ticks' = k + 1
      BY <1>3, <1>4, Constants, ModSmall
    <3> QED
      BY <3>1, <3>2 DEF FullSecond
  <2>2. uptime = k \div HZ /\ uptime \in Nat
    BY <1>4, Constants DEF Served, Types
  <2>3. CASE FullSecond
    <3>1. (k + 1) \div HZ = (k \div HZ) + 1
      <4>1. HZ \in Nat \ {0}
        BY Constants
      <4>2. k % HZ >= 0 /\ k % HZ \in Int
        BY <4>1, DivMod
      <4>3. (k + 1) % HZ = 0
        BY <2>1, <2>3
      <4>4. (k % HZ) + 1 # 0
        BY <4>2
      <4> QED
        BY <4>1, <4>3, <4>4, CountOne, Zenon
    <3>2. uptime + 1 <= k + 1
      <4>1. k = HZ * uptime + (k % HZ) /\ k % HZ \in Nat
        BY <2>2, Constants, DivMod
      <4>2. HZ * uptime >= uptime
        BY <2>2, Constants
      <4> QED
        BY <2>2, <4>1, <4>2, Constants
    <3>3. (uptime + 1) % WordMod = uptime + 1
      BY <1>4, <2>2, <3>2, Constants, ModSmall
    <3> QED
      BY <1>1, <2>2, <2>3, <3>1, <3>3
  <2>4. CASE ~FullSecond
    BY <1>1, <2>1, <2>2, <2>4, Constants, CountOne
  <2> QED
    BY <2>3, <2>4
<1> QED
  BY <1>2, <1>3, <1>4 DEF Served

\* Counting a second keeps the distance of the two times.
LEMMA LocalCounts ==
  ASSUME NEW u \in Nat, NEW z \in Int
  PROVE  ((((u + z) % WordMod) + 1) % WordMod) = ((((u + 1) % WordMod) + z) % WordMod)
<1>1. (((u + z) % WordMod) + 1) % WordMod = ((u + z) + 1) % WordMod
  BY ModAddWord
<1>2. (((u + 1) % WordMod) + z) % WordMod = ((u + 1) + z) % WordMod
  BY ModAddWord
<1>3. (u + z) + 1 = (u + 1) + z
  OBVIOUS
<1> QED
  BY <1>1, <1>2, <1>3

LEMMA TimerIrqInv == ASSUME Inv, TimerIrq PROVE Inv'
<1>1. PICK k \in Nat : Served(k)
  BY DEF Inv
<1>2. Served(k + 1)'
  BY <1>1, TimerIrqServed DEF Inv
<1>3. \A x \in Int : x % WordMod \in 0 .. WordMod - 1
  BY Constants, DivMod
<1>4. ticks' \in 0 .. WordMod - 1 /\ uptime' \in 0 .. WordMod - 1 /\ time' \in 0 .. WordMod - 1
  <2>1. \A n \in 0 .. WordMod - 1 : Inc(n) \in 0 .. WordMod - 1
    BY <1>3, Constants DEF Inc
  <2> QED
    BY <2>1 DEF Inv, Types, TimerIrq
<1>5. /\ utc' \in {NoTime} \cup 0 .. WordMod - 1
      /\ utc' # NoTime => utc # NoTime /\ (FullSecond => utc' = Inc(utc))
  <2>1. \A n \in 0 .. WordMod - 1 : Inc(n) \in 0 .. WordMod - 1
    BY <1>3, Constants DEF Inc
  <2>2. utc \in {NoTime} \cup 0 .. WordMod - 1
    BY DEF Inv, Types
  <2> QED
    BY <2>1, <2>2 DEF TimerIrq
<1>6. Types'
  <2>1. cval' \in Nat /\ counter' = counter /\ zone' = zone
    BY Constants DEF Inv, Types, TimerIrq, NextCompare
  <2> QED
    BY <1>4, <1>5, <2>1 DEF Inv, Types
<1>7. Linked'
  <2> SUFFICES ASSUME utc' # NoTime PROVE time' = Local(utc)'
    BY DEF Linked
  <2>1. utc # NoTime /\ utc \in Nat /\ zone \in Int /\ zone' = zone /\ time = (utc + zone) % WordMod
    BY <1>5, Constants DEF Inv, Types, Linked, Local, TimerIrq
  <2>2. CASE FullSecond
    <3>1. time' = (time + 1) % WordMod /\ utc' = (utc + 1) % WordMod
      BY <1>5, <2>2 DEF TimerIrq, Inc
    <3>2. (utc' + zone) % WordMod = (time + 1) % WordMod
      BY <2>1, <3>1, LocalCounts
    <3> QED
      BY <2>1, <3>1, <3>2 DEF Local
  <2>3. CASE ~FullSecond
    BY <2>1, <2>3 DEF TimerIrq, Local
  <2> QED
    BY <2>2, <2>3
<1> QED
  BY <1>2, <1>6, <1>7 DEF Inv

LEMMA StepInv == ASSUME Inv, [Next]_vars PROVE Inv'
<1>1. ASSUME Count PROVE Inv'
  <2>1. PICK k \in Nat : Served(k)
    BY DEF Inv
  <2>2. Served(k)'
    BY <1>1, <2>1, Constants DEF Inv, Types, Count, Served
  <2> QED
    BY <1>1, <2>2 DEF Inv, Types, Linked, Local, Count
<1>2. ASSUME TimerIrq PROVE Inv'
  BY <1>2, TimerIrqInv
<1>3. ASSUME UNCHANGED <<counter, cval, ticks, uptime>>, Types', Linked' PROVE Inv'
  <2>1. PICK k \in Nat : Served(k)
    BY DEF Inv
  <2>2. Served(k)'
    BY <1>3, <2>1 DEF Served
  <2> QED
    BY <1>3, <2>2 DEF Inv
<1>4. ASSUME NEW z \in Zone, SetTimeZone(z) PROVE Inv'
  <2>1. Types' /\ Linked'
    BY <1>4, Constants DEF Inv, Types, Linked, SetTimeZone
  <2> QED
    BY <1>3, <1>4, <2>1 DEF SetTimeZone
<1>5. ASSUME NEW n \in NewTime, SetLocalTime(n) PROVE Inv'
  <2>1. n \in 0 .. WordMod - 1
    BY ClockAssumption
  <2>2. Types' /\ Linked'
    BY <1>5, <2>1 DEF Inv, Types, Linked, SetLocalTime
  <2> QED
    BY <1>3, <1>5, <2>2 DEF SetLocalTime
<1>6. ASSUME NEW n \in NewTime, SetUniversalTime(n) PROVE Inv'
  <2>1. n \in 0 .. WordMod - 1
    BY ClockAssumption
  <2>2. time' = Local(n) /\ utc' = n /\ zone' = zone
    BY <1>6 DEF SetUniversalTime
  <2>3. time' \in 0 .. WordMod - 1
    BY <2>1, <2>2, Constants, DivMod DEF Local, Inv, Types
  <2>4. Types'
    BY <1>6, <2>1, <2>2, <2>3 DEF Inv, Types, SetUniversalTime
  <2>5. Linked'
    BY <2>2 DEF Linked, Local
  <2> QED
    BY <1>3, <1>6, <2>4, <2>5 DEF SetUniversalTime
<1>7. CASE UNCHANGED vars
  <2>1. Types' /\ Linked'
    BY <1>7 DEF Inv, Types, Linked, Local, vars
  <2> QED
    BY <1>3, <1>7, <2>1 DEF vars
<1> QED
  BY <1>1, <1>2, <1>4, <1>5, <1>6, <1>7 DEF Next

\* In every state the counters of the clock belong to one number of interrupts
\* served, and the local time to the UTC.
THEOREM Invariance == Spec => []Inv
<1>1. Inv /\ [Next]_vars => Inv'
  BY StepInv
<1> QED
  BY <1>1, InitInv, PTL DEF Spec

-----------------------------------------------------------------------------
(* The promises of the clocks.                                              *)

\* However long the timer interrupt is held back, no tick is lost.
THEOREM TicksExact == Spec => []NoTickLost
<1>1. ASSUME Inv PROVE NoTickLost
  <2> SUFFICES ASSUME counter < cval PROVE ticks = (counter \div Period) % WordMod
    BY <1>1 DEF NoTickLost, Pending, Inv, Types
  <2>1. PICK k \in Nat : Served(k)
    BY <1>1 DEF Inv
  <2>2. PICK p \in Nat \ {0} : p = Period
    BY Constants
  <2>3. /\ k * p <= counter /\ counter < (k + 1) * p /\ counter \in Nat
        /\ ticks = k % WordMod
    BY <1>1, <2>1, <2>2 DEF Served, Inv, Types
  <2>4. counter = p * k + (counter - p * k) /\ counter - p * k \in 0 .. p - 1
    BY <2>3
  <2>5. counter \div p = k
    <3>1. PICK r \in 0 .. p - 1 : r = counter - p * k
      BY <2>4
    <3>2. (p * k + r) \div p = k
      BY DivModUnique
    <3>3. counter = p * k + r
      BY <2>4, <3>1
    <3> QED
      BY <3>2, <3>3
  <2> QED
    BY <2>2, <2>3, <2>5
<1> QED
  BY <1>1, Invariance, PTL

\* GetUptime tells the seconds since the start until m_nTicks wraps around.
THEOREM UptimeAlwaysExact == Spec => []UptimeExact
<1>1. ASSUME Inv PROVE UptimeExact
  <2> SUFFICES ASSUME cval <= WordMod * Period PROVE uptime = ticks \div HZ
    BY DEF UptimeExact
  <2>1. PICK k \in Nat : Served(k)
    BY <1>1 DEF Inv
  <2>2. (k + 1) * Period <= WordMod * Period
    BY <2>1 DEF Served
  <2>3. k < WordMod
    <3>1. CASE k >= WordMod
      <4>1. (k + 1) * Period >= WordMod * Period + Period
        BY <3>1, Constants
      <4> QED
        BY <2>2, <4>1, Constants
    <3> QED
      BY <3>1, Constants
  <2>4. k % WordMod = k
    BY <2>3, Constants, ModSmall
  <2> QED
    BY <2>1, <2>3, <2>4 DEF Served
<1> QED
  BY <1>1, Invariance, PTL

\* Until 2038 GetUniversalTime tells the UTC that was set and the seconds since.
THEOREM UniversalTimeAlways == Spec => []UniversalTimeUntil2038
<1>1. ASSUME Inv PROVE UniversalTimeUntil2038
  <2> SUFFICES ASSUME time < WordMod \div 2, utc < WordMod \div 2, utc # NoTime
               PROVE  GetUniversalTime = utc
    BY DEF UniversalTimeUntil2038, UniversalTimeExact
  <2>1. PICK h \in Nat, w \in Nat \ {0} : h = WordMod \div 2 /\ w = WordMod /\ w = 2 * h
    BY Constants
  <2>2. /\ time \in Nat /\ time < h /\ utc \in Nat /\ utc < h /\ zone \in Int
        /\ -h < zone /\ zone < h /\ time = (utc + zone) % w
    BY <1>1, <2>1, Constants DEF Inv, Types, Linked, Local
  <2>3. time = utc + zone
    <3>1. CASE utc + zone >= 0
      BY <2>1, <2>2, <3>1, ModSmall
    <3>2. CASE utc + zone < 0
      <4>1. utc + zone = w * (-1) + (w + utc + zone) /\ w + utc + zone \in 0 .. w - 1
        BY <2>1, <2>2, <3>2
      <4>2. (w * (-1) + (w + utc + zone)) % w = w + utc + zone
        BY <2>2, <4>1, DivModUnique
      <4>3. w + utc + zone > h
        BY <2>1, <2>2
      <4> QED
        BY <2>1, <2>2, <4>1, <4>2, <4>3
    <3> QED
      BY <2>2, <3>1, <3>2
  <2>4. Signed(time) = time
    BY <2>1, <2>2 DEF Signed
  <2>5. (time - zone) % w = utc
    BY <2>1, <2>2, <2>3, ModSmall
  <2> QED
    BY <2>1, <2>2, <2>3, <2>4, <2>5 DEF GetUniversalTime
<1> QED
  BY <1>1, Invariance, PTL

\* The local time, fraction of a second included, grows with every timer
\* interrupt, also when m_nTicks wraps around; that of m_nTime is excepted.
THEOREM LocalTimeAlways == Spec => LocalTimeMonotone
<1>1. ASSUME Inv, TimerIrq PROVE LocalTicks' > LocalTicks \/ (FullSecond /\ time = WordMod - 1)
  <2>1. PICK w \in Nat \ {0}, f \in Nat \ {0} : w = WordMod /\ f = HZ
    BY Constants
  <2>2. ticks \in 0 .. w - 1 /\ time \in 0 .. w - 1 /\ ticks' = (ticks + 1) % w
    BY <1>1, <2>1 DEF Inv, Types, TimerIrq, Inc
  <2>3. \A x \in Nat : x % f \in 0 .. f - 1
    BY DivMod
  <2>4. CASE FullSecond
    <3> SUFFICES ASSUME time # w - 1 PROVE LocalTicks' > LocalTicks
      BY <2>1, <2>4
    <3>1. time' = time + 1
      <4>1. time' = (time + 1) % w
        BY <1>1, <2>1, <2>4 DEF TimerIrq, Inc
      <4> QED
        BY <2>2, <4>1, ModSmall
    <3>2. ticks' % f = 0
      BY <2>1, <2>2, <2>4 DEF FullSecond, Inc
    <3>3. (time + 1) * f = (time * f) + f /\ ticks % f \in 0 .. f - 1 /\ time * f \in Nat
      BY <2>2, <2>3
    <3> QED
      BY <2>1, <3>1, <3>2, <3>3 DEF LocalTicks
  <2>5. CASE ~FullSecond
    <3>1. ticks' % f # 0 /\ time' = time
      BY <1>1, <2>1, <2>2, <2>5 DEF TimerIrq, FullSecond, Inc
    <3>2. ticks # w - 1
      <4>1. CASE ticks = w - 1
        <5>1. ticks' = 0
          BY <2>2, <4>1
        <5> QED
          BY <3>1, <5>1
      <4> QED
        BY <4>1
    <3>3. ticks' = ticks + 1
      BY <2>2, <3>2, ModSmall
    <3>4. ticks' % f = (ticks % f) + 1
      <4>1. ticks \in Nat /\ (ticks + 1) % f # 0
        BY <2>2, <3>1, <3>3
      <4> QED
        BY <3>3, <4>1, CountOne, Zenon
    <3>5. ticks % f \in 0 .. f - 1 /\ time * f \in Nat
      BY <2>2, <2>3
    <3> QED
      BY <2>1, <3>1, <3>4, <3>5 DEF LocalTicks
  <2> QED
    BY <2>4, <2>5
<1>2. Inv /\ [Next]_vars => [TimerIrq => LocalTicks' > LocalTicks \/ (FullSecond /\ time = WordMod - 1)]_vars
  BY <1>1
<1> QED
  BY <1>2, Invariance, PTL DEF LocalTimeMonotone, Spec
=============================================================================
