----------------------------- MODULE SystemClock -----------------------------
(***************************************************************************)
(* The clocks of CTimer: the hardware counter and the compare value that   *)
(* makes it interrupt HZ times a second, m_nTicks, m_nUptime, m_nTime in   *)
(* local time, and the times that are computed from them.  The width of a  *)
(* word is a constant: TLC runs the ticks through their wrap-around.       *)
(***************************************************************************)
EXTENDS Integers

CONSTANTS
  WordMod,      \* 2^32: unsigned
  FRQ,          \* CNTFRQ: counts per second
  HZ,           \* timer interrupts per second
  Zone,         \* differences to UTC, in seconds (m_nMinutesDiff * 60)
  NewTime,      \* arguments of SetTime
  LateBound,    \* bound: counts the timer interrupt may be held back
  CounterBound  \* bound: the counter stops there

NoTime == -1
Period == FRQ \div HZ

ASSUME ClockAssumption ==
  /\ WordMod \in Nat \ {0} /\ WordMod % 2 = 0
  /\ HZ \in Nat \ {0} /\ FRQ \in Nat /\ FRQ % HZ = 0 /\ FRQ >= HZ  \* assert in Initialize
  /\ Zone \subseteq 1 - WordMod \div 2 .. WordMod \div 2 - 1          \* tested in SetTimeZone
  /\ NewTime \subseteq 0 .. WordMod - 1
  /\ LateBound \in Nat /\ CounterBound \in Nat

VARIABLES
  counter,  \* CNTPCT
  cval,     \* CNTP_CVAL
  ticks,    \* m_nTicks
  uptime,   \* m_nUptime
  time,     \* m_nTime
  zone,     \* m_nMinutesDiff * 60
  utc       \* (history) the time in UTC if it was set in UTC in this zone

vars == <<counter, cval, ticks, uptime, time, zone, utc>>

TypeOK ==
  /\ counter \in 0 .. CounterBound
  /\ cval \in Period .. CounterBound + Period
  /\ {ticks, uptime, time} \subseteq 0 .. WordMod - 1
  /\ zone \in Zone \cup {0}
  /\ utc \in {NoTime} \cup 0 .. WordMod - 1

Init ==
  /\ counter = 0
  /\ cval = Period
  /\ ticks = 0 /\ uptime = 0 /\ time = 0
  /\ zone = 0
  /\ utc = NoTime

Pending == counter >= cval
BugInc(n) == n + 1
Inc(n) == (n + 1) % WordMod
Signed(n) == IF n < WordMod \div 2 THEN n ELSE n - WordMod

Count ==
  /\ counter < CounterBound
  /\ counter + 1 <= cval + LateBound
  /\ counter' = counter + 1
  /\ UNCHANGED <<cval, ticks, uptime, time, zone, utc>>

BugNextCompare == counter + Period
NextCompare == cval + Period

BugFullSecond == ticks % HZ = 0
FullSecond == Inc(ticks) % HZ = 0

\* InterruptHandler.
TimerIrq ==
  /\ Pending
  /\ cval' = NextCompare
  /\ ticks' = Inc(ticks)
  /\ \/ /\ FullSecond
        /\ uptime' = Inc(uptime)
        /\ time' = Inc(time)
        /\ utc' = IF utc = NoTime THEN NoTime ELSE Inc(utc)
     \/ ~FullSecond /\ UNCHANGED <<uptime, time, utc>>
  /\ UNCHANGED <<counter, zone>>

SetTimeZone(z) ==
  /\ zone' = z
  /\ utc' = NoTime
  /\ UNCHANGED <<counter, cval, ticks, uptime, time>>

SetLocalTime(n) ==
  /\ time' = n
  /\ utc' = NoTime
  /\ UNCHANGED <<counter, cval, ticks, uptime, zone>>

BugLocal(n) == (n - zone) % WordMod
Local(n) == (n + zone) % WordMod

\* SetTime (n, FALSE); it returns FALSE, and changes nothing, for times
\* that are not representable in local time.
SetUniversalTime(n) ==
  /\ ~(zone < 0 /\ -zone > Signed(n))
  /\ time' = Local(n)
  /\ utc' = n
  /\ UNCHANGED <<counter, cval, ticks, uptime, zone>>

Next ==
  \/ Count
  \/ TimerIrq
  \/ \E z \in Zone : SetTimeZone(z)
  \/ \E n \in NewTime : SetLocalTime(n) \/ SetUniversalTime(n)

Spec == Init /\ [][Next]_vars

GetUniversalTime == IF zone > Signed(time) THEN 0 ELSE (time - zone) % WordMod

\* GetLocalTime as one number of ticks.
LocalTicks == (time * HZ) + (ticks % HZ)

-----------------------------------------------------------------------------
(* Properties.                                                              *)

\* However late the timer interrupt is served, no tick is lost: the compare
\* value is advanced from its last value, not from the counter.
NoTickLost == ~Pending => ticks = (counter \div Period) % WordMod

\* GetUptime: "Seconds since system boot (continous)", up to the first
\* wrap-around of m_nTicks.
UptimeExact == cval <= WordMod * Period => uptime = ticks \div HZ

\* The local time, with its fraction of a second, goes back only if it is set
\* or has reached the end of its range.
LocalTimeMonotone ==
  [][TimerIrq => LocalTicks' > LocalTicks \/ (FullSecond /\ time = WordMod - 1)]_vars

\* GetUniversalTime returns the time in UTC that was set and the seconds
\* that have passed since then.
UniversalTimeExact == utc # NoTime => GetUniversalTime = utc

\* The same while both times are positive as int, that is until 2038.
UniversalTimeUntil2038 ==
  time < WordMod \div 2 /\ utc < WordMod \div 2 => UniversalTimeExact
=============================================================================
