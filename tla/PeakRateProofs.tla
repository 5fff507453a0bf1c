--------------------------- MODULE PeakRateProofs ---------------------------
(***************************************************************************)
(* Proofs about PeakRate, for every set of windows and holidays and every  *)
(* number of years, retries and calls.                                     *)
(*                                                                         *)
(* OneRetryTimer is inductive with the types of its counters.  The rule is *)
(* a fact about hours of a week, whatever the policy: a shift by eight     *)
(* hours maps a UTC window onto the hours a Beijing clock shows in it.     *)
(***************************************************************************)
EXTENDS PeakRate, TLAPS

-----------------------------------------------------------------------------
(* The retry.                                                              *)

TimerInv == timers \in Nat /\ retriesLeft \in 0..MaxRetries /\ OneRetryTimer

\* The client arms a retry only when none is armed, and pays for each: the
\* bounded retry never runs two timers (client/index.ts:97-122).
THEOREM RetryIsBounded == Spec => []OneRetryTimer
<1>1. Init => TimerInv
  BY BoundAssumption DEF Init, TimerInv, OneRetryTimer
<1>2. TimerInv /\ [Next]_vars => TimerInv'
  <2> SUFFICES ASSUME TimerInv, [Next]_vars PROVE TimerInv'
    OBVIOUS
  <2>1. ASSUME NEW i \in DOMAIN answers, Receive(i) PROVE TimerInv'
    <3>1. CASE RetryDue(answers[i])
      <4>1. timers = 0 /\ retriesLeft > 0 /\ timers' = timers + 1 /\ retriesLeft' = retriesLeft - 1
        BY <2>1, <3>1 DEF Receive, RetryDue
      <4>2. retriesLeft <= MaxRetries
        BY DEF TimerInv
      <4> QED BY <4>1, <4>2, BoundAssumption DEF TimerInv, OneRetryTimer
    <3>2. CASE ~RetryDue(answers[i])
      BY <2>1, <3>2 DEF Receive, TimerInv, OneRetryTimer
    <3> QED BY <3>1, <3>2
  <2>2. CASE RetryTimer
    BY <2>2 DEF RetryTimer, TimerInv, OneRetryTimer
  <2>3. CASE UNCHANGED <<timers, retriesLeft>>
    BY <2>3 DEF TimerInv, OneRetryTimer
  <2>4. (\E i \in DOMAIN answers : Receive(i)) \/ RetryTimer \/ UNCHANGED <<timers, retriesLeft>>
    BY DEF Next, FetchSettles, ServeConfig, CallFails, Tick, Mount, DateChanges, YearChanges,
           client, vars
  <2> QED BY <2>1, <2>2, <2>3, <2>4
<1>3. TimerInv => OneRetryTimer
  BY DEF TimerInv
<1> QED BY <1>1, <1>2, <1>3, PTL DEF Spec

-----------------------------------------------------------------------------
(* The rule.                                                               *)

LEMMA WindowHours ==
  ASSUME NEW w \in Windows, NEW hour \in 0..(7 * 24 - 1)
  PROVE  (w[1] <= hour % 24 /\ hour % 24 < w[2])
           <=> (hour + 8) % 24 \in {(h + 8) % 24 : h \in w[1]..(w[2] - 1)}
<1>1. w[1] \in 0..24 /\ w[2] \in 0..24 /\ w[1] < w[2]
  BY WindowAssumption
<1>2. hour % 24 \in 0..23 /\ (hour + 8) % 24 = ((hour % 24) + 8) % 24
  OBVIOUS
<1>3. ASSUME w[1] <= hour % 24, hour % 24 < w[2]
      PROVE  (hour + 8) % 24 \in {(h + 8) % 24 : h \in w[1]..(w[2] - 1)}
  <2>1. hour % 24 \in w[1]..(w[2] - 1)
    BY <1>1, <1>2, <1>3
  <2> QED BY <1>2, <2>1
<1>4. ASSUME NEW h \in w[1]..(w[2] - 1), (hour + 8) % 24 = (h + 8) % 24
      PROVE  w[1] <= hour % 24 /\ hour % 24 < w[2]
  <2>1. h \in 0..23
    BY <1>1
  <2>2. \A m \in 0..23 : (m + 8) % 24 = IF m < 16 THEN m + 8 ELSE m - 16
    OBVIOUS
  <2>3. hour % 24 = h
    <3>1. PICK m \in 0..23 : m = hour % 24 /\ (m + 8) % 24 = (h + 8) % 24
      BY <1>2, <1>4
    <3> QED BY <2>1, <2>2, <3>1
  <2> QED BY <1>1, <2>1, <2>3
<1> QED BY <1>3, <1>4

LEMMA WeekHours ==
  ASSUME NEW hour \in 0..(7 * 24 - 1)
  PROVE  /\ BeijingDay(hour) \in 0..7
         /\ BeijingDay(hour) = (hour + 8) \div 24
         /\ ~isWeekend(hour) <=> BeijingDay(hour) \in {0, 1, 2, 3, 4, 7}
<1>1. BeijingDay(hour) \in 0..7 /\ BeijingDay(hour) = (hour + 8) \div 24
  BY DEF BeijingDay
<1>2. \A day \in 0..7 : day % 7 \notin {5, 6} <=> day \in {0, 1, 2, 3, 4, 7}
  OBVIOUS
<1> QED BY <1>1, <1>2 DEF isWeekend

\* The badge's rule, in UTC hours, is the billing rule of a Beijing clock, for
\* every set of windows and every list of holidays (client/peak-rate.ts:12-51).
THEOREM BeijingRule == Spec => []PeakByBeijingClock
<1>1. PeakByBeijingClock
  <2> DEFINE days == UNION {HolidayDays[y] : y \in policy}
             peakHours == UNION {{(h + 8) % 24 : h \in w[1]..(w[2] - 1)} : w \in Windows}
             Workday(day) == day \in {0, 1, 2, 3, 4, 7} \ days
  <2> SUFFICES ASSUME NEW hour \in 0..(7 * 24 - 1)
               PROVE  isPeakRate(hour, Windows, days) <=>
                        Workday((hour + 8) \div 24) /\ (hour + 8) % 24 \in peakHours
    BY DEF PeakByBeijingClock
  <2>1. isPeak(hour, Windows) <=> (hour + 8) % 24 \in peakHours
    BY WindowHours DEF isPeak
  <2>2. (~isWeekend(hour) /\ BeijingDay(hour) \notin days) <=> Workday((hour + 8) \div 24)
    BY WeekHours
  <2> QED BY <2>1, <2>2 DEF isPeakRate
<1> QED BY <1>1, PTL
=============================================================================
