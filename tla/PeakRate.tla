------------------------------ MODULE PeakRate ------------------------------
(***************************************************************************)
(* The peak-rate badge (plugins/peak-rate): the host half, which keeps the *)
(* legal holidays it fetches year by year, the browser half, which fetches *)
(* the policy with a bounded retry, and the badge, which asks for it again *)
(* when the Beijing date changes.                                          *)
(*                                                                         *)
(* A year's holidays are known or not: a set of holidays is the set of its *)
(* years.  Dates matter by their changes: date alternates within a year.   *)
(* An RPC is a call on its way to the host, then an answer on its way      *)
(* back; answers may overtake one another, and a call may fail.            *)
(***************************************************************************)
EXTENDS Integers, Sequences, FiniteSets

CONSTANTS Windows,      \* peakWindows: pairs of UTC hours
          HolidayDays,  \* HolidayDays[y]: holidays of year y, as days since a Monday
          MaxRetries,   \* MAX_HOLIDAY_RETRIES
          MaxYear, MaxCalls, MaxRemounts   \* bounds: years, RPCs under way,
                                           \* effects re-run by other renders
Years == 1..MaxYear

\* The validation of Config.
ASSUME WindowAssumption ==
  \A w \in Windows : w \in (0..24) \X (0..24) /\ w[1] < w[2]
ASSUME HolidayAssumption == \A y \in Years : HolidayDays[y] \subseteq Nat
ASSUME BoundAssumption ==
  /\ MaxYear \in Nat \ {0} /\ MaxRetries \in Nat
  /\ MaxCalls \in Nat \ {0} /\ MaxRemounts \in Nat

VARIABLES year, date,     \* the Beijing date
          holidays,       \* holidays the host serves
          fetchedYears,   \* years it takes for fetched
          fetching,       \* the year its fetch in flight was made for, or 0
          calls,          \* RPCs not yet handled
          answers,        \* answers not yet received: the holidays served
          policy,         \* the holidays of the client's policy
          timers,         \* armed retry timers
          retriesLeft,
          lastSeen,       \* lastSeenBeijingDate
          remounts

vars == <<year, date, holidays, fetchedYears, fetching, calls, answers, policy, timers,
          retriesLeft, lastSeen, remounts>>

clock  == <<year, date>>
host   == <<holidays, fetchedYears, fetching>>
client == <<policy, timers, retriesLeft>>

Today == <<year, date>>

-----------------------------------------------------------------------------
(* The rule, by UTC hours since a Monday, 00:00 UTC.                       *)

BeijingDay(hour) == (hour + 8) \div 24

isPeak(hour, windows) == \E w \in windows : w[1] <= hour % 24 /\ hour % 24 < w[2]

\* Mutant of isWeekend: the UTC day.
isWeekendUTC(hour) == (hour \div 24) % 7 \in {5, 6}

isWeekend(hour) == BeijingDay(hour) % 7 \in {5, 6}

isPeakRate(hour, windows, days) ==
  ~isWeekend(hour) /\ BeijingDay(hour) \notin days /\ isPeak(hour, windows)

-----------------------------------------------------------------------------
(* The host.                                                               *)

\* fetchHolidaysIfNeeded: the value of the in-flight mark after it.
FetchIfNeeded == IF fetching = 0 /\ year \notin fetchedYears THEN year ELSE fetching

Marked(years) == fetchedYears \cup years

\* Both documents settle.  This year's fails or not; next year's may also be
\* unpublished.  What is served is replaced, what counts as fetched only grows.
FetchSettles(this, next) ==
  LET years == {y \in Years : (y = fetching /\ this) \/ (y = fetching + 1 /\ next)} IN
  /\ fetching # 0
  /\ holidays' = years
  /\ fetchedYears' = Marked(years)
  /\ fetching' = 0
  /\ UNCHANGED <<clock, calls, answers, client, lastSeen, remounts>>

\* The config endpoint.
ServeConfig ==
  /\ calls > 0 /\ calls' = calls - 1
  /\ fetching' = FetchIfNeeded
  /\ answers' = Append(answers, holidays)
  /\ UNCHANGED <<clock, holidays, fetchedYears, client, lastSeen, remounts>>

\* The transport fails, or the result is not ok: left as it is.
CallFails ==
  /\ calls > 0 /\ calls' = calls - 1
  /\ UNCHANGED <<clock, host, answers, client, lastSeen, remounts>>

-----------------------------------------------------------------------------
(* The client and its badge.                                               *)

\* Mutant of RetryDue: a retry is armed beside an armed one.
RetryDueAgain(served) == served = {} /\ retriesLeft > 0

RetryDue(served) == served = {} /\ retriesLeft > 0 /\ timers = 0

\* fetchConfig after its await.  A published policy re-runs the badge's effect,
\* which takes today for seen.
Receive(i) ==
  LET served == answers[i]
      due == RetryDue(served)
  IN  /\ answers' = SubSeq(answers, 1, i - 1) \o SubSeq(answers, i + 1, Len(answers))
      /\ policy' = served
      /\ retriesLeft' = IF due THEN retriesLeft - 1 ELSE retriesLeft
      /\ timers' = IF due THEN timers + 1 ELSE timers
      /\ lastSeen' = Today
      /\ UNCHANGED <<clock, host, calls, remounts>>

Room == calls + Len(answers) < MaxCalls

RetryTimer ==
  /\ timers > 0 /\ Room
  /\ timers' = timers - 1 /\ calls' = calls + 1
  /\ UNCHANGED <<clock, host, answers, policy, retriesLeft, lastSeen, remounts>>

\* Mutant of Refreshes: only a new year is a reason to ask.
RefreshesYearly == IF lastSeen[1] # year THEN 1 ELSE 0

\* The number of calls a tick makes.
Refreshes == IF lastSeen # Today THEN 1 ELSE 0

\* The badge's interval, at a date it has not seen.
Tick ==
  /\ lastSeen # Today /\ Room
  /\ calls' = calls + Refreshes /\ lastSeen' = Today
  /\ UNCHANGED <<clock, host, answers, client, remounts>>

\* Another badge mounts: its effect takes today for seen.
Mount ==
  /\ remounts < MaxRemounts /\ remounts' = remounts + 1 /\ lastSeen' = Today
  /\ UNCHANGED <<clock, host, calls, answers, client>>

-----------------------------------------------------------------------------
DateChanges ==
  /\ date' = 1 - date
  /\ UNCHANGED <<year, host, calls, answers, client, lastSeen, remounts>>

YearChanges ==
  /\ year < MaxYear /\ year' = year + 1
  /\ UNCHANGED <<date, host, calls, answers, client, lastSeen, remounts>>

\* The host boots and fetches; a page with a badge loads and asks.
Init ==
  /\ year = 1 /\ date = 0
  /\ holidays = {} /\ fetchedYears = {} /\ fetching = 1
  /\ calls = 1 /\ answers = <<>>
  /\ policy = {} /\ timers = 0 /\ retriesLeft = MaxRetries
  /\ lastSeen = Today /\ remounts = 0

Next ==
  \/ \E this, next \in BOOLEAN : FetchSettles(this, next)
  \/ ServeConfig \/ CallFails
  \/ \E i \in DOMAIN answers : Receive(i)
  \/ RetryTimer \/ Tick \/ Mount
  \/ DateChanges \/ YearChanges

\* Days pass, each far longer than the badge's interval; the timers run; the fetch
\* times out at the latest; the host and, now and then, the feed answer.
Fairness ==
  /\ WF_vars(DateChanges) /\ SF_vars(Tick) /\ WF_vars(RetryTimer)
  /\ WF_vars(\E this, next \in BOOLEAN : FetchSettles(this, next))
  /\ SF_vars(\E next \in BOOLEAN : FetchSettles(TRUE, next))
  /\ SF_vars(ServeConfig)
  /\ WF_vars(\E i \in DOMAIN answers : Receive(i))

Spec == Init /\ [][Next]_vars /\ Fairness

-----------------------------------------------------------------------------
(* Properties.                                                             *)

\* However calls and answers interleave, one retry timer at most is armed, and
\* it is paid for.
OneRetryTimer == timers <= 1 /\ (retriesLeft = MaxRetries => timers = 0)

\* By the policy it has, the badge's rule is the billing rule of Beijing: in the
\* windows a Beijing clock shows, on working days, whatever day it is in UTC.
PeakByBeijingClock ==
  LET days == UNION {HolidayDays[y] : y \in policy}
      peakHours == UNION {{(h + 8) % 24 : h \in w[1]..(w[2] - 1)} : w \in Windows}
      Workday(day) == day \in {0, 1, 2, 3, 4, 7} \ days
  IN  \A hour \in 0..(7 * 24 - 1) :
        isPeakRate(hour, Windows, days) <=>
          Workday((hour + 8) \div 24) /\ (hour + 8) % 24 \in peakHours

\* A host that runs across a year boundary, with a badge open, has in the end
\* marked the new year as fetched, and the badge has the holidays the host has,
\* though its retries are used up and answers overtake one another.  That the
\* host then has those of the new year is not said: a later fetch may lose them.
CatchUp == <>[](year \in fetchedYears /\ policy = holidays)
=============================================================================
