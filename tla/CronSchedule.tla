---------------------------- MODULE CronSchedule ----------------------------
(***************************************************************************)
(* Schedules of the scheduler (src/src/daemon/scheduler/mod.rs): how a     *)
(* schedule string becomes one set of allowed values per field, when it    *)
(* fires, and the search for the next minute at which it does.             *)
(*                                                                         *)
(* Time is counted in minutes.  The calendar's lengths are constants, so   *)
(* that every schedule over a small calendar can be enumerated.            *)
(***************************************************************************)
EXTENDS Integers, FiniteSets

CONSTANTS
  MinutesPerHour,  \* 60
  HoursPerDay,     \* 24
  DaysPerWeek,     \* 7
  DaysPerMonth,    \* 31 in the code's range check
  MonthsPerYear,   \* 12
  Shift,           \* the minute at which the local clock jumps
  Offset,          \* the zone's distance from UTC before the jump
  Jump,            \* by how much it jumps: 0, or an hour either way
  Start, Finish    \* bounds: the minutes `now` goes through

CronAssumption ==
  /\ {MinutesPerHour, HoursPerDay, DaysPerWeek, DaysPerMonth, MonthsPerYear} \subseteq Nat \ {0}
  /\ {Shift, Start, Finish} \subseteq Nat
  /\ {Offset, Jump} \subseteq Int

(* Clocks that the search is right for: none that jumps, or one that is    *)
(* set back at the end of an hour to a moment of the same local day.       *)
StepsBack ==
  \/ Jump = 0
  \/ /\ Jump < 0
     /\ (Shift + Offset) % MinutesPerHour = 0
     /\ (Shift + Offset + Jump) \div (HoursPerDay * MinutesPerHour)
          = (Shift + Offset - 1) \div (HoursPerDay * MinutesPerHour)

VARIABLES schedule, utc, now
cronVars == <<schedule, utc, now>>

MinutesPerDay == HoursPerDay * MinutesPerHour
Year == (DaysPerMonth * MonthsPerYear + 1) * MinutesPerDay

(* The broken-down time of minute t, in UTC or in the node's zone.         *)
UtcMoment(t) ==
  LET day == t \div MinutesPerDay
  IN [minute  |-> t % MinutesPerHour,
      hour    |-> (t \div MinutesPerHour) % HoursPerDay,
      day     |-> (day % DaysPerMonth) + 1,
      month   |-> ((day \div DaysPerMonth) % MonthsPerYear) + 1,
      weekday |-> day % DaysPerWeek]
LocalMoment(t) == UtcMoment(t + Offset + (IF t < Shift THEN 0 ELSE Jump))
MomentAt(t, inUtc) == IF inUtc THEN UtcMoment(t) ELSE LocalMoment(t)

-----------------------------------------------------------------------------
(* Parsing: a field is a comma-separated list of parts; `*` and `a/n` are  *)
(* ranges up to the maximum.                                               *)

Part(min, max) == {p \in [lo : min..max, hi : min..max, step : 1..max] : p.lo <= p.hi}
Star(min, max) == [lo |-> min, hi |-> max, step |-> 1]
PartMask(p) == {v \in p.lo..p.hi : (v - p.lo) % p.step = 0}
FieldMask(field) == UNION {PartMask(p) : p \in field}

(* Day of week 7 is Sunday too.                                            *)
WeekdayMask(field) == {v % DaysPerWeek : v \in FieldMask(field)}

Everything ==
  [minute |-> 0..MinutesPerHour - 1, hour |-> 0..HoursPerDay - 1, day |-> 1..DaysPerMonth,
   month |-> 1..MonthsPerYear, weekday |-> 0..DaysPerWeek - 1,
   dayRestricted |-> FALSE, weekdayRestricted |-> FALSE]

Hourly == [Everything EXCEPT !.minute = {0}]
Daily(hh, mm) == [Everything EXCEPT !.minute = {mm}, !.hour = {hh}]
Cron(minute, hour, day, month, weekday) ==
  [minute |-> FieldMask(minute), hour |-> FieldMask(hour), day |-> FieldMask(day),
   month |-> FieldMask(month), weekday |-> WeekdayMask(weekday),
   dayRestricted |-> day # {Star(1, DaysPerMonth)},
   weekdayRestricted |-> weekday # {Star(0, DaysPerWeek)}]

-----------------------------------------------------------------------------
(* Vixie cron: when both date fields are restricted, either may match.     *)
DateMatches(s, m) ==
  /\ m.month \in s.month
  /\ IF s.dayRestricted /\ s.weekdayRestricted
       THEN m.day \in s.day \/ m.weekday \in s.weekday
       ELSE m.day \in s.day /\ m.weekday \in s.weekday

Matches(s, m) == m.minute \in s.minute /\ m.hour \in s.hour /\ DateMatches(s, m)

(* How far the search moves on from a moment at which s does not fire: to  *)
(* the next day, to the next hour or to the next minute.                   *)
(* Mutant: the day's last minute is counted too.                           *)
SkipPastMidnight(s, m) ==
  IF ~DateMatches(s, m) THEN (HoursPerDay - m.hour) * MinutesPerHour + (MinutesPerHour - m.minute)
  ELSE IF m.hour \notin s.hour THEN MinutesPerHour - m.minute
  ELSE 1
Skip(s, m) ==
  IF ~DateMatches(s, m)
    THEN (HoursPerDay - 1 - m.hour) * MinutesPerHour + (MinutesPerHour - m.minute)
  ELSE IF m.hour \notin s.hour THEN MinutesPerHour - m.minute
  ELSE 1

Never == -1
NextAfter(s, t0, inUtc) ==
  LET limit == t0 + Year
      search[t \in Nat] ==
        IF t > limit THEN Never
        ELSE IF Matches(s, MomentAt(t, inUtc)) THEN t
        ELSE search[t + Skip(s, MomentAt(t, inUtc))]
  IN search[t0 + 1]

-----------------------------------------------------------------------------
(* One schedule per behaviour; time passes.                                *)

Singletons(S) == {{x} : x \in S}
Lists(min, max) == Singletons(Part(min, max))
Crons == {Cron(mi, h, d, mo, w) :
            mi \in Lists(0, MinutesPerHour - 1), h \in Lists(0, HoursPerDay - 1),
            d \in Lists(1, DaysPerMonth), mo \in Lists(1, MonthsPerYear),
            w \in Lists(0, DaysPerWeek)}
Schedules ==
  Crons \union {Hourly}
        \union {Daily(hh, mm) : hh \in 0..HoursPerDay - 1, mm \in 0..MinutesPerHour - 1}

CronInit ==
  /\ schedule \in Schedules
  /\ utc \in BOOLEAN
  /\ now = Start

MinutePasses ==
  /\ now < Finish
  /\ now' = now + 1
  /\ UNCHANGED <<schedule, utc>>

CronNext == MinutePasses
CronSpec == CronInit /\ [][CronNext]_cronVars

-----------------------------------------------------------------------------
(* The reference: the least later minute, within a year, at which the      *)
(* schedule fires.                                                         *)
Fires(t) == Matches(schedule, MomentAt(t, utc))
IsFirst(t) ==
  IF t = Never THEN \A u \in now + 1..now + Year : ~Fires(u)
  ELSE t \in now + 1..now + Year /\ Fires(t) /\ \A u \in now + 1..t - 1 : ~Fires(u)

(* "The first minute strictly after `epoch_secs` at which the schedule     *)
(* fires, `None` if that is more than a year away": skipping the hours and *)
(* days that cannot match never skips one that does.                       *)
NextIsFirst == IsFirst(NextAfter(schedule, now, utc))
=============================================================================
