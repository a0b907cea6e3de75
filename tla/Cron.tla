-------------------------------- MODULE Cron --------------------------------
(***************************************************************************)
(* scheduler/cron.go: parsing of cron fields and the search for the next   *)
(* matching minute.  The search jumps over months, days and hours; one     *)
(* action is one iteration of its loop.  The calendar (Go's package time,  *)
(* in a zone without clock changes) is a parameter.                        *)
(***************************************************************************)
EXTENDS Integers, Sequences, FiniteSets

CONSTANTS MinutesPerHour, HoursPerDay, DaysPerWeek, MonthsPerYear,
          Months,          \* how many months the calendar has, from the first year on
          MonthStart,      \* the days before each month; the years may differ in length
          SearchLimit,     \* how far Next looks ahead, in minutes (four years in the code)
          Fields,          \* the cron fields considered: [minute, hour, day, month, weekday |-> set of fields]
          MaxFrom          \* the searches start at 0..MaxFrom

VARIABLES cron,            \* CronSchedule
          from,            \* the time Next is called with
          t,               \* the candidate
          search           \* "running", "found" or "none"

cronVars == <<cron, from, t, search>>

MinutesPerDay == MinutesPerHour * HoursPerDay
Parts == [kind : {"star", "range", "value"}, lo : Int, hi : Int, step : Int]

\* The calendar goes on for two years after the last time at which a search goes on.
ASSUME CronAssumption ==
    /\ {MinutesPerHour, HoursPerDay, DaysPerWeek, MonthsPerYear} \subseteq Nat \ {0}
    /\ SearchLimit \in Nat /\ MaxFrom \in Nat /\ Months \in Nat
    /\ MonthStart \in [0..Months -> Nat] /\ MonthStart[0] = 0
    /\ \A k, l \in 0..Months : k < l => MonthStart[k] < MonthStart[l]
    /\ 2 * MonthsPerYear <= Months
    /\ MaxFrom + 1 + SearchLimit <= MonthStart[Months - 2 * MonthsPerYear] * MinutesPerDay
    /\ Fields.month \subseteq Seq(Parts)

----------------------------------------------------------------------------
(* Calendar (external) *)

Minute(u)    == u % MinutesPerHour
Hour(u)      == (u \div MinutesPerHour) % HoursPerDay
DayNumber(u) == u \div MinutesPerDay
Weekday(u)   == DayNumber(u) % DaysPerWeek

\* The month in which day d of the calendar lies.
MonthOf(d) == CHOOSE k \in 0..Months - 1 : MonthStart[k] <= d /\ d < MonthStart[k + 1]

Year(u)       == MonthOf(DayNumber(u)) \div MonthsPerYear
Month(u)      == (MonthOf(DayNumber(u)) % MonthsPerYear) + 1
Day(u)        == DayNumber(u) - MonthStart[MonthOf(DayNumber(u))] + 1
FirstOf(y, m) == MonthStart[y * MonthsPerYear + m - 1] * MinutesPerDay

----------------------------------------------------------------------------
(* Parsing: a field is a sequence of parts; a part is * or a range, with a step, or a value *)

\* An error; a valid part always has a member.
Invalid == {}

\* The loop from lo to hi by steps.
Every(lo, hi, step) == {v \in lo..hi : (v - lo) % step = 0}

parsePart(part, min, max) ==
    LET valid == /\ part.step >= 1
                 /\ part.kind # "star" => part.lo \in min..max
                 /\ part.kind = "range" => part.hi \in part.lo..max
    IN  IF ~valid THEN Invalid
        ELSE CASE part.kind = "star"  -> Every(min, max, part.step)
               [] part.kind = "range" -> Every(part.lo, part.hi, part.step)
               [] part.kind = "value" -> {part.lo}

\* All parts set their bits; the first invalid one is an error.
parseField(field, min, max) ==
    LET parts == {parsePart(field[i], min, max) : i \in DOMAIN field}
    IN  IF Invalid \in parts THEN Invalid ELSE UNION parts

ParseCron(f) ==
    [minutes  |-> parseField(f.minute, 0, MinutesPerHour - 1),
     hours    |-> parseField(f.hour, 0, HoursPerDay - 1),
     days     |-> parseField(f.day, 1, 31),
     months   |-> parseField(f.month, 1, MonthsPerYear),
     weekdays |-> parseField(f.weekday, 0, DaysPerWeek - 1)]

Parsed(cs) == \A k \in DOMAIN cs : cs[k] # Invalid

----------------------------------------------------------------------------
(* CronSchedule.Next *)

CronInit == /\ \E mi \in Fields.minute, h \in Fields.hour, d \in Fields.day, mo \in Fields.month,
                  w \in Fields.weekday :
                 cron = ParseCron([minute |-> mi, hour |-> h, day |-> d, month |-> mo, weekday |-> w])
            /\ Parsed(cron)
            /\ from \in 0..MaxFrom
            /\ t = from + 1
            /\ search = "running"

Searching == search = "running" /\ t < from + 1 + SearchLimit
MonthOK == Month(t) \in cron.months
DayOK   == Day(t) \in cron.days /\ Weekday(t) \in cron.weekdays
HourOK  == Hour(t) \in cron.hours

Least(S) == CHOOSE m \in S : \A n \in S : m <= n

\* The first day of the next month that is in the set.
advanceToNextMonth ==
    /\ Searching /\ ~MonthOK
    /\ LET later == {m \in cron.months : m > Month(t)}
       IN  t' = IF later # {} THEN FirstOf(Year(t), Least(later)) ELSE FirstOf(Year(t) + 1, Least(cron.months))
    /\ UNCHANGED <<cron, from, search>>

\* Midnight of the next day.
nextDay == /\ Searching /\ MonthOK /\ ~DayOK
           /\ t' = (DayNumber(t) + 1) * MinutesPerDay
           /\ UNCHANGED <<cron, from, search>>

\* Mutant: the minutes are kept.
nextHourUntruncated == /\ Searching /\ MonthOK /\ DayOK /\ ~HourOK
                       /\ t' = t + MinutesPerHour
                       /\ UNCHANGED <<cron, from, search>>

\* The beginning of the next hour.
nextHour == /\ Searching /\ MonthOK /\ DayOK /\ ~HourOK
            /\ t' = (t \div MinutesPerHour + 1) * MinutesPerHour
            /\ UNCHANGED <<cron, from, search>>

nextMinute == /\ Searching /\ MonthOK /\ DayOK /\ HourOK /\ Minute(t) \notin cron.minutes
              /\ t' = t + 1
              /\ UNCHANGED <<cron, from, search>>

found == /\ Searching /\ MonthOK /\ DayOK /\ HourOK /\ Minute(t) \in cron.minutes
         /\ search' = "found"
         /\ UNCHANGED <<cron, from, t>>

noMatch == /\ search = "running" /\ ~(t < from + 1 + SearchLimit)
           /\ search' = "none"
           /\ UNCHANGED <<cron, from, t>>

CronNext == advanceToNextMonth \/ nextDay \/ nextHour \/ nextMinute \/ found \/ noMatch

CronSpec == CronInit /\ [][CronNext]_cronVars

----------------------------------------------------------------------------
\* What a cron expression means: every field matches.
Matches(u) == /\ Minute(u) \in cron.minutes /\ Hour(u) \in cron.hours
              /\ Day(u) \in cron.days /\ Month(u) \in cron.months /\ Weekday(u) \in cron.weekdays

\* Next returns the least matching minute after its argument, whatever is jumped over on the way
\* (months of different length, the end of the year, the first minute after a jump), and finds none
\* only when none lies within the limit.
NextIsLeast ==
    /\ search = "found" => Matches(t) /\ \A u \in (from + 1)..(t - 1) : ~Matches(u)
    /\ search = "none"  => \A u \in (from + 1)..(from + SearchLimit) : ~Matches(u)

=============================================================================
