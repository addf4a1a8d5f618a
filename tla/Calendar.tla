------------------------------- MODULE Calendar -------------------------------
(***************************************************************************)
(* Working time (src/backend/app/flow/calendar.py).  Constant definitions  *)
(* only.  A moment is a number of ticks, a day the number of its first     *)
(* tick divided by DayLen; everything is in UTC, as in the code.           *)
(*                                                                         *)
(* There are three kinds of day.  An optional day counts where work was    *)
(* recorded on it: `worked`, a parameter everywhere, is the set of         *)
(* optional days for which that is known.                                  *)
(***************************************************************************)
EXTENDS Integers, FiniteSets, FiniteSetsExt, Functions

CONSTANTS
    DayLen,         \* ticks in a day
    FirstWeekday,   \* ISO weekday of day 0
    WeekendDays,    \* ISO weekdays never worked
    OptionalDays,   \* ISO weekdays worked only when somebody did
    Holidays        \* days

ASSUME CalendarAssumption ==
    /\ DayLen \in Nat \ {0}
    /\ FirstWeekday \in 1 .. 7
    /\ WeekendDays \cup OptionalDays \subseteq 1 .. 7
    /\ Holidays \subseteq Int

DayOf(t) == t \div DayLen
Isoweekday(d) == ((d + FirstWeekday - 1) % 7) + 1

IsOptional(d) == Isoweekday(d) \in OptionalDays

IsWorkingDay(d, worked) ==
    /\ Isoweekday(d) \notin WeekendDays
    /\ d \notin Holidays
    /\ IsOptional(d) => d \in worked

\* Both ends count.
WorkingDaysBetween(first, last, worked) ==
    Cardinality({d \in first .. last : IsWorkingDay(d, worked)})

\* resolve_optional_days: of the days with activity, the optional ones
Resolved(first, last, active) == {d \in first .. last : IsOptional(d)} \cap active

Overlap_Unclipped(d, start, end) == IF DayOf(end) = d THEN end - d * DayLen ELSE DayLen
\* The part of day d that lies between the two moments.
Overlap(d, start, end) ==
    Max({0, Min({end, (d + 1) * DayLen}) - Max({start, d * DayLen})})

WorkingDuration(start, end, worked) ==
    IF end <= start THEN 0
    ELSE LET days == {d \in DayOf(start) .. DayOf(end) : IsWorkingDay(d, worked)}
         IN SumFunction([d \in days |-> Overlap(d, start, end)])

\* What it is meant to be: the ticks in between that fall on working days.
WorkingTicks(start, end, worked) ==
    {t \in start .. end - 1 : IsWorkingDay(DayOf(t), worked)}

\* Time is counted tick by tick on working days and nowhere else
\* (working_duration), however the two moments lie in their days and whatever
\* optional days were worked.
CountsTicks(start, end, worked) ==
    WorkingDuration(start, end, worked) = Cardinality(WorkingTicks(start, end, worked))

==============================================================================
