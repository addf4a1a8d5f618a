------------------------------- MODULE Questions -------------------------------
(***************************************************************************)
(* The functions of the code that have no state, asked one question at a   *)
(* time: `asked` is the input of one of them, and the answer is compared   *)
(* with what it should be.  Calendar, Timing and Forecast have both.       *)
(***************************************************************************)
EXTENDS Calendar, Timing, Forecast

CONSTANTS
    Moments,  \* what a form can state, in minutes
    Arrivals, \* when a form can arrive, in minutes
    Offsets,  \* what its browser can report
    Ticks,    \* where an interval can begin and end
    Sizes     \* how large a cohort can be

\* What is assumed of the constants; MCRecords has it checked.
QuestionsAssumption ==
    /\ Moments \subseteq Int /\ Arrivals \subseteq Int /\ Ticks \subseteq Int
    /\ Sizes \subseteq Nat \ {0}

VARIABLE asked

OptionalOnes == {d \in {DayOf(t) : t \in Ticks} : IsOptional(d)}

\* Two entries on a form, an interval of working time, a cohort.
AllQuestions ==
    [of: {"form"}, now: Arrivals, later: Arrivals, a: Moments, b: Moments, offset: Offsets]
    \cup [of: {"interval"}, start: Ticks, end: Ticks, worked: SUBSET OptionalOnes]
    \cup [of: {"cohort"}, size: Sizes]

InitQuestions == asked = Null

NextQuestions == asked = Null /\ asked' \in AllQuestions

SpecQuestions == InitQuestions /\ [][NextQuestions]_asked

-----------------------------------------------------------------------------
(* Properties *)

Asked(of) == asked # Null /\ asked.of = of

\* What the browser's clock showed at the moment.
Reading(moment) == moment - Shift(asked.offset)

\* An accepted time is the moment that was meant, whichever clock it was read
\* on, and two entries keep their order (parse_when).
StatedTimesAreKept ==
    Asked("form") =>
        /\ KeepsTheMoment(asked.now, asked.a, asked.offset)
        /\ KeepsTheOrder(asked.now, asked.later, Reading(asked.a), Reading(asked.b), asked.offset)

\* Working time is counted tick by tick on working days (working_duration).
WorkingTimeIsExact ==
    Asked("interval") => CountsTicks(asked.start, asked.end, asked.worked)

\* Each percentile a forecast asks for is the first item that is high enough, and
\* the 85th is not the slowest once there are MIN_SAMPLE (forecast, percentile).
RanksAreExact ==
    Asked("cohort") =>
        /\ \A p \in Percentages : RankIsExact(p, asked.size)
        /\ OutlierIsNotTheBound(asked.size)

=============================================================================
