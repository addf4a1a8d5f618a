---------------------------- MODULE FiguresProofs ----------------------------
(***************************************************************************)
(* What is made of the records, for every calendar, every history and      *)
(* every form: working time, the figures of an item, the statistics, the   *)
(* warnings and the stated times.                                          *)
(*                                                                         *)
(* Sources: src/backend/app/flow/calendar.py, timeline.py, statistics.py,  *)
(* attention.py, src/backend/app/work/timing.py                            *)
(***************************************************************************)
EXTENDS Figures, Questions, SumTheorems, TLAPS

-----------------------------------------------------------------------------
(* Stated times *)

\* There is one question, and it is one of those that can be asked.
LEMMA AskedOnce == SpecQuestions => [](asked \in AllQuestions \cup {Null})
<1>1. InitQuestions => asked \in AllQuestions \cup {Null}
  BY DEF InitQuestions
<1>2. asked \in AllQuestions \cup {Null} /\ [NextQuestions]_asked
        => (asked \in AllQuestions \cup {Null})'
  <2>1. AllQuestions' = AllQuestions
    BY DEF AllQuestions
  <2> QED BY <2>1 DEF NextQuestions
<1> QED BY <1>1, <1>2, PTL DEF SpecQuestions

\* Whatever a browser reports is a number of minutes or taken for none.
LEMMA ShiftIsInt == \A offset : Shift(offset) \in Int
<1> SUFFICES ASSUME NEW offset PROVE Shift(offset) \in Int
  OBVIOUS
<1>1. CASE offset \in RealOffsets
  <2>1. Shift(offset) = offset
    BY <1>1 DEF Shift
  <2>2. offset \in Int
    BY <1>1 DEF RealOffsets
  <2> QED BY <2>1, <2>2
<1>2. CASE offset \notin RealOffsets
  <2>1. Shift(offset) = 0
    BY <1>2 DEF Shift
  <2> QED BY <2>1
<1> QED BY <1>1, <1>2

\* An accepted time is within the last fortnight and not ahead of the clock,
\* and one moment is one time, whatever clock it was read on (parse_when).
THEOREM EveryMomentIsKept ==
    \A sent, moment \in Int : \A offset \in RealOffsets \cup {NoOffset} :
        KeepsTheMoment(sent, moment, offset)
<1> SUFFICES ASSUME NEW sent \in Int, NEW moment \in Int, NEW offset \in RealOffsets
             PROVE  KeepsTheMoment(sent, moment, offset)
  BY DEF KeepsTheMoment
<1>1. offset \in Int /\ MaxBackdate \in Nat /\ ClockSkew \in Nat
  BY TimingAssumption DEF RealOffsets
<1>2. Stated(FALSE, moment - offset, offset) = moment
  BY <1>1 DEF Stated, Shift
<1>3. Stated(TRUE, moment, NoOffset) = moment
  BY <1>1 DEF Stated
<1>4. ~ Refused(moment, sent) => /\ Clamped(moment, sent) \in sent - MaxBackdate .. sent
                                  /\ moment - Clamped(moment, sent) \in 0 .. ClockSkew
  BY <1>1 DEF Refused, Clamped
<1> QED BY <1>2, <1>3, <1>4 DEF KeepsTheMoment, ParseWhen, IsAccepted

\* Entries made on one clock keep their order, also when the later one is
\* entered later and corrected (parse_when).
THEOREM OrderIsAlwaysKept ==
    \A sent, later, a, b \in Int : \A offset : KeepsTheOrder(sent, later, a, b, offset)
<1> SUFFICES ASSUME NEW sent \in Int, NEW later \in Int, NEW a \in Int, NEW b \in Int,
                    NEW offset, sent <= later, a <= b
             PROVE  ParseWhen(FALSE, a, offset, sent) <= ParseWhen(FALSE, b, offset, later)
  BY DEF KeepsTheOrder
<1>1. Shift(offset) \in Int
  BY ShiftIsInt
<1>2. PICK s \in Int : s = Shift(offset)
  BY <1>1
<1> QED BY <1>2 DEF ParseWhen, Stated, Clamped

\* Whatever is stated, whenever it arrives and whatever the browser reports of
\* its clock, an accepted time is the moment that was meant and keeps its place
\* (parse_when).
THEOREM StatedTimesAreAlwaysKept ==
    ASSUME QuestionsAssumption
    PROVE  SpecQuestions => []StatedTimesAreKept
<1>1. asked \in AllQuestions \cup {Null} => StatedTimesAreKept
  <2> SUFFICES ASSUME asked \in AllQuestions, asked.of = "form"
               PROVE  /\ KeepsTheMoment(asked.now, asked.a, asked.offset)
                      /\ KeepsTheOrder(asked.now, asked.later, Reading(asked.a),
                                       Reading(asked.b), asked.offset)
    BY DEF StatedTimesAreKept, Asked
  <2>1. /\ asked.now \in Int /\ asked.later \in Int /\ asked.a \in Int /\ asked.b \in Int
    BY DEF AllQuestions, QuestionsAssumption
  <2>2. Shift(asked.offset) \in Int
    BY ShiftIsInt
  <2>3. Reading(asked.a) \in Int /\ Reading(asked.b) \in Int
    BY <2>1, <2>2 DEF Reading
  <2>4. KeepsTheMoment(asked.now, asked.a, asked.offset)
    <3>1. CASE asked.offset \in RealOffsets
      BY <2>1, <3>1, EveryMomentIsKept
    <3> QED BY <3>1 DEF KeepsTheMoment
  <2> QED BY <2>1, <2>3, <2>4, OrderIsAlwaysKept
<1> QED BY <1>1, AskedOnce, PTL

-----------------------------------------------------------------------------
(* Working time *)

\* The larger of two numbers,
LEMMA MaxOfTwo ==
    ASSUME NEW a \in Int, NEW b \in Int
    PROVE  Max({a, b}) = IF a >= b THEN a ELSE b
BY DEF Max

\* and the smaller.
LEMMA MinOfTwo ==
    ASSUME NEW a \in Int, NEW b \in Int
    PROVE  Min({a, b}) = IF a <= b THEN a ELSE b
BY DEF Min

\* Some counting numbers have a smallest.
LEMMA MinOfSome ==
    ASSUME NEW S \in SUBSET Nat, S # {}
    PROVE  Min(S) \in S /\ \A x \in S : Min(S) <= x
<1> DEFINE G == {m \in Nat : (\E x \in S : x <= m) => \E x \in S : \A y \in S : x <= y}
<1>1. 0 \in G
  OBVIOUS
<1>2. ASSUME NEW m \in Nat, m \in G
      PROVE  m + 1 \in G
  <2>1. CASE \E x \in S : x <= m
    BY <1>2, <2>1
  <2>2. CASE ~ \E x \in S : x <= m
    <3>1. \A x \in S : x >= m + 1
      BY <2>2
    <3> QED BY <3>1
  <2> QED BY <2>1, <2>2
<1> HIDE DEF G
<1>3. Nat \subseteq G
  BY <1>1, <1>2, CountingUp
<1>4. \E x \in S : \A y \in S : x <= y
  <2>1. PICK z \in S : TRUE
    OBVIOUS
  <2>2. z \in Nat /\ z <= z
    OBVIOUS
  <2> QED BY <1>3, <2>2 DEF G
<1> QED BY <1>4 DEF Min

\* The day of a moment is the one it lies in.
LEMMA DayOfTick ==
    ASSUME NEW t \in Int
    PROVE  DayOf(t) \in Int /\ DayOf(t) * DayLen <= t /\ t < (DayOf(t) + 1) * DayLen
<1>1. DayLen \in Int /\ DayLen > 0
  BY CalendarAssumption
<1> QED BY <1>1 DEF DayOf

\* And no other.
LEMMA OneDayOnly ==
    ASSUME NEW t \in Int, NEW d \in Int, d * DayLen <= t, t < (d + 1) * DayLen
    PROVE  DayOf(t) = d
<1>1. DayLen \in Int /\ DayLen > 0
  BY CalendarAssumption
<1>2. /\ DayOf(t) \in Int /\ DayOf(t) * DayLen <= t
      /\ t < (DayOf(t) + 1) * DayLen
  BY DayOfTick
<1> DEFINE e == DayOf(t)
<1> HIDE DEF e
<1>3. e \in Int /\ e * DayLen < (d + 1) * DayLen /\ d * DayLen < (e + 1) * DayLen
  BY <1>1, <1>2 DEF e
<1>4. ~ (e >= d + 1)
  <2> SUFFICES ASSUME e >= d + 1 PROVE FALSE
    OBVIOUS
  <2>1. e * DayLen >= (d + 1) * DayLen
    BY <1>1, <1>3
  <2> QED BY <1>1, <1>3, <2>1
<1>5. ~ (d >= e + 1)
  <2> SUFFICES ASSUME d >= e + 1 PROVE FALSE
    OBVIOUS
  <2>1. d * DayLen >= (e + 1) * DayLen
    BY <1>1, <1>3
  <2> QED BY <1>1, <1>3, <2>1
<1> QED BY <1>3, <1>4, <1>5 DEF e

\* Days go forward with time.
LEMMA DaysForward ==
    ASSUME NEW s \in Int, NEW t \in Int, s <= t
    PROVE  DayOf(s) <= DayOf(t)
<1>1. DayLen \in Int /\ DayLen > 0
  BY CalendarAssumption
<1> DEFINE c == DayOf(s)
           e == DayOf(t)
<1>2. c \in Int /\ e \in Int /\ c * DayLen <= s /\ t < (e + 1) * DayLen
  BY DayOfTick
<1> HIDE DEF c, e
<1> SUFFICES ASSUME c >= e + 1 PROVE FALSE
  BY <1>2 DEF c, e
<1>3. c * DayLen >= (e + 1) * DayLen
  BY <1>1, <1>2
<1>4. c * DayLen \in Int /\ (e + 1) * DayLen \in Int
  BY <1>1, <1>2
<1> QED BY <1>1, <1>2, <1>3, <1>4

\* The ticks of day d between two moments.
TicksOn(d, start, end) == {t \in start .. end - 1 : DayOf(t) = d}

\* What the code counts of a day is the number of its ticks (working_duration).
LEMMA OverlapIsExact ==
    ASSUME NEW start \in Int, NEW end \in Int, start < end,
           NEW d \in Int
    PROVE  /\ IsFiniteSet(TicksOn(d, start, end))
           /\ Overlap(d, start, end) = Cardinality(TicksOn(d, start, end))
<1> DEFINE lo == IF start >= d * DayLen THEN start ELSE d * DayLen
           hi == IF end <= (d + 1) * DayLen THEN end ELSE (d + 1) * DayLen
<1>1. DayLen \in Int /\ DayLen > 0
  BY CalendarAssumption
<1>2. PICK x \in Int : x = d * DayLen
  BY <1>1
<1>3. PICK y \in Int : y = (d + 1) * DayLen
  BY <1>1
<1>4. lo \in Int /\ hi \in Int
  BY <1>2, <1>3
<1>5. TicksOn(d, start, end) = lo .. hi - 1
  <2>1. ASSUME NEW t \in Int
        PROVE  DayOf(t) = d <=> x <= t /\ t < y
    BY <1>2, <1>3, DayOfTick, OneDayOnly
  <2>2. \A t : t \in TicksOn(d, start, end) <=> t \in start .. end - 1 /\ x <= t /\ t < y
    BY <2>1 DEF TicksOn
  <2>3. \A t : t \in lo .. hi - 1 <=> t \in start .. end - 1 /\ x <= t /\ t < y
    BY <1>2, <1>3
  <2> QED BY <2>2, <2>3
<1>6. Overlap(d, start, end) = IF hi - lo >= 0 THEN hi - lo ELSE 0
  <2>1. Max({start, d * DayLen}) = lo /\ Min({end, (d + 1) * DayLen}) = hi
    BY <1>2, <1>3, MaxOfTwo, MinOfTwo
  <2> HIDE DEF lo, hi
  <2>2. Max({0, hi - lo}) = IF 0 >= hi - lo THEN 0 ELSE hi - lo
    BY <1>4, MaxOfTwo
  <2>3. Overlap(d, start, end) = Max({0, hi - lo})
    BY <2>1 DEF Overlap
  <2> QED BY <1>4, <2>2, <2>3
<1> HIDE DEF lo, hi
<1>7. /\ IsFiniteSet(lo .. hi - 1)
      /\ Cardinality(lo .. hi - 1) = IF lo > hi - 1 THEN 0 ELSE (hi - 1) - lo + 1
  BY <1>4, FS_Interval
<1> QED BY <1>4, <1>5, <1>6, <1>7

\* Working time is the ticks in between that fall on working days, whatever
\* the calendar, the two moments and the optional days (working_duration).
THEOREM WorkingTimeCountsTicks ==
    \A start, end \in Int : \A worked : CountsTicks(start, end, worked)
<1> SUFFICES ASSUME NEW start \in Int, NEW end \in Int, NEW worked
             PROVE  WorkingDuration(start, end, worked)
                      = Cardinality(WorkingTicks(start, end, worked))
  BY DEF CountsTicks
<1>1. CASE end <= start
  <2>1. WorkingTicks(start, end, worked) = {}
    BY <1>1 DEF WorkingTicks
  <2> QED BY <1>1, <2>1, FS_EmptySet DEF WorkingDuration
<1>2. CASE start < end
  <2> DEFINE days == {d \in DayOf(start) .. DayOf(end) : IsWorkingDay(d, worked)}
             ticks == [d \in days |-> TicksOn(d, start, end)]
             overlap == [d \in days |-> Overlap(d, start, end)]
  <2>1. IsFiniteSet(days) /\ days \subseteq Int
    <3> DEFINE span == DayOf(start) .. DayOf(end)
    <3>1. DayOf(start) \in Int /\ DayOf(end) \in Int
      BY DayOfTick
    <3>2. IsFiniteSet(span) /\ span \subseteq Int
      BY <3>1, FS_Interval
    <3>3. days \subseteq span
      OBVIOUS
    <3> HIDE DEF span, days
    <3> QED BY <3>2, <3>3, FS_Subset
  <2>2. \A d \in days : IsFiniteSet(ticks[d])
    BY <1>2, <2>1, OverlapIsExact
  <2>7. \A d \in days : overlap[d] = Cardinality(ticks[d])
    BY <1>2, <2>1, OverlapIsExact
  <2>3. \A d, e \in days : d # e => ticks[d] \cap ticks[e] = {}
    BY DEF TicksOn
  <2>4. \A t : t \in WorkingTicks(start, end, worked) <=> \E d \in days : t \in ticks[d]
    <3>1. ASSUME NEW t \in WorkingTicks(start, end, worked)
          PROVE  DayOf(t) \in days /\ t \in ticks[DayOf(t)]
      <4>1. t \in Int /\ start <= t /\ t <= end /\ IsWorkingDay(DayOf(t), worked)
            /\ t \in start .. end - 1
        BY DEF WorkingTicks
      <4>2. DayOf(t) \in DayOf(start) .. DayOf(end)
        BY <4>1, DayOfTick, DaysForward
      <4> QED BY <4>1, <4>2 DEF TicksOn
    <3>2. ASSUME NEW d \in days, NEW t \in ticks[d]
          PROVE  t \in WorkingTicks(start, end, worked)
      BY DEF TicksOn, WorkingTicks
    <3> HIDE DEF ticks, days
    <3> QED BY <3>1, <3>2
  <2>5. WorkingDuration(start, end, worked) = SumFunctionOnSet(overlap, days)
    <3>1. WorkingDuration(start, end, worked) = SumFunction(overlap)
      BY <1>2 DEF WorkingDuration
    <3>2. DOMAIN overlap = days
      OBVIOUS
    <3> HIDE DEF overlap, days
    <3> QED BY <3>1, <3>2, SumOfAll
  <2> HIDE DEF ticks, days, overlap
  <2> DEFINE U == WorkingTicks(start, end, worked)
  <2>8. \A t : t \in U <=> \E d \in days : t \in ticks[d]
    BY <2>4
  <2> HIDE DEF U
  <2>9. IsFiniteSet(days) /\ Parts(ticks, days, U)
    BY <2>1, <2>2, <2>3, <2>8 DEF Parts
  <2>6. SumFunctionOnSet(overlap, days) = Cardinality(U)
    BY <2>9, <2>7, CountByParts
  <2> QED BY <2>5, <2>6 DEF U
<1> QED BY <1>1, <1>2

\* The same of the intervals that are asked about (working_duration).
THEOREM WorkingTimeIsAlwaysExact ==
    ASSUME QuestionsAssumption
    PROVE  SpecQuestions => []WorkingTimeIsExact
<1>1. asked \in AllQuestions \cup {Null} => WorkingTimeIsExact
  <2> SUFFICES ASSUME asked \in AllQuestions, asked.of = "interval"
               PROVE  CountsTicks(asked.start, asked.end, asked.worked)
    BY DEF WorkingTimeIsExact, Asked
  <2>1. asked.start \in Int /\ asked.end \in Int
    BY DEF AllQuestions, QuestionsAssumption
  <2> QED BY <2>1, WorkingTimeCountsTicks
<1> QED BY <1>1, AskedOnce, PTL

\* Working time is never negative, and no more than the time itself.
LEMMA WorkingTimeBounds ==
    ASSUME NEW w, NEW a \in Int, NEW b \in Int
    PROVE  /\ WorkingDuration(a, b, w) \in Nat
           /\ a <= b => WorkingDuration(a, b, w) <= b - a
           /\ b <= a => WorkingDuration(a, b, w) = 0
<1> DEFINE ticks == WorkingTicks(a, b, w)
           all == a .. b - 1
<1>1. ticks \subseteq all
  BY DEF WorkingTicks
<1>2. IsFiniteSet(all) /\ Cardinality(all) = IF a > b - 1 THEN 0 ELSE (b - 1) - a + 1
  BY FS_Interval
<1>3. WorkingDuration(a, b, w) = Cardinality(ticks)
  BY WorkingTimeCountsTicks DEF CountsTicks
<1> HIDE DEF ticks, all
<1>4. Cardinality(ticks) \in Nat /\ Cardinality(ticks) <= Cardinality(all)
  BY <1>1, <1>2, FS_Subset, FS_CardinalityType
<1>5. b <= a => WorkingDuration(a, b, w) = 0
  BY DEF WorkingDuration
<1> QED BY <1>2, <1>3, <1>4, <1>5

\* A longer time has no less working time, and more optional days do not take any.
LEMMA WorkingTimeGrows ==
    ASSUME NEW a \in Int, NEW b \in Int, NEW c \in Int, b <= c, NEW w, NEW w2, w \subseteq w2
    PROVE  /\ WorkingDuration(a, b, w) \in Int /\ WorkingDuration(a, c, w2) \in Int
           /\ WorkingDuration(a, b, w) <= WorkingDuration(a, c, w2)
<1> DEFINE S == WorkingTicks(a, b, w)
           T == WorkingTicks(a, c, w2)
<1>1. S \subseteq T /\ T \subseteq a .. c - 1
  BY DEF WorkingTicks, IsWorkingDay
<1>2. WorkingDuration(a, b, w) = Cardinality(S) /\ WorkingDuration(a, c, w2) = Cardinality(T)
  BY WorkingTimeCountsTicks DEF CountsTicks
<1>3. IsFiniteSet(a .. c - 1)
  BY FS_Interval
<1> HIDE DEF S, T
<1>4. IsFiniteSet(T) /\ IsFiniteSet(S) /\ Cardinality(S) <= Cardinality(T)
  BY <1>1, <1>3, FS_Subset
<1> QED BY <1>2, <1>4, FS_CardinalityType

\* Working time may be cut anywhere: no tick is lost or counted twice where two
\* spans meet (working_duration).
THEOREM WorkingTimeAdds ==
    ASSUME NEW w, NEW a \in Int, NEW b \in Int, NEW c \in Int, a <= b, b <= c
    PROVE  WorkingDuration(a, c, w) = WorkingDuration(a, b, w) + WorkingDuration(b, c, w)
<1> DEFINE first == WorkingTicks(a, b, w)
           second == WorkingTicks(b, c, w)
           both == WorkingTicks(a, c, w)
<1>1. both = first \cup second /\ first \cap second = {}
  BY DEF WorkingTicks
<1>2. IsFiniteSet(first) /\ IsFiniteSet(second)
  <2>1. /\ IsFiniteSet(a .. b - 1) /\ first \subseteq a .. b - 1
        /\ IsFiniteSet(b .. c - 1) /\ second \subseteq b .. c - 1
    BY FS_Interval DEF WorkingTicks
  <2> HIDE DEF first, second
  <2> QED BY <2>1, FS_Subset
<1>3. /\ WorkingDuration(a, b, w) = Cardinality(first)
      /\ WorkingDuration(b, c, w) = Cardinality(second)
      /\ WorkingDuration(a, c, w) = Cardinality(both)
  BY WorkingTimeCountsTicks DEF CountsTicks
<1> HIDE DEF first, second, both
<1>4. Cardinality(first \cup second) =
        Cardinality(first) + Cardinality(second) - Cardinality(first \cap second)
  BY <1>2, FS_Union
<1>5. Cardinality(first) \in Nat /\ Cardinality(second) \in Nat
  BY <1>2, FS_CardinalityType
<1>6. Cardinality(first \cap second) = 0
  BY <1>1, FS_EmptySet
<1>7. Cardinality(both) = Cardinality(first) + Cardinality(second)
  BY <1>1, <1>4, <1>5, <1>6
<1> QED BY <1>3, <1>7

-----------------------------------------------------------------------------
(* Histories *)

\* The last of some events is one of them.
LEMMA LastIsEvent ==
    ASSUME NEW h \in Seq(Event), h # <<>>
    PROVE  /\ LastOf(h) \in Event /\ LastOf(h).at \in Int
           /\ Len(h) \in Nat \ {0}
<1>1. LastOf(h) \in Event /\ Len(h) \in Nat \ {0}
  BY DEF LastOf
<1> QED BY <1>1, HistoryAssumption DEF Event, Time

\* A legal step, dated no earlier than the last one, makes a history again.
LEMMA OneMoreEvent ==
    ASSUME NEW h, IsHistory(h), h # <<>>, NEW e \in Event,
           e.to \in ALLOWED[LastOf(h).to], e.from = LastOf(h).to,
           LastOf(h).at <= e.at
    PROVE  /\ IsHistory(Append(h, e)) /\ Append(h, e) \in Seq(Event)
           /\ LastOf(Append(h, e)) = e
<1> DEFINE g == Append(h, e)
<1>1. h \in Seq(Event) /\ h[1].to = "NEW"
  BY DEF IsHistory
<1>2. /\ g \in Seq(Event) /\ Len(g) = Len(h) + 1 /\ g[Len(h) + 1] = e
      /\ \A k \in 1 .. Len(h) : g[k] = h[k]
      /\ Len(h) \in Nat /\ Len(h) >= 1
  BY <1>1
<1> HIDE DEF g
<1>3. g # <<>> /\ g[1].to = "NEW" /\ LastOf(g) = e
  BY <1>1, <1>2 DEF LastOf
<1>4. ASSUME NEW k \in 1 .. Len(g) - 1
      PROVE  /\ g[k + 1].to \in ALLOWED[g[k].to]
             /\ g[k + 1].from = g[k].to
             /\ g[k].at <= g[k + 1].at
  <2>1. CASE k = Len(h)
    BY <1>2, <2>1 DEF LastOf
  <2>2. CASE k # Len(h)
    <3>1. k \in 1 .. Len(h) - 1 /\ k + 1 \in 1 .. Len(h) /\ k \in 1 .. Len(h)
      BY <1>2, <2>2
    <3> QED BY <1>2, <3>1 DEF IsHistory
  <2> QED BY <2>1, <2>2
<1> QED BY <1>2, <1>3, <1>4 DEF IsHistory, g

\* Every history begins with NEW, takes only the steps the lifecycle allows,
\* and is in order (check_transition, _append_event).
THEOREM HistoriesAreInOrder == Spec => []HistoryInv
<1>1. Init => HistoryInv
  BY HistoryAssumption DEF Init, HistoryInv, IsHistory, Time
<1>2. HistoryInv /\ [Next]_vars => HistoryInv'
  <2> SUFFICES ASSUME HistoryInv, [Next]_vars PROVE HistoryInv'
    OBVIOUS
  <2> USE HistoryAssumption
  <2>1. CASE UNCHANGED vars
    BY <2>1 DEF HistoryInv, vars
  <2>2. CASE Tick
    <3>1. now' \in Time /\ now <= now' /\ history' = history /\ now \in Int
      BY <2>2 DEF Tick, HistoryInv, Time
    <3>2. ASSUME NEW j \in Items, history[j] # <<>>
          PROVE  LastOf(history[j]).at <= now'
      <4>1. history[j] \in Seq(Event)
        BY DEF HistoryInv
      <4>2. LastOf(history[j]).at <= now
        BY <3>2 DEF HistoryInv
      <4>3. LastOf(history[j]).at \in Int
        BY <3>2, <4>1, LastIsEvent
      <4> QED BY <3>1, <4>2, <4>3 DEF Time
    <3> QED BY <3>1, <3>2 DEF HistoryInv
  <2>3. ASSUME NEW i \in Items, NEW at \in Time, NEW given, Record(i, at, given)
        PROVE  HistoryInv'
    <3> DEFINE e == [from |-> None, to |-> "NEW", at |-> at, displacer |-> None]
    <3>1. e \in Event
      BY DEF Event, State
    <3>2. e.to = "NEW" /\ e.at = at
      OBVIOUS
    <3>3. /\ history' = [history EXCEPT ![i] = <<e>>] /\ now' = now /\ at <= now
      BY <2>3 DEF Record
    <3> HIDE DEF e
    <3>4. IsHistory(<<e>>) /\ <<e>> \in Seq(Event) /\ LastOf(<<e>>) = e
      BY <3>1, <3>2 DEF IsHistory, LastOf
    <3>5. history' \in [Items -> Seq(Event)]
      BY <3>3, <3>4 DEF HistoryInv
    <3> QED BY <3>2, <3>3, <3>4, <3>5 DEF HistoryInv
  <2>4. ASSUME NEW i \in Items, NEW at \in Time, NEW to \in State,
               NEW d \in Items \cup {None}, Move(i, to, at, d)
        PROVE  HistoryInv'
    <3> DEFINE h == history[i]
               e == [from |-> LastOf(h).to, to |-> to, at |-> at, displacer |-> d]
               g == Append(h, e)
    <3>1. h \in Seq(Event) /\ h # <<>> /\ IsHistory(h)
      <4>1. h # <<>>
        BY <2>4 DEF Move
      <4>2. h \in Seq(Event) /\ IsHistory(h)
        BY DEF HistoryInv
      <4> QED BY <4>1, <4>2
    <3>2. /\ history' = [history EXCEPT ![i] = g] /\ now' = now
          /\ at <= now /\ LastOf(h).at <= at /\ to \in ALLOWED[LastOf(h).to]
      BY <2>4 DEF Move, HistoryInv
    <3>3. e \in Event
      BY <3>1, LastIsEvent DEF Event
    <3>4. e.to = to /\ e.from = LastOf(h).to /\ e.at = at
      OBVIOUS
    <3> HIDE DEF h, e
    <3>5. IsHistory(g) /\ g \in Seq(Event) /\ LastOf(g) = e
      BY <3>1, <3>2, <3>3, <3>4, OneMoreEvent
    <3> HIDE DEF g
    <3>6. history' \in [Items -> Seq(Event)]
      BY <3>2, <3>5 DEF HistoryInv
    <3> QED BY <3>2, <3>4, <3>5, <3>6 DEF HistoryInv
  <2>5. ASSUME NEW i \in Items, NEW at \in Time, NEW p \in People, Give(i, p, at)
        PROVE  HistoryInv'
    BY <2>5 DEF Give, HistoryInv
  <2> QED BY <2>1, <2>2, <2>3, <2>4, <2>5 DEF Next
<1> QED BY <1>1, <1>2, PTL DEF Spec

\* What a history is, entry by entry.
LEMMA Entry ==
    ASSUME NEW h, IsHistory(h), h # <<>>
    PROVE  /\ Len(h) \in Nat /\ Len(h) >= 1 /\ DOMAIN h = 1 .. Len(h)
           /\ h[1].to = "NEW"
           /\ \A k \in 1 .. Len(h) : h[k].at \in Nat /\ h[k].at \in Int /\ h[k].to \in State
           /\ \A k \in 1 .. Len(h) : k # Len(h) => /\ h[k + 1].to \in ALLOWED[h[k].to]
                                                   /\ h[k + 1].from = h[k].to
                                                   /\ h[k].at <= h[k + 1].at
           /\ LastOf(h) = h[Len(h)]
<1>1. h \in Seq(Event)
  BY DEF IsHistory
<1>2. Len(h) \in Nat /\ Len(h) >= 1 /\ DOMAIN h = 1 .. Len(h) /\ h[1].to = "NEW"
  BY <1>1 DEF IsHistory
<1>3. ASSUME NEW k \in 1 .. Len(h)
      PROVE  h[k].at \in Nat /\ h[k].at \in Int /\ h[k].to \in State
  <2>1. h[k] \in Event
    BY <1>1
  <2> QED BY <2>1, HistoryAssumption DEF Event, Time
<1>4. ASSUME NEW k \in 1 .. Len(h), k # Len(h)
      PROVE  /\ h[k + 1].to \in ALLOWED[h[k].to]
             /\ h[k + 1].from = h[k].to
             /\ h[k].at <= h[k + 1].at
  <2>1. PICK n \in Nat : n = Len(h)
    BY <1>2
  <2>2. k \in 1 .. n - 1
    BY <1>4, <2>1
  <2> QED BY <2>1, <2>2 DEF IsHistory
<1> QED BY <1>2, <1>3, <1>4 DEF LastOf

\* Later entries are dated later.
LEMMA LaterIsLater ==
    ASSUME NEW h, IsHistory(h), h # <<>>,
           NEW j \in 1 .. Len(h), NEW k \in 1 .. Len(h), j <= k
    PROVE  h[j].at <= h[k].at
<1> DEFINE G == {m \in Nat : j + m <= Len(h) => h[j].at <= h[j + m].at}
<1>1. 0 \in G
  BY Entry
<1>2. ASSUME NEW m \in Nat, m \in G
      PROVE  m + 1 \in G
  <2> SUFFICES ASSUME j + (m + 1) <= Len(h) PROVE h[j].at <= h[j + (m + 1)].at
    OBVIOUS
  <2>1. PICK a \in Int : a = j + m
    OBVIOUS
  <2>2. a \in 1 .. Len(h) /\ a # Len(h) /\ a + 1 \in 1 .. Len(h) /\ a + 1 = j + (m + 1)
    BY <2>1, Entry
  <2>3. h[j].at <= h[a].at
    BY <1>2, <2>1, <2>2, Entry
  <2>4. h[a].at <= h[a + 1].at /\ h[j].at \in Int /\ h[a].at \in Int /\ h[a + 1].at \in Int
    BY <2>2, Entry
  <2> QED BY <2>2, <2>3, <2>4
<1> HIDE DEF G
<1>3. Nat \subseteq G
  BY <1>1, <1>2, CountingUp
<1>4. k - j \in Nat /\ j + (k - j) = k /\ k <= Len(h)
  BY Entry
<1> QED BY <1>3, <1>4 DEF G

\* NEW comes first only, a terminal state last only, and the states that come
\* after the start of work come after it at once (lifecycle.ALLOWED).
LEMMA PlaceInHistory ==
    ASSUME NEW h, IsHistory(h), h # <<>>, NEW k \in 1 .. Len(h)
    PROVE  /\ h[k].to = "NEW" => k = 1
           /\ h[k].to \in TERMINAL => k = Len(h)
           /\ h[k].to \in {"ON_HOLD_PREEMPTED", "IN_VERIFICATION"} =>
                 k # 1 /\ h[k - 1].to = "IN_PROGRESS"
           /\ h[k].to = "DONE" => k # 1 /\ h[k - 1].to # "BLOCKED_ON_CLIENT"
<1>1. CASE k = 1
  <2>1. h[k].to = "NEW"
    BY <1>1, Entry
  <2>2. "NEW" \notin TERMINAL
    BY DEF TERMINAL
  <2> QED BY <1>1, <2>1, <2>2
<1>2. CASE k # 1
  <2>1. PICK j \in 1 .. Len(h) : j # Len(h) /\ k = j + 1 /\ j = k - 1
    BY <1>2, Entry
  <2>2. h[k].to \in ALLOWED[h[j].to] /\ h[j].to \in State
    BY <2>1, Entry
  <2>3. \A s \in State :
           /\ "NEW" \notin ALLOWED[s]
           /\ "ON_HOLD_PREEMPTED" \in ALLOWED[s] => s = "IN_PROGRESS"
           /\ "IN_VERIFICATION" \in ALLOWED[s] => s = "IN_PROGRESS"
           /\ "DONE" \in ALLOWED[s] => s # "BLOCKED_ON_CLIENT"
    BY DEF State, ALLOWED
  <2>4. h[k].to \in TERMINAL => k = Len(h)
    <3> SUFFICES ASSUME h[k].to \in TERMINAL, k # Len(h) PROVE FALSE
      OBVIOUS
    <3>1. h[k + 1].to \in ALLOWED[h[k].to]
      BY Entry
    <3>2. \A s \in TERMINAL : ALLOWED[s] = {}
      BY DEF TERMINAL, ALLOWED
    <3> QED BY <3>1, <3>2
  <2> QED BY <1>2, <2>1, <2>2, <2>3, <2>4
<1> QED BY <1>1, <1>2

\* P[s] are the entries of h that lead to s.
ByState(P, h, K) == \A s \in K : \A k : k \in P[s] <=> k \in 1 .. Len(h) /\ h[k].to = s

\* What is summed over the entries can be summed by the states they lead to.
LEMMA SharedByState ==
    ASSUME NEW h, IsHistory(h), h # <<>>, NEW K \in SUBSET State,
           NEW f, \A k \in 1 .. Len(h) : f[k] \in Int,
           NEW P, ByState(P, h, K),
           NEW t, \A s \in K : t[s] = SumFunctionOnSet(f, P[s]),
           NEW U, \A k : k \in U <=> k \in 1 .. Len(h) /\ h[k].to \in K
    PROVE  SumFunctionOnSet(t, K) = SumFunctionOnSet(f, U)
<1>1. IsFiniteSet(1 .. Len(h))
  BY Entry, FS_Interval
<1>2. IsFiniteSet(K)
  <2>1. IsFiniteSet(State)
    <3>1. \A x : IsFiniteSet({x})
      BY FS_Singleton
    <3>2. \A A, B : IsFiniteSet(A) /\ IsFiniteSet(B) => IsFiniteSet(A \cup B)
      BY FS_Union
    <3>3. State = {"NEW"} \cup {"QUEUED"} \cup {"IN_PROGRESS"} \cup {"ON_HOLD_PREEMPTED"}
                  \cup {"BLOCKED_ON_CLIENT"} \cup {"IN_VERIFICATION"} \cup {"DONE"}
                  \cup {"CANCELLED"}
      BY DEF State
    <3> QED BY <3>1, <3>2, <3>3
  <2> QED BY <2>1, FS_Subset
<1>3. \A s \in K : IsFiniteSet(P[s])
  <2> SUFFICES ASSUME NEW s \in K PROVE IsFiniteSet(P[s])
    OBVIOUS
  <2>1. P[s] \subseteq 1 .. Len(h)
    BY DEF ByState
  <2> QED BY <1>1, <2>1, FS_Subset
<1>4. Parts(P, K, U)
  BY <1>3 DEF Parts, ByState
<1>5. \A k \in U : f[k] \in Int
  OBVIOUS
<1> QED BY <1>2, <1>4, <1>5, SumOfParts

-----------------------------------------------------------------------------
(* The timeline *)

\* An item with a history is at the end of it.
LEMMA RecordedItem ==
    ASSUME HistoryInv, NEW i \in Recorded
    PROVE  /\ i \in Items /\ IsHistory(history[i]) /\ history[i] # <<>>
           /\ now \in Nat /\ now \in Int
           /\ history[i][Len(history[i])].at <= now
           /\ StateOf(i) = history[i][Len(history[i])].to
<1>1. i \in Items /\ history[i] # <<>>
  BY DEF Recorded
<1>2. IsHistory(history[i]) /\ LastOf(history[i]).at <= now /\ now \in Time
  BY <1>1 DEF HistoryInv
<1> QED BY <1>1, <1>2, HistoryAssumption DEF StateOf, LastOf, Time

\* The spans of a timeline follow one another and are not negative; the span
\* of a terminal state is empty.
LEMMA Spans ==
    ASSUME HistoryInv, NEW i \in Recorded, NEW k \in 1 .. Len(history[i])
    PROVE  /\ Left(i, k) \in Nat /\ Left(i, k) \in Int
           /\ history[i][k].at <= Left(i, k)
           /\ k # Len(history[i]) => Left(i, k) = history[i][k + 1].at
           /\ history[i][k].to \in TERMINAL => Left(i, k) = history[i][k].at
<1> DEFINE h == history[i]
           n == Len(h)
<1>1. /\ IsHistory(h) /\ h # <<>> /\ now \in Nat /\ now \in Int /\ h[n].at <= now
      /\ StateOf(i) = h[n].to
  BY RecordedItem
<1>2. IsOpen(i) <=> h[n].to \notin TERMINAL
  BY <1>1 DEF IsOpen
<1>3. Left(i, k) = IF k < n THEN h[k + 1].at
                   ELSE IF k = n /\ IsOpen(i) THEN now ELSE h[k].at
  BY DEF Left
<1> HIDE DEF h
<1>4. n \in Nat /\ k \in 1 .. n
  BY <1>1, Entry DEF h
<1> HIDE DEF n
<1>5. CASE k < n
  <2>1. k # n /\ k + 1 \in 1 .. n
    BY <1>4, <1>5
  <2>2. /\ h[k].at <= h[k + 1].at /\ h[k + 1].at \in Nat /\ h[k + 1].at \in Int
    BY <1>1, <1>4, <2>1, Entry DEF n
  <2>3. h[k].to \notin TERMINAL
    BY <1>1, <1>4, <2>1, PlaceInHistory DEF n
  <2> QED BY <1>3, <1>5, <2>1, <2>2, <2>3 DEF h, n
<1>6. CASE k = n
  <2>1. h[k].at \in Nat /\ h[k].at \in Int
    BY <1>1, <1>4, Entry DEF n
  <2>2. Left(i, k) = IF h[k].to \notin TERMINAL THEN now ELSE h[k].at
    BY <1>2, <1>3, <1>4, <1>6
  <2> QED BY <1>1, <1>6, <2>1, <2>2 DEF h, n
<1> QED BY <1>4, <1>5, <1>6

\* What is counted from event to event, and onward to the end, adds up over
\* the events and so over the states.
LEMMA TimelineSum ==
    ASSUME HistoryInv, NEW i \in Recorded,
           NEW f, NEW c, \A k \in 1 .. Len(history[i]) + 1 : c[k] \in Int,
           \A k \in 1 .. Len(history[i]) : f[k] = c[k + 1] - c[k],
           NEW t, \A s \in State : t[s] = SumFunctionOnSet(f, Entries(i, s))
    PROVE  SumFunctionOnSet(t, State) = c[Len(history[i]) + 1] - c[1]
<1> DEFINE h == history[i]
           n == Len(h)
<1>1. IsHistory(h) /\ h # <<>>
  BY RecordedItem
<1>2. n \in Nat
  BY <1>1, Entry
<1> DEFINE P == [s \in State |-> Entries(i, s)]
<1>3. \A s \in State : t[s] = SumFunctionOnSet(f, P[s])
  OBVIOUS
<1>11. ByState(P, h, State)
  <2>1. DOMAIN h = 1 .. Len(h)
    BY <1>1, Entry
  <2> QED BY <2>1 DEF Entries, ByState
<1> HIDE DEF P
<1>4. \A k \in 1 .. n + 1 : c[k] \in Int
  OBVIOUS
<1>5. \A k \in 1 .. n : f[k] = c[k + 1] - c[k]
  OBVIOUS
<1> HIDE DEF h
<1> DEFINE U == 1 .. n
<1>6. /\ State \in SUBSET State
      /\ \A k : k \in U <=> k \in 1 .. Len(h) /\ h[k].to \in State
  BY <1>1, Entry
<1> HIDE DEF n, U
<1>7. \A k \in 1 .. n : f[k] \in Int
  <2> SUFFICES ASSUME NEW k \in 1 .. n PROVE f[k] \in Int
    OBVIOUS
  <2>1. k \in 1 .. n + 1 /\ k + 1 \in 1 .. n + 1
    BY <1>2
  <2>2. c[k] \in Int /\ c[k + 1] \in Int
    BY <1>4, <2>1
  <2> QED BY <1>5, <2>2
<1>8. \A k \in 1 .. Len(h) : f[k] \in Int
  BY <1>7 DEF n
<1>9. SumFunctionOnSet(t, State) = SumFunctionOnSet(f, U)
  BY <1>1, <1>3, <1>6, <1>8, <1>11, SharedByState
<1>10. SumFunctionOnSet(f, 1 .. n) = c[n + 1] - c[1]
  BY <1>2, <1>4, <1>5, SumOfDifferences
<1> QED BY <1>9, <1>10 DEF n, h, U

\* The moments between which the spans lie.
Bound(i, k) == IF k <= Len(history[i]) THEN history[i][k].at ELSE EndOf(i)

\* They are moments, in order, and the last is the end of the item.
LEMMA Bounds ==
    ASSUME HistoryInv, NEW i \in Recorded
    PROVE  /\ Len(history[i]) \in Nat /\ Len(history[i]) >= 1
           /\ Bound(i, 1) = StartedAt(i) /\ Bound(i, Len(history[i]) + 1) = EndOf(i)
           /\ \A k \in 1 .. Len(history[i]) + 1 :
                 Bound(i, k) \in Int /\ StartedAt(i) <= Bound(i, k)
           /\ \A k \in 1 .. Len(history[i]) : /\ history[i][k].at = Bound(i, k)
                                             /\ Left(i, k) = Bound(i, k + 1)
                                             /\ Bound(i, k) <= Bound(i, k + 1)
<1> DEFINE h == history[i]
           n == Len(h)
<1>1. IsHistory(h) /\ h # <<>>
  BY RecordedItem
<1>2. n \in Nat /\ n >= 1 /\ \A k \in 1 .. n : h[k].at \in Int
  BY <1>1, Entry
<1>3. \A k \in 1 .. n : /\ Left(i, k) \in Int
                        /\ h[k].at <= Left(i, k)
                        /\ k # n => Left(i, k) = h[k + 1].at
  BY Spans
<1>4. \A k \in 1 .. n : h[1].at <= h[k].at
  <2> HIDE DEF h
  <2> SUFFICES ASSUME NEW k \in 1 .. n PROVE h[1].at <= h[k].at
    OBVIOUS
  <2>1. 1 \in 1 .. Len(h) /\ k \in 1 .. Len(h) /\ 1 <= k
    BY <1>2
  <2> QED BY <1>1, <2>1, LaterIsLater
<1>5. StartedAt(i) = h[1].at /\ EndOf(i) = Left(i, n)
  BY DEF StartedAt, EndOf
<1>6. \A k : Bound(i, k) = IF k <= n THEN h[k].at ELSE Left(i, n)
  BY <1>5 DEF Bound
<1> HIDE DEF h, n
<1>7. ASSUME NEW k \in 1 .. n
      PROVE  /\ Bound(i, k) = h[k].at
             /\ Bound(i, k) \in Int /\ StartedAt(i) <= Bound(i, k)
             /\ Left(i, k) = Bound(i, k + 1)
             /\ Bound(i, k) <= Bound(i, k + 1)
  <2>1. k <= n /\ k \in Int
    BY <1>2
  <2>2. Bound(i, k) = h[k].at
    BY <1>6, <2>1
  <2>3. Left(i, k) = Bound(i, k + 1)
    <3>1. CASE k = n
      <4>1. ~ (k + 1 <= n)
        BY <1>2, <3>1
      <4> QED BY <1>6, <3>1, <4>1
    <3>2. CASE k # n
      <4>1. k + 1 <= n
        BY <1>2, <2>1, <3>2
      <4> QED BY <1>3, <1>6, <3>2, <4>1
    <3> QED BY <3>1, <3>2
  <2> QED BY <1>2, <1>3, <1>4, <1>5, <2>2, <2>3
<1>8. Bound(i, 1) = StartedAt(i) /\ Bound(i, n + 1) = EndOf(i)
  BY <1>2, <1>5, <1>6
<1>9. EndOf(i) \in Int /\ StartedAt(i) <= EndOf(i)
  <2>1. n \in 1 .. n
    BY <1>2
  <2>2. /\ Left(i, n) \in Int /\ h[n].at <= Left(i, n) /\ h[1].at <= h[n].at
        /\ h[1].at \in Int /\ h[n].at \in Int
    BY <1>2, <1>3, <1>4, <2>1
  <2> QED BY <1>5, <2>2
<1>10. ASSUME NEW k \in 1 .. n + 1
       PROVE  Bound(i, k) \in Int /\ StartedAt(i) <= Bound(i, k)
  <2>1. k = n + 1 \/ k \in 1 .. n
    BY <1>2
  <2> QED BY <1>7, <1>8, <1>9, <2>1
<1> QED BY <1>2, <1>7, <1>8, <1>10 DEF h, n

\* The times in the states add up to the whole (build_timeline).
LEMMA CalendarTimeAddsUp ==
    ASSUME HistoryInv, NEW i \in Recorded
    PROVE  /\ TotalElapsed(i) = SumFunction([s \in State |-> TimeInState(i, s)])
           /\ TotalElapsed(i) \in Nat
<1> DEFINE n == Len(history[i])
           f == [k \in 1 .. n |-> Left(i, k) - history[i][k].at]
           c == [k \in 1 .. n + 1 |-> Bound(i, k)]
           t == [s \in State |-> TimeInState(i, s)]
<1>1. /\ n \in Nat /\ n >= 1 /\ DOMAIN history[i] = 1 .. n
      /\ IsFiniteSet(1 .. n)
  BY RecordedItem, Entry, FS_Interval
<1>2. /\ StartedAt(i) = Bound(i, 1) /\ EndOf(i) = Bound(i, n + 1)
      /\ \A k \in 1 .. n + 1 : Bound(i, k) \in Int /\ StartedAt(i) <= Bound(i, k)
      /\ \A k \in 1 .. n : /\ history[i][k].at = Bound(i, k)
                            /\ Left(i, k) = Bound(i, k + 1)
  BY Bounds
<1> HIDE DEF n
<1>3. \A k \in 1 .. n + 1 : c[k] \in Int
  BY <1>2
<1>4. ASSUME NEW k \in 1 .. n
      PROVE  f[k] = c[k + 1] - c[k] /\ f[k] \in Int
  <2>1. k \in 1 .. n + 1 /\ k + 1 \in 1 .. n + 1
    BY <1>1
  <2> QED BY <1>2, <2>1
<1>5. ASSUME NEW s \in State
      PROVE  t[s] = SumFunctionOnSet(f, Entries(i, s))
  <2> DEFINE g == [k \in Entries(i, s) |-> Left(i, k) - history[i][k].at]
  <2>1. Entries(i, s) \subseteq 1 .. n
    BY <1>1 DEF Entries
  <2>2. IsFiniteSet(Entries(i, s)) /\ DOMAIN g = Entries(i, s)
    BY <1>1, <2>1, FS_Subset
  <2>3. \A k \in DOMAIN g : f[k] \in Int /\ g[k] = f[k]
    BY <1>4, <2>1
  <2>4. t[s] = SumFunction(g)
    BY DEF TimeInState
  <2> HIDE DEF g, f, t
  <2>5. SumFunction(g) = SumFunctionOnSet(f, DOMAIN g)
    BY <2>2, <2>3, SumLike
  <2> QED BY <2>2, <2>4, <2>5
<1>6. SumFunction(t) = SumFunctionOnSet(t, State)
  <2>1. DOMAIN t = State
    OBVIOUS
  <2> HIDE DEF t
  <2> QED BY <2>1, SumOfAll
<1>7. c[n + 1] = EndOf(i) /\ c[1] = StartedAt(i)
  BY <1>1, <1>2
<1>8. n + 1 \in 1 .. n + 1
  BY <1>1
<1> HIDE DEF f, c, t
<1>9. SumFunctionOnSet(t, State) = c[n + 1] - c[1]
  BY <1>3, <1>4, <1>5, TimelineSum DEF n
<1>10. TotalElapsed(i) = EndOf(i) - StartedAt(i)
  BY DEF TotalElapsed
<1>11. EndOf(i) \in Int /\ StartedAt(i) \in Int /\ StartedAt(i) <= EndOf(i)
  BY <1>2, <1>3, <1>7, <1>8, <1>1
<1> QED BY <1>6, <1>7, <1>9, <1>10, <1>11 DEF t

\* The working time of every span.
Spent(i, w) ==
    [k \in 1 .. Len(history[i]) |-> WorkingDuration(history[i][k].at, Left(i, k), w)]

\* The entries of an item are finitely many.
LEMMA EntriesOfItem ==
    ASSUME HistoryInv, NEW i \in Recorded, NEW s
    PROVE  /\ Entries(i, s) \subseteq 1 .. Len(history[i])
           /\ IsFiniteSet(Entries(i, s))
           /\ DOMAIN history[i] = 1 .. Len(history[i])
<1>1. IsHistory(history[i]) /\ history[i] # <<>>
  BY RecordedItem
<1>2. DOMAIN history[i] = 1 .. Len(history[i]) /\ Len(history[i]) \in Nat
  BY <1>1, Entry
<1>3. Entries(i, s) \subseteq 1 .. Len(history[i]) /\ IsFiniteSet(1 .. Len(history[i]))
  BY <1>2, FS_Interval DEF Entries
<1> QED BY <1>2, <1>3, FS_Subset

\* Every span has some working time, a terminal one none.
LEMMA SpentIsNat ==
    ASSUME HistoryInv, NEW i \in Recorded, NEW w, NEW k \in 1 .. Len(history[i])
    PROVE  /\ Spent(i, w)[k] \in Nat /\ Spent(i, w)[k] \in Int
           /\ history[i][k].to \in TERMINAL => Spent(i, w)[k] = 0
<1>1. Spent(i, w)[k] = WorkingDuration(history[i][k].at, Left(i, k), w)
  BY DEF Spent
<1>2. /\ Left(i, k) \in Int /\ history[i][k].at \in Int
      /\ history[i][k].to \in TERMINAL => Left(i, k) = history[i][k].at
  BY Spans, RecordedItem, Entry
<1>3. /\ WorkingDuration(history[i][k].at, Left(i, k), w) \in Nat
      /\ Left(i, k) <= history[i][k].at => WorkingDuration(history[i][k].at, Left(i, k), w) = 0
  BY <1>2, WorkingTimeBounds
<1>4. history[i][k].to \in TERMINAL => Left(i, k) <= history[i][k].at
  BY <1>2
<1> QED BY <1>1, <1>3, <1>4

\* What a state has of it.
LEMMA SpentInState ==
    ASSUME HistoryInv, NEW i \in Recorded, NEW w, NEW s
    PROVE  /\ WorkingTimeInState(i, s, w) = SumFunctionOnSet(Spent(i, w), Entries(i, s))
           /\ WorkingTimeInState(i, s, w) \in Nat
           /\ s \in TERMINAL => WorkingTimeInState(i, s, w) = 0
<1> DEFINE f == Spent(i, w)
           E == Entries(i, s)
           g == [k \in E |-> WorkingDuration(history[i][k].at, Left(i, k), w)]
<1>1. E \subseteq 1 .. Len(history[i]) /\ IsFiniteSet(E)
  BY EntriesOfItem
<1>2. \A k \in E : f[k] \in Nat /\ f[k] \in Int /\ (s \in TERMINAL => f[k] = 0)
  BY <1>1, SpentIsNat DEF Entries
<1>3. \A k \in E : g[k] = f[k]
  BY <1>1 DEF Spent
<1>4. WorkingTimeInState(i, s, w) = SumFunction(g) /\ DOMAIN g = E
  BY DEF WorkingTimeInState
<1> HIDE DEF f, E, g
<1>5. SumFunction(g) = SumFunctionOnSet(f, DOMAIN g)
  BY <1>1, <1>2, <1>3, <1>4, SumLike
<1>6. SumFunctionOnSet(f, E) \in Nat
  BY <1>1, <1>2, SumNat
<1>7. s \in TERMINAL => SumFunctionOnSet(f, E) = 0
  BY <1>1, <1>2, SumOfZeros
<1> QED BY <1>4, <1>5, <1>6, <1>7 DEF f, E

\* The working time from the start of the item to one of its moments.
Since(i, w) ==
    [k \in 1 .. Len(history[i]) + 1 |-> WorkingDuration(StartedAt(i), Bound(i, k), w)]

\* It grows by what each span has.
LEMMA SinceGrows ==
    ASSUME HistoryInv, NEW i \in Recorded, NEW w
    PROVE  /\ \A k \in 1 .. Len(history[i]) + 1 : Since(i, w)[k] \in Int
           /\ \A k \in 1 .. Len(history[i]) :
                 Spent(i, w)[k] = Since(i, w)[k + 1] - Since(i, w)[k]
           /\ Since(i, w)[1] = 0
           /\ Since(i, w)[Len(history[i]) + 1] = WorkingElapsed(i, w)
           /\ WorkingElapsed(i, w) \in Nat
           /\ WorkingElapsed(i, w) <= TotalElapsed(i)
<1> DEFINE n == Len(history[i])
           f == Spent(i, w)
           c == Since(i, w)
<1>1. n \in Nat /\ n >= 1
  BY Bounds
<1>2. /\ StartedAt(i) = Bound(i, 1) /\ EndOf(i) = Bound(i, n + 1)
      /\ \A k \in 1 .. n + 1 : Bound(i, k) \in Int /\ StartedAt(i) <= Bound(i, k)
      /\ \A k \in 1 .. n : /\ history[i][k].at = Bound(i, k)
                            /\ Left(i, k) = Bound(i, k + 1)
                            /\ Bound(i, k) <= Bound(i, k + 1)
  BY Bounds
<1>3. \A k \in 1 .. n : f[k] = WorkingDuration(history[i][k].at, Left(i, k), w)
  BY DEF Spent
<1>4. \A k \in 1 .. n + 1 : c[k] = WorkingDuration(StartedAt(i), Bound(i, k), w)
  BY DEF Since
<1> HIDE DEF n, f, c
<1>5. StartedAt(i) \in Int /\ EndOf(i) \in Int /\ StartedAt(i) <= EndOf(i)
  <2>1. 1 \in 1 .. n + 1 /\ n + 1 \in 1 .. n + 1
    BY <1>1
  <2> QED BY <1>2, <2>1
<1>6. \A k \in 1 .. n + 1 : c[k] \in Int
  <2>1. \A a, b \in Int : WorkingDuration(a, b, w) \in Int
    BY WorkingTimeBounds
  <2> QED BY <1>2, <1>4, <1>5, <2>1
<1>7. ASSUME NEW k \in 1 .. n
      PROVE  f[k] = c[k + 1] - c[k]
  <2>1. k \in 1 .. n + 1 /\ k + 1 \in 1 .. n + 1
    BY <1>1
  <2> DEFINE a == StartedAt(i)
             x == Bound(i, k)
             y == Bound(i, k + 1)
  <2>2. a \in Int /\ x \in Int /\ y \in Int /\ a <= x /\ x <= y
    BY <1>2, <1>5, <2>1
  <2>3. f[k] = WorkingDuration(x, y, w)
    BY <1>2, <1>3
  <2>4. c[k] = WorkingDuration(a, x, w) /\ c[k + 1] = WorkingDuration(a, y, w)
    BY <1>4, <2>1
  <2> HIDE DEF a, x, y
  <2>5. WorkingDuration(a, y, w) = WorkingDuration(a, x, w) + WorkingDuration(x, y, w)
    BY <2>2, WorkingTimeAdds
  <2>6. WorkingDuration(a, x, w) \in Nat /\ WorkingDuration(x, y, w) \in Nat
    BY <2>2, WorkingTimeBounds
  <2> QED BY <2>3, <2>4, <2>5, <2>6
<1>8. c[n + 1] = WorkingElapsed(i, w) /\ c[1] = WorkingDuration(StartedAt(i), StartedAt(i), w)
  <2>1. 1 \in 1 .. n + 1 /\ n + 1 \in 1 .. n + 1
    BY <1>1
  <2> QED BY <1>2, <1>4, <2>1 DEF WorkingElapsed
<1>9. /\ WorkingElapsed(i, w) \in Nat /\ WorkingElapsed(i, w) <= EndOf(i) - StartedAt(i)
      /\ WorkingDuration(StartedAt(i), StartedAt(i), w) = 0
  BY <1>5, WorkingTimeBounds DEF WorkingElapsed
<1> QED BY <1>6, <1>7, <1>8, <1>9 DEF TotalElapsed, n, f, c

\* The working times in the states add up to the whole.
LEMMA WorkingTimeAddsUp ==
    ASSUME HistoryInv, NEW i \in Recorded, NEW w
    PROVE  WorkingElapsed(i, w)
             = SumFunctionOnSet([s \in State |-> WorkingTimeInState(i, s, w)], State)
<1> DEFINE n == Len(history[i])
           f == Spent(i, w)
           c == Since(i, w)
           t == [s \in State |-> WorkingTimeInState(i, s, w)]
<1>1. \A s \in State : t[s] = SumFunctionOnSet(f, Entries(i, s))
  BY SpentInState
<1>2. /\ \A k \in 1 .. n + 1 : c[k] \in Int
      /\ \A k \in 1 .. n : f[k] = c[k + 1] - c[k]
      /\ c[1] = 0 /\ c[n + 1] = WorkingElapsed(i, w) /\ WorkingElapsed(i, w) \in Nat
  BY SinceGrows
<1> HIDE DEF n, f, c, t
<1>3. \A k \in 1 .. n + 1 : c[k] \in Int
  BY <1>2
<1>4. \A k \in 1 .. n : f[k] = c[k + 1] - c[k]
  BY <1>2
<1>5. SumFunctionOnSet(t, State) = c[n + 1] - c[1]
  BY <1>1, <1>3, <1>4, TimelineSum DEF n
<1> QED BY <1>2, <1>5 DEF t

\* The working time of an item is shared by six states.
LEMMA SixShares ==
    ASSUME HistoryInv, NEW i \in Recorded, NEW w
    PROVE  /\ WaitingOnUs(i, w) = WorkingTimeInState(i, "NEW", w)
                                  + WorkingTimeInState(i, "QUEUED", w)
                                  + WorkingTimeInState(i, "ON_HOLD_PREEMPTED", w)
           /\ WaitingOnClient(i, w) = WorkingTimeInState(i, "BLOCKED_ON_CLIENT", w)
           /\ WorkingElapsed(i, w) = ActiveTime(i, w) + VerificationTime(i, w)
                                     + WaitingOnUs(i, w) + WaitingOnClient(i, w)
           /\ ActiveTime(i, w) \in Nat /\ VerificationTime(i, w) \in Nat
           /\ WaitingOnUs(i, w) \in Nat /\ WaitingOnClient(i, w) \in Nat
<1> DEFINE t == [s \in State |-> WorkingTimeInState(i, s, w)]
           us == {"NEW", "QUEUED", "ON_HOLD_PREEMPTED"}
           g == [s \in us |-> WorkingTimeInState(i, s, w)]
           b == [s \in CLOCK_STOPPED |-> WorkingTimeInState(i, s, w)]
<1>1. \A s : WorkingTimeInState(i, s, w) \in Nat
  BY SpentInState
<1>2. \A s \in State : t[s] = WorkingTimeInState(i, s, w) /\ t[s] \in Int
  BY <1>1
<1>3. /\ \A s \in us : g[s] = t[s]
      /\ \A s \in CLOCK_STOPPED : b[s] = t[s]
      /\ DOMAIN g = us /\ DOMAIN b = CLOCK_STOPPED
  BY DEF State, CLOCK_STOPPED
<1>4. /\ WaitingOnUs(i, w) = SumFunction(g) /\ WaitingOnClient(i, w) = SumFunction(b)
      /\ WorkingElapsed(i, w) = SumFunctionOnSet(t, State)
  BY WorkingTimeAddsUp DEF WaitingOnUs, WaitingOnClient
<1>5. /\ WorkingTimeInState(i, "DONE", w) = 0 /\ WorkingTimeInState(i, "CANCELLED", w) = 0
  BY SpentInState DEF TERMINAL
<1> HIDE DEF g, b, t
<1> DEFINE T(s) == WorkingTimeInState(i, s, w)
           s1 == {"NEW"}
           s2 == {"NEW", "QUEUED"}
           s4 == us \cup {"BLOCKED_ON_CLIENT"}
           s5 == s4 \cup {"IN_PROGRESS"}
           s6 == s5 \cup {"IN_VERIFICATION"}
           s7 == s6 \cup {"DONE"}
<1> HIDE DEF T
<1>6. \A s \in State : IsFiniteSet({s}) /\ SumFunctionOnSet(t, {s}) = T(s) /\ T(s) \in Nat
  BY <1>1, <1>2, SumSingle, FS_Singleton DEF T
<1>7. ASSUME NEW A \in SUBSET State, IsFiniteSet(A), NEW s \in State, s \notin A
      PROVE  /\ IsFiniteSet(A \cup {s})
             /\ SumFunctionOnSet(t, A \cup {s}) = SumFunctionOnSet(t, A) + T(s)
  <2> DEFINE B == {s}
  <2>1. /\ IsFiniteSet(B) /\ SumFunctionOnSet(t, B) = T(s)
        /\ A \cap B = {} /\ A \cup B \subseteq State
    BY <1>6, <1>7
  <2> HIDE DEF B
  <2>2. IsFiniteSet(A \cup B)
    BY <1>7, <2>1, FS_Union
  <2>3. \A x \in A \cup B : t[x] \in Int
    BY <1>2, <2>1
  <2>4. SumFunctionOnSet(t, A \cup B) = SumFunctionOnSet(t, A) + SumFunctionOnSet(t, B)
    BY <1>7, <2>1, <2>3, SumUnion
  <2> QED BY <2>1, <2>2, <2>4 DEF B
<1>8. IsFiniteSet(s1) /\ SumFunctionOnSet(t, s1) = T("NEW")
  BY <1>6 DEF State
<1>9. IsFiniteSet(s2) /\ SumFunctionOnSet(t, s2) = SumFunctionOnSet(t, s1) + T("QUEUED")
  <2>1. s2 = s1 \cup {"QUEUED"}
    BY DEF State
  <2>2. s1 \in SUBSET State /\ "QUEUED" \in State /\ "QUEUED" \notin s1
    BY DEF State
  <2> HIDE DEF s1, s2
  <2>3. /\ IsFiniteSet(s1 \cup {"QUEUED"})
        /\ SumFunctionOnSet(t, s1 \cup {"QUEUED"}) = SumFunctionOnSet(t, s1) + T("QUEUED")
    BY <1>7, <1>8, <2>2
  <2> QED BY <2>1, <2>3
<1>10. IsFiniteSet(us) /\ SumFunctionOnSet(t, us) = SumFunctionOnSet(t, s2) + T("ON_HOLD_PREEMPTED")
  <2>1. us = s2 \cup {"ON_HOLD_PREEMPTED"}
    BY DEF State
  <2>2. s2 \in SUBSET State /\ "ON_HOLD_PREEMPTED" \in State /\ "ON_HOLD_PREEMPTED" \notin s2
    BY DEF State
  <2> HIDE DEF s2, us
  <2>3. /\ IsFiniteSet(s2 \cup {"ON_HOLD_PREEMPTED"})
        /\ SumFunctionOnSet(t, s2 \cup {"ON_HOLD_PREEMPTED"}) = SumFunctionOnSet(t, s2) + T("ON_HOLD_PREEMPTED")
    BY <1>7, <1>9, <2>2
  <2> QED BY <2>1, <2>3
<1>11. IsFiniteSet(s4) /\ SumFunctionOnSet(t, s4) = SumFunctionOnSet(t, us) + T("BLOCKED_ON_CLIENT")
  <2>1. s4 = us \cup {"BLOCKED_ON_CLIENT"}
    BY DEF State
  <2>2. us \in SUBSET State /\ "BLOCKED_ON_CLIENT" \in State /\ "BLOCKED_ON_CLIENT" \notin us
    BY DEF State
  <2> HIDE DEF s4, us
  <2>3. /\ IsFiniteSet(us \cup {"BLOCKED_ON_CLIENT"})
        /\ SumFunctionOnSet(t, us \cup {"BLOCKED_ON_CLIENT"}) = SumFunctionOnSet(t, us) + T("BLOCKED_ON_CLIENT")
    BY <1>7, <1>10, <2>2
  <2> QED BY <2>1, <2>3
<1>12. IsFiniteSet(s5) /\ SumFunctionOnSet(t, s5) = SumFunctionOnSet(t, s4) + T("IN_PROGRESS")
  <2>1. s5 = s4 \cup {"IN_PROGRESS"}
    BY DEF State
  <2>2. s4 \in SUBSET State /\ "IN_PROGRESS" \in State /\ "IN_PROGRESS" \notin s4
    BY DEF State
  <2> HIDE DEF s4, s5
  <2>3. /\ IsFiniteSet(s4 \cup {"IN_PROGRESS"})
        /\ SumFunctionOnSet(t, s4 \cup {"IN_PROGRESS"}) = SumFunctionOnSet(t, s4) + T("IN_PROGRESS")
    BY <1>7, <1>11, <2>2
  <2> QED BY <2>1, <2>3
<1>13. IsFiniteSet(s6) /\ SumFunctionOnSet(t, s6) = SumFunctionOnSet(t, s5) + T("IN_VERIFICATION")
  <2>1. s6 = s5 \cup {"IN_VERIFICATION"}
    BY DEF State
  <2>2. s5 \in SUBSET State /\ "IN_VERIFICATION" \in State /\ "IN_VERIFICATION" \notin s5
    BY DEF State
  <2> HIDE DEF s5, s6
  <2>3. /\ IsFiniteSet(s5 \cup {"IN_VERIFICATION"})
        /\ SumFunctionOnSet(t, s5 \cup {"IN_VERIFICATION"}) = SumFunctionOnSet(t, s5) + T("IN_VERIFICATION")
    BY <1>7, <1>12, <2>2
  <2> QED BY <2>1, <2>3
<1>14. IsFiniteSet(s7) /\ SumFunctionOnSet(t, s7) = SumFunctionOnSet(t, s6) + T("DONE")
  <2>1. s7 = s6 \cup {"DONE"}
    BY DEF State
  <2>2. s6 \in SUBSET State /\ "DONE" \in State /\ "DONE" \notin s6
    BY DEF State
  <2> HIDE DEF s6, s7
  <2>3. /\ IsFiniteSet(s6 \cup {"DONE"})
        /\ SumFunctionOnSet(t, s6 \cup {"DONE"}) = SumFunctionOnSet(t, s6) + T("DONE")
    BY <1>7, <1>13, <2>2
  <2> QED BY <2>1, <2>3
<1>15. IsFiniteSet(State) /\ SumFunctionOnSet(t, State) = SumFunctionOnSet(t, s7) + T("CANCELLED")
  <2>1. State = s7 \cup {"CANCELLED"}
    BY DEF State
  <2>2. s7 \in SUBSET State /\ "CANCELLED" \in State /\ "CANCELLED" \notin s7
    BY DEF State
  <2> HIDE DEF s7
  <2>3. /\ IsFiniteSet(s7 \cup {"CANCELLED"})
        /\ SumFunctionOnSet(t, s7 \cup {"CANCELLED"}) = SumFunctionOnSet(t, s7) + T("CANCELLED")
    BY <1>7, <1>14, <2>2
  <2> QED BY <2>1, <2>3
<1>16. SumFunction(g) = SumFunctionOnSet(t, us)
  <2>1. \A s \in us : t[s] \in Int
    BY <1>2 DEF State
  <2> HIDE DEF us
  <2> QED BY <1>3, <1>10, <2>1, SumLike
<1>17. SumFunction(b) = T("BLOCKED_ON_CLIENT")
  <2>1. CLOCK_STOPPED = {"BLOCKED_ON_CLIENT"} /\ "BLOCKED_ON_CLIENT" \in State
    BY DEF State, CLOCK_STOPPED
  <2>2. IsFiniteSet(CLOCK_STOPPED) /\ \A s \in CLOCK_STOPPED : t[s] \in Int
    BY <1>2, <1>6, <2>1
  <2>3. SumFunction(b) = SumFunctionOnSet(t, CLOCK_STOPPED)
    BY <1>3, <2>2, SumLike
  <2> QED BY <1>6, <2>1, <2>3
<1>18. /\ T("NEW") \in Nat /\ T("QUEUED") \in Nat /\ T("ON_HOLD_PREEMPTED") \in Nat
       /\ T("BLOCKED_ON_CLIENT") \in Nat /\ T("IN_PROGRESS") \in Nat
       /\ T("IN_VERIFICATION") \in Nat /\ T("DONE") = 0 /\ T("CANCELLED") = 0
  BY <1>1, <1>5 DEF T
<1> HIDE DEF us, s1, s2, s4, s5, s6, s7
<1>19. /\ WaitingOnUs(i, w) = T("NEW") + T("QUEUED") + T("ON_HOLD_PREEMPTED")
       /\ WaitingOnClient(i, w) = T("BLOCKED_ON_CLIENT")
       /\ ActiveTime(i, w) = T("IN_PROGRESS") /\ VerificationTime(i, w) = T("IN_VERIFICATION")
  BY <1>4, <1>8, <1>9, <1>10, <1>16, <1>17 DEF T, ActiveTime, VerificationTime
<1>20. WorkingElapsed(i, w) = T("NEW") + T("QUEUED") + T("ON_HOLD_PREEMPTED")
                              + T("BLOCKED_ON_CLIENT") + T("IN_PROGRESS") + T("IN_VERIFICATION")
  BY <1>4, <1>8, <1>9, <1>10, <1>11, <1>12, <1>13, <1>14, <1>15, <1>18
<1>21. WorkingElapsed(i, w) = ActiveTime(i, w) + VerificationTime(i, w)
                              + WaitingOnUs(i, w) + WaitingOnClient(i, w)
  BY <1>18, <1>19, <1>20
<1>22. /\ ActiveTime(i, w) \in Nat /\ VerificationTime(i, w) \in Nat
       /\ WaitingOnUs(i, w) \in Nat /\ WaitingOnClient(i, w) \in Nat
  BY <1>18, <1>19
<1> QED BY <1>19, <1>21, <1>22 DEF T

\* Until work begins an item waits, for us or for the client.
LEMMA FirstTouch ==
    ASSUME HistoryInv, NEW i \in Recorded, NEW w, Touched(i)
    PROVE  TimeToFirstTouch(i, w) <= WaitingOnUs(i, w) + WaitingOnClient(i, w)
<1> DEFINE h == history[i]
           n == Len(h)
           f == Spent(i, w)
           c == Since(i, w)
           E == Entries(i, "IN_PROGRESS")
           V == Entries(i, "IN_VERIFICATION")
           m == Min(E)
           rest == (1 .. n) \ (E \cup V)
<1>1. IsHistory(h) /\ h # <<>>
  BY RecordedItem
<1>2. n \in Nat /\ n >= 1 /\ IsFiniteSet(1 .. n) /\ DOMAIN h = 1 .. n
  BY <1>1, Entry, FS_Interval
<1>3. /\ E \subseteq 1 .. n /\ V \subseteq 1 .. n /\ E \cap V = {} /\ E # {}
      /\ IsFiniteSet(E) /\ IsFiniteSet(V)
  BY EntriesOfItem DEF Touched, Entries
<1>4. m \in E /\ m \in 1 .. n /\ m \in Nat /\ \A x \in E : m <= x
  <2>1. E \in SUBSET Nat
    BY <1>2, <1>3
  <2> HIDE DEF E
  <2> QED BY <1>3, <2>1, MinOfSome
<1>5. 1 .. m - 1 \subseteq rest
  <2> SUFFICES ASSUME NEW k \in 1 .. m - 1, k \in E \cup V PROVE FALSE
    BY <1>2, <1>4
  <2>1. k \in 1 .. n /\ k < m /\ k \in V
    BY <1>2, <1>3, <1>4
  <2>2. h[k].to = "IN_VERIFICATION"
    BY <2>1 DEF Entries
  <2>3. k # 1 /\ h[k - 1].to = "IN_PROGRESS"
    BY <1>1, <2>1, <2>2, PlaceInHistory
  <2>4. k - 1 \in 1 .. n /\ ~ (m <= k - 1)
    BY <1>2, <1>4, <2>1, <2>3
  <2>5. k - 1 \in E
    BY <1>2, <2>3, <2>4 DEF Entries
  <2> QED BY <1>4, <2>4, <2>5
<1>6. TimeToFirstTouch(i, w) = c[m]
  <2>1. m \in 1 .. n + 1
    BY <1>2, <1>4
  <2>2. c[m] = WorkingDuration(StartedAt(i), Bound(i, m), w)
    BY <2>1 DEF Since
  <2>3. Bound(i, m) = h[m].at
    BY <1>4, Bounds
  <2> QED BY <2>2, <2>3 DEF TimeToFirstTouch
<1>7. /\ \A k \in 1 .. n + 1 : c[k] \in Int
      /\ \A k \in 1 .. n : f[k] = c[k + 1] - c[k]
      /\ c[1] = 0 /\ c[n + 1] = WorkingElapsed(i, w) /\ WorkingElapsed(i, w) \in Nat
  BY SinceGrows
<1>8. \A k \in 1 .. n : f[k] \in Nat /\ f[k] \in Int
  BY SpentIsNat
<1>9. /\ ActiveTime(i, w) = SumFunctionOnSet(f, E)
      /\ VerificationTime(i, w) = SumFunctionOnSet(f, V)
  BY SpentInState DEF ActiveTime, VerificationTime
<1> HIDE DEF h, n, f, c, E, V, m
<1>10. SumFunctionOnSet(f, 1 .. n) = WorkingElapsed(i, w)
  <2>1. SumFunctionOnSet(f, 1 .. n) = c[n + 1] - c[1]
    BY <1>2, <1>7, SumOfDifferences
  <2> QED BY <1>7, <2>1
<1>11. SumFunctionOnSet(f, 1 .. m - 1) = c[m]
  <2> DEFINE p == m - 1
  <2>1. p \in Nat /\ p + 1 = m /\ p < n
    BY <1>2, <1>4
  <2>2. \A k \in 1 .. p + 1 : c[k] \in Int
    BY <1>2, <1>7, <2>1
  <2>3. \A k \in 1 .. p : f[k] = c[k + 1] - c[k]
    BY <1>2, <1>7, <2>1
  <2> HIDE DEF p
  <2>4. SumFunctionOnSet(f, 1 .. p) = c[p + 1] - c[1]
    BY <2>1, <2>2, <2>3, SumOfDifferences
  <2>5. c[m] \in Int /\ c[p + 1] = c[m]
    BY <1>2, <1>4, <1>7, <2>1
  <2> QED BY <1>7, <2>4, <2>5 DEF p
<1>12. SumFunctionOnSet(f, E \cup V) = SumFunctionOnSet(f, E) + SumFunctionOnSet(f, V)
  BY <1>3, <1>8, SumUnion
<1>13. SumFunctionOnSet(f, 1 .. n) = SumFunctionOnSet(f, E \cup V) + SumFunctionOnSet(f, rest)
  <2> DEFINE A == E \cup V
             B == rest
  <2>1. /\ IsFiniteSet(A) /\ IsFiniteSet(B) /\ A \cap B = {} /\ A \cup B = 1 .. n
        /\ \A x \in A \cup B : f[x] \in Int
    BY <1>2, <1>3, <1>8, FS_Union, FS_Subset
  <2> HIDE DEF A, B
  <2>2. SumFunctionOnSet(f, A \cup B) = SumFunctionOnSet(f, A) + SumFunctionOnSet(f, B)
    BY <2>1, SumUnion
  <2> QED BY <2>1, <2>2 DEF A, B
<1>14. IsFiniteSet(rest) /\ \A x \in rest : f[x] \in Nat
  BY <1>2, <1>8, FS_Subset
<1> HIDE DEF rest
<1>15. SumFunctionOnSet(f, 1 .. m - 1) <= SumFunctionOnSet(f, rest)
  BY <1>5, <1>14, SumOfSubset
<1>16. SumFunctionOnSet(f, rest) \in Nat
  BY <1>14, SumNat
<1>17. /\ WorkingElapsed(i, w) = ActiveTime(i, w) + VerificationTime(i, w)
                                 + WaitingOnUs(i, w) + WaitingOnClient(i, w)
       /\ ActiveTime(i, w) \in Nat /\ VerificationTime(i, w) \in Nat
       /\ WaitingOnUs(i, w) \in Nat /\ WaitingOnClient(i, w) \in Nat
  BY SixShares
<1>18. SumFunctionOnSet(f, rest) = WaitingOnUs(i, w) + WaitingOnClient(i, w)
  BY <1>9, <1>10, <1>12, <1>13, <1>16, <1>17
<1> QED BY <1>6, <1>11, <1>15, <1>18

\* Every setting aside and every sending back had a start of its own.
LEMMA InterruptionsHadStarts ==
    ASSUME HistoryInv, NEW i \in Recorded
    PROVE  PreemptionCount(i) + ReworkCount(i) <= Cardinality(Entries(i, "IN_PROGRESS"))
<1> DEFINE h == history[i]
           n == Len(h)
           E == Entries(i, "IN_PROGRESS")
           P == Entries(i, "ON_HOLD_PREEMPTED")
           R == {k \in E : h[k].from = "IN_VERIFICATION"}
           A == {j \in E : j + 1 \in P}
           B == {j \in E : j + 1 \in 1 .. n /\ h[j + 1].to = "IN_VERIFICATION"}
<1>1. IsHistory(h) /\ h # <<>>
  BY RecordedItem
<1>2. n \in Nat /\ n >= 1 /\ DOMAIN h = 1 .. n /\ h[1].to = "NEW"
  BY <1>1, Entry
<1>3. E \subseteq 1 .. n /\ P \subseteq 1 .. n /\ IsFiniteSet(E) /\ IsFiniteSet(P) /\ R \subseteq E
  BY EntriesOfItem
<1>4. A \subseteq E /\ B \subseteq E /\ A \cap B = {}
  BY DEF Entries
<1>5. \A k \in P : k - 1 \in A
  <2> SUFFICES ASSUME NEW k \in P PROVE k - 1 \in A
    OBVIOUS
  <2>1. k \in 1 .. n /\ h[k].to = "ON_HOLD_PREEMPTED"
    BY <1>3 DEF Entries
  <2>2. k # 1 /\ h[k - 1].to = "IN_PROGRESS"
    BY <1>1, <2>1, PlaceInHistory
  <2>3. k - 1 \in 1 .. n /\ (k - 1) + 1 = k
    BY <1>2, <2>1, <2>2
  <2>4. k - 1 \in E
    BY <1>2, <2>2, <2>3 DEF Entries
  <2> QED BY <2>3, <2>4
<1>6. \A k \in R : k - 2 \in B
  <2> SUFFICES ASSUME NEW k \in R PROVE k - 2 \in B
    OBVIOUS
  <2>1. k \in 1 .. n /\ h[k].to = "IN_PROGRESS" /\ h[k].from = "IN_VERIFICATION"
    BY <1>3 DEF Entries
  <2>2. k # 1
    BY <1>2, <2>1
  <2>3. PICK j \in 1 .. n : j # n /\ k = j + 1
    BY <1>2, <2>1, <2>2
  <2>4. h[j].to = "IN_VERIFICATION"
    BY <1>1, <2>1, <2>3, Entry
  <2>5. j # 1 /\ h[j - 1].to = "IN_PROGRESS"
    BY <1>1, <2>3, <2>4, PlaceInHistory
  <2>6. k - 2 = j - 1 /\ j - 1 \in 1 .. n /\ (j - 1) + 1 = j
    BY <1>2, <2>3, <2>5
  <2>7. j - 1 \in E
    BY <1>2, <2>5, <2>6 DEF Entries
  <2> QED BY <2>3, <2>4, <2>6, <2>7
<1>7. \A k \in E : k \in Int
  BY <1>2, <1>3
<1>8. \A k \in P : k \in Int
  BY <1>2, <1>3
<1> HIDE DEF E, P, R, A, B
<1>9. Cardinality(P) <= Cardinality(A) /\ Cardinality(P) \in Nat /\ Cardinality(A) \in Nat
  <2> DEFINE shift == [k \in P |-> k - 1]
  <2>1. shift \in Injection(P, A)
    BY <1>5, <1>8 DEF Injection, IsInjective
  <2> HIDE DEF shift
  <2>2. IsFiniteSet(A)
    BY <1>3, <1>4, FS_Subset
  <2> QED BY <1>3, <2>1, <2>2, FS_Injection, FS_CardinalityType
<1>10. Cardinality(R) <= Cardinality(B) /\ Cardinality(R) \in Nat /\ Cardinality(B) \in Nat
  <2> DEFINE shift == [k \in R |-> k - 2]
  <2>1. shift \in Injection(R, B)
    BY <1>3, <1>6, <1>7 DEF Injection, IsInjective
  <2> HIDE DEF shift
  <2>2. IsFiniteSet(B) /\ IsFiniteSet(R)
    BY <1>3, <1>4, FS_Subset
  <2> QED BY <2>1, <2>2, FS_Injection, FS_CardinalityType
<1>11. Cardinality(A) + Cardinality(B) <= Cardinality(E)
  <2>1. IsFiniteSet(A) /\ IsFiniteSet(B) /\ Cardinality(A \cap B) = 0
    BY <1>3, <1>4, FS_Subset, FS_EmptySet
  <2>2. Cardinality(A \cup B) = Cardinality(A) + Cardinality(B) - Cardinality(A \cap B)
    BY <2>1, FS_Union
  <2> DEFINE U == A \cup B
  <2>3. U \subseteq E
    BY <1>4
  <2> HIDE DEF U
  <2>4. Cardinality(U) <= Cardinality(E)
    BY <1>3, <2>3, FS_Subset
  <2> QED BY <1>9, <1>10, <2>1, <2>2, <2>4 DEF U
<1>12. PreemptionCount(i) = Cardinality(P) /\ ReworkCount(i) = Cardinality(R)
  BY DEF PreemptionCount, ReworkCount, P, R, E
<1>13. Cardinality(E) \in Nat
  BY <1>3, FS_CardinalityType
<1> QED BY <1>9, <1>10, <1>11, <1>12, <1>13 DEF E

\* A larger and a smaller time leave their difference.
LEMMA Remainder ==
    ASSUME NEW a \in Nat, NEW b \in Nat, b <= a
    PROVE  Max({0, a - b}) = a - b /\ a = Max({0, a - b}) + b
<1>1. Max({0, a - b}) = IF 0 >= a - b THEN 0 ELSE a - b
  BY MaxOfTwo
<1> QED BY <1>1

\* The larger the one time, the more is left.
LEMMA LargerRemainder ==
    ASSUME NEW a \in Int, NEW b \in Int, NEW c \in Int, a <= b
    PROVE  Max({0, a - c}) <= Max({0, b - c})
<1>1. Max({0, a - c}) = IF 0 >= a - c THEN 0 ELSE a - c
  BY MaxOfTwo
<1>2. Max({0, b - c}) = IF 0 >= b - c THEN 0 ELSE b - c
  BY MaxOfTwo
<1> QED BY <1>1, <1>2

\* The figures of an item that has a history add up, whatever the optional
\* days (build_timeline, accountable_elapsed).
LEMMA FiguresAddUp == HistoryInv => TimesAddUp
<1> SUFFICES ASSUME HistoryInv, NEW i \in Recorded
             PROVE  /\ TotalElapsed(i) = SumFunction([s \in State |-> TimeInState(i, s)])
                    /\ \A w \in MayHaveWorked(i) :
                          /\ WorkingElapsed(i, w) = ActiveTime(i, w) + VerificationTime(i, w)
                                                    + WaitingOnUs(i, w) + WaitingOnClient(i, w)
                          /\ WorkingElapsed(i, w) = AccountableElapsed(i, w) + WaitingOnClient(i, w)
                          /\ TotalElapsed(i) = WorkingElapsed(i, w) + WeekendAndHolidayTime(i, w)
                          /\ Touched(i) => TimeToFirstTouch(i, w)
                                              <= WaitingOnUs(i, w) + WaitingOnClient(i, w)
                    /\ PreemptionCount(i) + ReworkCount(i)
                          <= Cardinality(Entries(i, "IN_PROGRESS"))
  BY DEF TimesAddUp
<1>1. TotalElapsed(i) = SumFunction([s \in State |-> TimeInState(i, s)]) /\ TotalElapsed(i) \in Nat
  BY CalendarTimeAddsUp
<1>2. PreemptionCount(i) + ReworkCount(i) <= Cardinality(Entries(i, "IN_PROGRESS"))
  BY InterruptionsHadStarts
<1>3. ASSUME NEW w
      PROVE  /\ WorkingElapsed(i, w) = ActiveTime(i, w) + VerificationTime(i, w)
                                       + WaitingOnUs(i, w) + WaitingOnClient(i, w)
             /\ WorkingElapsed(i, w) = AccountableElapsed(i, w) + WaitingOnClient(i, w)
             /\ TotalElapsed(i) = WorkingElapsed(i, w) + WeekendAndHolidayTime(i, w)
             /\ Touched(i) => TimeToFirstTouch(i, w) <= WaitingOnUs(i, w) + WaitingOnClient(i, w)
  <2>1. /\ WorkingElapsed(i, w) = ActiveTime(i, w) + VerificationTime(i, w)
                                  + WaitingOnUs(i, w) + WaitingOnClient(i, w)
        /\ ActiveTime(i, w) \in Nat /\ VerificationTime(i, w) \in Nat
        /\ WaitingOnUs(i, w) \in Nat /\ WaitingOnClient(i, w) \in Nat
        /\ WaitingOnClient(i, w) = WorkingTimeInState(i, "BLOCKED_ON_CLIENT", w)
    BY SixShares
  <2>2. WorkingElapsed(i, w) \in Nat /\ WorkingElapsed(i, w) <= TotalElapsed(i)
    BY SinceGrows
  <2>3. WorkingElapsed(i, w) = AccountableElapsed(i, w) + WaitingOnClient(i, w)
    <3>1. WaitingOnClient(i, w) <= WorkingElapsed(i, w)
      BY <2>1
    <3>2. AccountableElapsed(i, w) = Max({0, WorkingElapsed(i, w) - WaitingOnClient(i, w)})
      BY <2>1 DEF AccountableElapsed
    <3> DEFINE a == WorkingElapsed(i, w)
               b == WaitingOnClient(i, w)
    <3>3. a \in Nat /\ b \in Nat /\ b <= a
      BY <2>1, <2>2, <3>1
    <3> HIDE DEF a, b
    <3>4. a = Max({0, a - b}) + b
      BY <3>3, Remainder
    <3>5. AccountableElapsed(i, w) = Max({0, a - b})
      BY <3>2 DEF a, b
    <3>6. a = AccountableElapsed(i, w) + b
      BY <3>4, <3>5
    <3> QED BY <3>6 DEF a, b
  <2>4. TotalElapsed(i) = WorkingElapsed(i, w) + WeekendAndHolidayTime(i, w)
    <3>1. Max({0, TotalElapsed(i) - WorkingElapsed(i, w)}) = TotalElapsed(i) - WorkingElapsed(i, w)
      BY <1>1, <2>2, Remainder
    <3>2. WeekendAndHolidayTime(i, w) = Max({0, TotalElapsed(i) - WorkingElapsed(i, w)})
      BY DEF WeekendAndHolidayTime
    <3>3. WeekendAndHolidayTime(i, w) = TotalElapsed(i) - WorkingElapsed(i, w)
      BY <3>1, <3>2
    <3> QED BY <1>1, <2>2, <3>3
  <2>5. Touched(i) => TimeToFirstTouch(i, w) <= WaitingOnUs(i, w) + WaitingOnClient(i, w)
    BY FirstTouch
  <2> QED BY <2>1, <2>3, <2>4, <2>5
<1> QED BY <1>1, <1>2, <1>3

\* The times on an item's page add up, of every item, in every calendar and for
\* any optional days, and interruptions are no more than starts (build_timeline).
THEOREM TimesAlwaysAddUp == Spec => []TimesAddUp
BY HistoriesAreInOrder, FiguresAddUp, PTL

-----------------------------------------------------------------------------
(* The statistics *)

\* What the statistics take for the client's wait, up to the end of the item,
\* is what its page says.
LEMMA WaitIsOnThePage ==
    ASSUME HistoryInv, NEW i \in Recorded, NEW w
    PROVE  ClientWait(i, DOMAIN history[i], EndOf(i), w)
             = WorkingTimeInState(i, "BLOCKED_ON_CLIENT", w)
<1> DEFINE n == Len(history[i])
           E == Entries(i, "BLOCKED_ON_CLIENT")
           until(k) == IF k < n THEN history[i][k + 1].at ELSE EndOf(i)
<1>1. E \subseteq 1 .. n /\ DOMAIN history[i] = 1 .. n
  BY EntriesOfItem
<1>2. n \in Nat
  BY Bounds
<1>3. ASSUME NEW k \in E PROVE until(k) = Left(i, k)
  <2>1. k \in 1 .. n
    BY <1>1
  <2>2. k # n => Left(i, k) = history[i][k + 1].at
    BY <2>1, Spans
  <2>3. EndOf(i) = Left(i, n)
    BY DEF EndOf
  <2>4. k # n => k < n
    BY <1>2, <2>1
  <2>5. k = n => ~ (k < n)
    BY <1>2
  <2> QED BY <2>2, <2>3, <2>4, <2>5
<1>4. DOMAIN history[i] \cap E = E
  BY <1>1
<1>5. [k \in DOMAIN history[i] \cap E |-> WorkingDuration(history[i][k].at, until(k), w)]
        = [k \in E |-> WorkingDuration(history[i][k].at, Left(i, k), w)]
  <2> HIDE DEF E, until
  <2> QED BY <1>3, <1>4
<1> QED BY <1>5 DEF ClientWait, WorkingTimeInState

\* An item whose first event in the window is NEW is in it from the first
\* event to the last.
LEMMA SeenWhole ==
    ASSUME HistoryInv, NEW i \in Recorded, Seen(i) # {}, FirstSeen(i).to = "NEW"
    PROVE  Min(Seen(i)) = 1 /\ Seen(i) = DOMAIN history[i]
<1> DEFINE h == history[i]
           n == Len(h)
           m == Min(Seen(i))
<1>1. IsHistory(h) /\ h # <<>> /\ now \in Int
  BY RecordedItem
<1>2. n \in Nat /\ n >= 1 /\ DOMAIN h = 1 .. n /\ \A k \in 1 .. n : h[k].at \in Int
  BY <1>1, Entry
<1>3. m \in Seen(i) /\ m \in 1 .. n
  <2>1. Seen(i) \subseteq 1 .. n
    BY <1>2 DEF Seen
  <2>2. Seen(i) \in SUBSET Nat
    BY <1>2, <2>1
  <2> QED BY <2>1, <2>2, MinOfSome
<1>4. m = 1
  <2>1. h[m].to = "NEW"
    BY DEF FirstSeen
  <2> HIDE DEF m, h
  <2> QED BY <1>1, <1>3, <2>1, PlaceInHistory DEF n
<1>5. h[1].at >= now - Window
  BY <1>3, <1>4 DEF Seen
<1>6. ASSUME NEW k \in 1 .. n PROVE h[k].at >= now - Window
  <2>1. 1 \in 1 .. n /\ 1 <= k
    BY <1>2
  <2> HIDE DEF h
  <2>2. h[1].at <= h[k].at
    BY <1>1, <2>1, LaterIsLater DEF n
  <2>3. h[1].at \in Int /\ h[k].at \in Int
    BY <1>2, <2>1
  <2>4. now - Window \in Int
    BY <1>1, FigureAssumption
  <2> QED BY <1>5, <2>2, <2>3, <2>4
<1> QED BY <1>2, <1>4, <1>6 DEF Seen

\* What is sampled of an item that has a history is what is on its page.
LEMMA SamplesAreThePage == HistoryInv => SamplesAreWhole
<1> SUFFICES ASSUME HistoryInv, NEW i \in Recorded, IsSampled(i), NEW w
             PROVE  Sample(i, w) = [elapsed |-> WorkingElapsed(i, w),
                                    clientWait |-> WaitingOnClient(i, w),
                                    accountable |-> AccountableElapsed(i, w)]
  BY DEF SamplesAreWhole
<1> DEFINE h == history[i]
           n == Len(h)
<1>1. Min(Seen(i)) = 1 /\ Seen(i) = DOMAIN h
  BY SeenWhole DEF IsSampled
<1>2. /\ IsHistory(h) /\ h # <<>> /\ StateOf(i) = h[n].to
      /\ LastOf(h) = h[n] /\ n \in 1 .. n
  BY RecordedItem, Entry
<1>3. EndOf(i) = h[n].at
  <2>1. h[n].to \in TERMINAL
    BY <1>2 DEF IsSampled, TERMINAL
  <2> QED BY <1>2, <2>1, Spans DEF EndOf
<1>4. FirstSeen(i).at = StartedAt(i)
  BY <1>1 DEF FirstSeen, StartedAt
<1>5. WorkingDuration(FirstSeen(i).at, LastOf(h).at, w) = WorkingElapsed(i, w)
  BY <1>2, <1>3, <1>4 DEF WorkingElapsed
<1>6. ClientWait(i, Seen(i), LastOf(h).at, w) = WorkingTimeInState(i, "BLOCKED_ON_CLIENT", w)
  BY <1>1, <1>2, <1>3, WaitIsOnThePage
<1>7. WaitingOnClient(i, w) = WorkingTimeInState(i, "BLOCKED_ON_CLIENT", w)
  BY SixShares
<1> QED BY <1>5, <1>6, <1>7 DEF Sample, AccountableElapsed

\* An item in the statistics is there with the whole of its life and with the
\* figures of its own page, however long the window (collect_samples).
THEOREM SamplesAreAlwaysWhole == Spec => []SamplesAreWhole
BY HistoriesAreInOrder, SamplesAreThePage, PTL

\* A life that took some time, of which the client's wait is a part.
MeasuredLife(elapsed, wait, accountable) ==
    elapsed \in Nat /\ wait \in 0 .. elapsed /\ accountable = elapsed - wait

\* What Forecast takes for granted of a finished item, when it is begun, ended
\* and made to wait, is true of whatever the register lets be sampled, for any
\* optional days (collect_samples, Sample.accountable).
THEOREM SamplesFitTheForecast ==
    Spec => [](\A i \in Recorded : IsSampled(i) =>
                  \A w \in MayHaveWorked(i) :
                      MeasuredLife(Sample(i, w).elapsed, Sample(i, w).clientWait,
                                   Sample(i, w).accountable))
<1> DEFINE Fit == \A i \in Recorded : IsSampled(i) =>
                     \A w \in MayHaveWorked(i) :
                         MeasuredLife(Sample(i, w).elapsed, Sample(i, w).clientWait,
                                      Sample(i, w).accountable)
<1>1. HistoryInv => Fit
  <2> SUFFICES ASSUME HistoryInv, NEW i \in Recorded, IsSampled(i), NEW w \in MayHaveWorked(i)
               PROVE  MeasuredLife(Sample(i, w).elapsed, Sample(i, w).clientWait,
                                   Sample(i, w).accountable)
    OBVIOUS
  <2>1. Sample(i, w) = [elapsed |-> WorkingElapsed(i, w),
                        clientWait |-> WaitingOnClient(i, w),
                        accountable |-> AccountableElapsed(i, w)]
    BY SamplesAreThePage DEF SamplesAreWhole
  <2>2. WorkingElapsed(i, w) = AccountableElapsed(i, w) + WaitingOnClient(i, w)
    BY FiguresAddUp DEF TimesAddUp
  <2>3. WorkingElapsed(i, w) \in Nat /\ WaitingOnClient(i, w) \in Nat
    BY SinceGrows, SixShares
  <2>4. AccountableElapsed(i, w) \in Nat
    <3> DEFINE left == WorkingElapsed(i, w) - WorkingTimeInState(i, "BLOCKED_ON_CLIENT", w)
    <3>1. left \in Int
      BY <2>3, SixShares
    <3>2. Max({0, left}) = IF 0 >= left THEN 0 ELSE left
      <4> HIDE DEF left
      <4> QED BY <3>1, MaxOfTwo
    <3>3. AccountableElapsed(i, w) = Max({0, left})
      BY DEF AccountableElapsed
    <3> HIDE DEF left
    <3> QED BY <3>1, <3>2, <3>3
  <2> QED BY <2>1, <2>2, <2>3, <2>4 DEF MeasuredLife
<1> HIDE DEF Fit
<1>2. Spec => []Fit
  BY <1>1, HistoriesAreInOrder, PTL
<1> QED BY <1>2 DEF Fit

\* While an item is open it is charged in the statistics with what its page
\* says.
LEMMA OpenChargeIsThePage ==
    ASSUME HistoryInv, NEW i \in Recorded, NEW w, IsOpen(i)
    PROVE  AccountableSoFar(i, w) = AccountableElapsed(i, w)
<1> DEFINE h == history[i]
           n == Len(h)
<1>1. n \in Nat /\ ~ (n < n)
  BY Bounds
<1>2. EndOf(i) = now
  BY <1>1 DEF EndOf, Left
<1>3. WorkingDuration(StartedAt(i), now, w) = WorkingElapsed(i, w)
  BY <1>2 DEF WorkingElapsed
<1>4. ClientWait(i, DOMAIN h, now, w) = WorkingTimeInState(i, "BLOCKED_ON_CLIENT", w)
  BY <1>2, WaitIsOnThePage
<1> QED BY <1>3, <1>4 DEF AccountableSoFar, AccountableElapsed

\* A step adds at most one event to one history.
LEMMA HistoryGrows ==
    ASSUME HistoryInv, [Next]_vars, NEW i \in Recorded
    PROVE  \/ history'[i] = history[i]
           \/ \E e \in Event : /\ history'[i] = Append(history[i], e)
                               /\ e.to \in ALLOWED[StateOf(i)]
                               /\ LastOf(history[i]).at <= e.at /\ e.at <= now
                               /\ now' = now
<1>1. i \in Items /\ history[i] # <<>> /\ history[i] \in Seq(Event)
  BY RecordedItem DEF IsHistory
<1>2. history \in [Items -> Seq(Event)]
  BY DEF HistoryInv
<1>3. CASE UNCHANGED vars
  BY <1>3 DEF vars
<1>4. CASE Tick
  BY <1>4 DEF Tick
<1>5. ASSUME NEW j \in Items, NEW at \in Time, NEW given, Record(j, at, given)
      PROVE  history'[i] = history[i]
  BY <1>1, <1>2, <1>5 DEF Record
<1>6. ASSUME NEW j \in Items, NEW at \in Time, NEW to \in State,
             NEW d \in Items \cup {None}, Move(j, to, at, d)
      PROVE  \/ history'[i] = history[i]
             \/ \E e \in Event : /\ history'[i] = Append(history[i], e)
                                 /\ e.to \in ALLOWED[StateOf(i)]
                                 /\ LastOf(history[i]).at <= e.at /\ e.at <= now
                                 /\ now' = now
  <2>1. CASE j # i
    BY <1>1, <1>2, <1>6, <2>1 DEF Move
  <2>2. CASE j = i
    <3> DEFINE e == [from |-> LastOf(history[i]).to, to |-> to, at |-> at, displacer |-> d]
    <3>1. e \in Event
      BY <1>1, LastIsEvent DEF Event
    <3>2. e.to = to /\ e.at = at
      OBVIOUS
    <3>3. /\ history' = [history EXCEPT ![i] = Append(history[i], e)]
          /\ to \in ALLOWED[StateOf(i)]
          /\ LastOf(history[i]).at <= at /\ at <= now /\ now' = now
      BY <1>2, <1>6, <2>2 DEF Move, StateOf
    <3> HIDE DEF e
    <3>4. history'[i] = Append(history[i], e)
      BY <1>1, <1>2, <3>3
    <3> QED BY <3>1, <3>2, <3>3, <3>4
  <2> QED BY <2>1, <2>2
<1>7. ASSUME NEW j \in Items, NEW at \in Time, NEW p \in People, Give(j, p, at)
      PROVE  history'[i] = history[i]
  BY <1>7 DEF Give
<1> QED BY <1>3, <1>4, <1>5, <1>6, <1>7 DEF Next

\* An item enters the statistics with what was charged to it until its finish
\* (accountable_so_far, collect_samples).
THEOREM OpenAndFinishedAlike == Spec => OneRuler
<1> DEFINE Charged(i) ==
               IsOpen(i) /\ IsSampled(i)' /\ Worked' = Worked =>
                  /\ Sample(i, Worked)'.accountable <= AccountableSoFar(i, Worked)
                  /\ EndOf(i)' = now =>
                        Sample(i, Worked)'.accountable = AccountableSoFar(i, Worked)
<1>1. ASSUME HistoryInv, HistoryInv', [Next]_vars, NEW i \in Items
      PROVE  Charged(i)
  <2> SUFFICES ASSUME IsOpen(i), IsSampled(i)', Worked' = Worked
               PROVE  /\ Sample(i, Worked)'.accountable <= AccountableSoFar(i, Worked)
                      /\ EndOf(i)' = now =>
                            Sample(i, Worked)'.accountable = AccountableSoFar(i, Worked)
    OBVIOUS
  <2> DEFINE h == history[i]
             g == history'[i]
             n == Len(h)
  <2>1. /\ i \in Recorded /\ StateOf(i) \notin TERMINAL
        /\ i \in Recorded' /\ StateOf(i)' = "DONE"
    BY DEF IsOpen, IsSampled
  <2>2. PICK e \in Event : /\ g = Append(h, e) /\ e.to \in ALLOWED[StateOf(i)]
                           /\ LastOf(h).at <= e.at /\ e.at <= now /\ now' = now
    <3>1. g # h
      BY <2>1 DEF StateOf, TERMINAL
    <3> QED BY <1>1, <2>1, <3>1, HistoryGrows
  <2>3. IsHistory(h) /\ h # <<>> /\ IsHistory(g) /\ g # <<>> /\ now \in Int
    <3>1. IsHistory(g) /\ g # <<>>
      BY <1>1, <2>1 DEF HistoryInv, Recorded
    <3> QED BY <1>1, <2>1, <3>1, RecordedItem
  <2>4. /\ n \in Nat /\ n >= 1 /\ DOMAIN h = 1 .. n /\ DOMAIN g = 1 .. n + 1 /\ Len(g) = n + 1
        /\ \A k \in 1 .. n : g[k] = h[k]
        /\ g[n + 1] = e /\ LastOf(g) = e /\ e.to = "DONE"
    <3>1. h \in Seq(Event) /\ h # <<>>
      BY <2>3 DEF IsHistory
    <3>2. /\ Len(h) \in Nat /\ Len(h) >= 1 /\ DOMAIN h = 1 .. Len(h)
          /\ Append(h, e) \in Seq(Event) /\ Len(Append(h, e)) = Len(h) + 1
          /\ Append(h, e)[Len(h) + 1] = e
          /\ \A k \in 1 .. Len(h) : Append(h, e)[k] = h[k]
      BY <3>1
    <3>3. DOMAIN Append(h, e) = 1 .. Len(h) + 1
      BY <3>2
    <3>4. LastOf(g) = e
      BY <2>2, <3>2 DEF LastOf
    <3>5. StateOf(i)' = LastOf(g).to
      BY DEF StateOf, LastOf
    <3> QED BY <2>1, <2>2, <3>2, <3>3, <3>4, <3>5
  <2>5. PICK w : w = Worked /\ w = Worked'
    OBVIOUS
  <2> DEFINE blocked == WorkingTimeInState(i, "BLOCKED_ON_CLIENT", w)
             start == h[1].at
  <2>6. Sample(i, Worked)'.accountable = AccountableElapsed(i, w)'
    <3>1. SamplesAreWhole'
      BY <1>1, SamplesAreThePage, PTL
    <3>2. w \in MayHaveWorked(i)'
      BY <2>5 DEF MayHaveWorked
    <3>3. Sample(i, w)' = [elapsed |-> WorkingElapsed(i, w)',
                           clientWait |-> WaitingOnClient(i, w)',
                           accountable |-> AccountableElapsed(i, w)']
      BY <2>1, <3>1, <3>2 DEF SamplesAreWhole
    <3>4. Sample(i, Worked)' = Sample(i, w)'
      BY <2>5
    <3> QED BY <3>3, <3>4
  <2>7. EndOf(i)' = e.at
    <3>1. Left(i, Len(history[i]))' = g[n + 1].at
      <4>1. ~ IsOpen(i)' /\ ~ (n + 1 < n + 1)
        BY <2>1, <2>4 DEF IsOpen, TERMINAL
      <4> QED BY <2>4, <4>1 DEF Left
    <3> QED BY <2>4, <3>1 DEF EndOf
  <2>8. blocked' = blocked
    <3> DEFINE E == Entries(i, "BLOCKED_ON_CLIENT")
    <3>1. \A k : k \in E <=> k \in 1 .. n /\ h[k].to = "BLOCKED_ON_CLIENT"
      BY <2>4 DEF Entries
    <3>2. \A k : k \in E' <=> k \in 1 .. n + 1 /\ g[k].to = "BLOCKED_ON_CLIENT"
      BY <2>4 DEF Entries
    <3>8. ASSUME NEW k PROVE k \in E' <=> k \in E
      <4>1. CASE k = n + 1
        <5>1. k \notin 1 .. n /\ g[k].to = "DONE"
          BY <2>4, <4>1
        <5> QED BY <3>1, <3>2, <5>1
      <4>2. CASE k # n + 1
        <5>1. k \in 1 .. n + 1 <=> k \in 1 .. n
          BY <2>4, <4>2
        <5>2. k \in 1 .. n => g[k].to = h[k].to
          BY <2>4
        <5> QED BY <3>1, <3>2, <5>1, <5>2
      <4> QED BY <4>1, <4>2
    <3>4. E' = E
      <4> HIDE DEF E
      <4> QED BY <3>8
    <3>5. h[n].to # "BLOCKED_ON_CLIENT"
      <4>1. n + 1 \in 1 .. Len(g) /\ n \in 1 .. n /\ (n + 1) - 1 = n
        BY <2>4
      <4>2. g[(n + 1) - 1].to # "BLOCKED_ON_CLIENT"
        BY <2>3, <2>4, <4>1, PlaceInHistory
      <4> QED BY <2>4, <4>1, <4>2
    <3>6. ASSUME NEW k \in E
          PROVE  history'[i][k].at = history[i][k].at /\ Left(i, k)' = Left(i, k)
      <4>1. k \in 1 .. n /\ k # n
        BY <3>1, <3>5
      <4>2. k < n /\ k < n + 1 /\ k + 1 \in 1 .. n
        BY <2>4, <4>1
      <4>3. Left(i, k) = h[k + 1].at
        BY <4>2 DEF Left
      <4>4. Left(i, k)' = g[k + 1].at
        BY <2>4, <4>2 DEF Left
      <4> QED BY <2>4, <4>1, <4>2, <4>3, <4>4
    <3>7. [k \in E' |-> WorkingDuration(history'[i][k].at, Left(i, k)', w)]
            = [k \in E |-> WorkingDuration(history[i][k].at, Left(i, k), w)]
      <4> HIDE DEF E
      <4> QED BY <3>4, <3>6
    <3> QED BY <3>7 DEF WorkingTimeInState
  <2>9. /\ start \in Int /\ e.at \in Int /\ start <= e.at
    <3>1. 1 \in 1 .. n + 1 /\ n + 1 \in 1 .. n + 1 /\ 1 <= n + 1 /\ 1 \in 1 .. n
      BY <2>4
    <3> HIDE DEF h, n
    <3>2. g[1].at <= g[n + 1].at /\ g[1].at \in Int /\ g[n + 1].at \in Int
      <4> HIDE DEF g
      <4> QED BY <2>3, <2>4, <3>1, LaterIsLater, Entry
    <3> QED BY <2>4, <3>1, <3>2
  <2>10. AccountableElapsed(i, w)' = Max({0, WorkingDuration(start, e.at, w) - blocked})
    <3>1. StartedAt(i)' = start
      <4>1. 1 \in 1 .. n
        BY <2>4
      <4> QED BY <2>4, <4>1 DEF StartedAt
    <3>2. WorkingElapsed(i, w)' = WorkingDuration(start, e.at, w)
      BY <2>7, <3>1 DEF WorkingElapsed
    <3> QED BY <2>8, <3>2 DEF AccountableElapsed
  <2>11. AccountableSoFar(i, w) = Max({0, WorkingDuration(start, now, w) - blocked})
    <3>1. ~ (n < n)
      BY <2>4
    <3>2. EndOf(i) = now
      BY <3>1 DEF EndOf, Left
    <3>3. WorkingElapsed(i, w) = WorkingDuration(start, now, w)
      BY <3>2 DEF WorkingElapsed, StartedAt
    <3>4. AccountableSoFar(i, w) = AccountableElapsed(i, w)
      BY <1>1, <2>1, OpenChargeIsThePage
    <3> QED BY <3>3, <3>4 DEF AccountableElapsed
  <2>12. blocked \in Nat
    BY <1>1, <2>1, SpentInState
  <2>13. /\ WorkingDuration(start, e.at, w) \in Nat /\ WorkingDuration(start, now, w) \in Nat
         /\ WorkingDuration(start, e.at, w) <= WorkingDuration(start, now, w)
    <3> DEFINE x == start
               y == e.at
    <3>1. x \in Int /\ y \in Int /\ now \in Int /\ x <= y /\ y <= now
      BY <2>2, <2>3, <2>9
    <3> HIDE DEF x, y
    <3>2. WorkingDuration(x, now, w) = WorkingDuration(x, y, w) + WorkingDuration(y, now, w)
      BY <3>1, WorkingTimeAdds
    <3>3. \A a, b \in Int : WorkingDuration(a, b, w) \in Nat
      BY WorkingTimeBounds
    <3>4. /\ WorkingDuration(x, y, w) \in Nat /\ WorkingDuration(x, now, w) \in Nat
          /\ WorkingDuration(y, now, w) \in Nat
      BY <3>1, <3>3
    <3>5. WorkingDuration(x, y, w) <= WorkingDuration(x, now, w)
      BY <3>2, <3>4
    <3> QED BY <3>4, <3>5 DEF x, y
  <2>14. AccountableElapsed(i, w)' <= AccountableSoFar(i, w)
    <3> DEFINE a == WorkingDuration(start, e.at, w)
               b == WorkingDuration(start, now, w)
    <3>1. a \in Int /\ b \in Int /\ blocked \in Int /\ a <= b
      BY <2>12, <2>13
    <3> HIDE DEF a, b, blocked
    <3>2. Max({0, a - blocked}) <= Max({0, b - blocked})
      BY <3>1, LargerRemainder
    <3>3. AccountableElapsed(i, w)' = Max({0, a - blocked}) /\ AccountableSoFar(i, w) = Max({0, b - blocked})
      BY <2>10, <2>11 DEF a, b
    <3> QED BY <3>2, <3>3
  <2>15. EndOf(i)' = now => AccountableElapsed(i, w)' = AccountableSoFar(i, w)
    BY <2>7, <2>10, <2>11
  <2>16. AccountableSoFar(i, Worked) = AccountableSoFar(i, w)
    BY <2>5
  <2> QED BY <2>6, <2>14, <2>15, <2>16
<1>2. HistoryInv /\ HistoryInv' /\ [Next]_vars => [\A i \in Items : Charged(i)]_vars
  BY <1>1
<1> QED BY <1>2, HistoriesAreInOrder, PTL DEF Spec, OneRuler

\* As long as nothing is recorded of an item its end is no earlier, and no state loses
\* working time, whatever optional days come to count.
LEMMA StatesGrow ==
    ASSUME HistoryInv, NEW i \in Recorded, history'[i] = history[i],
           now' \in Int, now <= now', NEW w, NEW w2, w \subseteq w2, NEW s
    PROVE  /\ \A k \in 1 .. Len(history[i]) : Left(i, k)' \in Int /\ Left(i, k) <= Left(i, k)'
           /\ WorkingTimeInState(i, s, w) \in Int /\ WorkingTimeInState(i, s, w2)' \in Int
           /\ WorkingTimeInState(i, s, w) <= WorkingTimeInState(i, s, w2)'
<1> DEFINE h == history[i]
           n == Len(h)
           E == Entries(i, s)
<1>1. IsHistory(h) /\ h # <<>> /\ now \in Int
  BY RecordedItem
<1>2. IsOpen(i)' = IsOpen(i) /\ Entries(i, s)' = E
  BY DEF IsOpen, Recorded, StateOf, Entries
<1>3. ASSUME NEW k \in 1 .. n
      PROVE  /\ h[k].at \in Int /\ Left(i, k) \in Int /\ Left(i, k)' \in Int
             /\ Left(i, k) <= Left(i, k)'
  <2>1. h[k].at \in Int /\ Left(i, k) \in Int
    BY <1>1, Entry, Spans
  <2>2. CASE k < n
    BY <2>1, <2>2 DEF Left
  <2>3. CASE ~ (k < n)
    BY <1>1, <1>2, <2>1, <2>3 DEF Left
  <2> QED BY <2>1, <2>2, <2>3
<1>4. E \subseteq 1 .. n /\ IsFiniteSet(E)
  BY EntriesOfItem
<1> DEFINE f == [k \in E |-> WorkingDuration(h[k].at, Left(i, k), w)]
           g == [k \in E |-> WorkingDuration(h[k].at, Left(i, k)', w2)]
<1>5. WorkingTimeInState(i, s, w) = SumFunction(f) /\ WorkingTimeInState(i, s, w2)' = SumFunction(g)
  <2>1. WorkingTimeInState(i, s, w) = SumFunction(f)
    BY DEF WorkingTimeInState
  <2>2. [k \in Entries(i, s)' |-> WorkingDuration(history'[i][k].at, Left(i, k)', w2)] = g
    <3>1. Entries(i, s)' = E /\ history'[i] = h
      BY <1>2
    <3> HIDE DEF E, h
    <3> QED BY <3>1
  <2>3. WorkingTimeInState(i, s, w2)' = SumFunction(g)
    BY <2>2 DEF WorkingTimeInState
  <2> QED BY <2>1, <2>3
<1>6. ASSUME NEW k \in E
      PROVE  f[k] \in Int /\ g[k] \in Int /\ f[k] <= g[k]
  <2>1. k \in 1 .. n
    BY <1>4
  <2> DEFINE a == h[k].at
             b == Left(i, k)
             c == Left(i, k)'
  <2>2. a \in Int /\ b \in Int /\ c \in Int /\ b <= c
    BY <1>3, <2>1
  <2>3. f[k] = WorkingDuration(a, b, w) /\ g[k] = WorkingDuration(a, c, w2)
    OBVIOUS
  <2>4. ASSUME NEW x \in Int, NEW y \in Int, NEW z \in Int, y <= z
        PROVE  /\ WorkingDuration(x, y, w) \in Int /\ WorkingDuration(x, z, w2) \in Int
               /\ WorkingDuration(x, y, w) <= WorkingDuration(x, z, w2)
    BY <2>4, WorkingTimeGrows
  <2>5. /\ WorkingDuration(a, b, w) \in Int /\ WorkingDuration(a, c, w2) \in Int
        /\ WorkingDuration(a, b, w) <= WorkingDuration(a, c, w2)
    <3> HIDE DEF a, b, c
    <3> QED BY <2>2, <2>4
  <2> HIDE DEF f, g
  <2> QED BY <2>3, <2>5
<1>7. DOMAIN f = E /\ DOMAIN g = E
  OBVIOUS
<1> HIDE DEF f, g, E
<1>8. SumFunctionOnSet(f, E) <= SumFunctionOnSet(g, E)
  BY <1>4, <1>6, SumBelow
<1>9. SumFunctionOnSet(f, E) \in Int /\ SumFunctionOnSet(g, E) \in Int
  BY <1>4, <1>6, SumType
<1> QED BY <1>3, <1>5, <1>7, <1>8, <1>9, SumOfAll

\* The clock goes forward.
LEMMA ClockForward ==
    ASSUME HistoryInv, [Next]_vars
    PROVE  now \in Int /\ now' \in Int /\ now <= now'
<1>1. now \in Int
  BY HistoryAssumption DEF HistoryInv, Time
<1>2. now' = now \/ now' = now + 1
  BY DEF Next, Tick, Record, Move, Give, vars
<1> QED BY <1>1, <1>2

\* A finished item's figures grow by the optional days that come to count, and by
\* nothing else (build_timeline, assign).
THEOREM FinishedFiguresOnlyGrow == Spec => FinishedFiguresGrow
<1> DEFINE Final(i) ==
               ~ IsOpen(i) =>
                  /\ \A s \in State : TimeInState(i, s)' = TimeInState(i, s)
                  /\ \A w \in MayHaveWorked(i), w2 \in MayHaveWorked(i)' : w \subseteq w2 =>
                        /\ WorkingElapsed(i, w2)'
                              = WorkingElapsed(i, w) + Cardinality(Gained(i, w, w2))
                        /\ \A s \in State :
                              WorkingTimeInState(i, s, w) <= WorkingTimeInState(i, s, w2)'
<1>1. ASSUME HistoryInv, [Next]_vars, NEW i \in Recorded, ~ IsOpen(i)
      PROVE  /\ \A s \in State : TimeInState(i, s)' = TimeInState(i, s)
             /\ \A w \in MayHaveWorked(i), w2 \in MayHaveWorked(i)' : w \subseteq w2 =>
                   /\ WorkingElapsed(i, w2)'
                         = WorkingElapsed(i, w) + Cardinality(Gained(i, w, w2))
                   /\ \A s \in State :
                         WorkingTimeInState(i, s, w) <= WorkingTimeInState(i, s, w2)'
  <2>1. StateOf(i) \in TERMINAL
    BY <1>1 DEF IsOpen
  <2>2. history'[i] = history[i]
    <3>1. ALLOWED[StateOf(i)] = {}
      BY <2>1 DEF TERMINAL, ALLOWED
    <3> QED BY <1>1, <3>1, HistoryGrows
  <2>3. ~ IsOpen(i)'
    BY <2>1, <2>2 DEF IsOpen, StateOf
  <2>4. \A k : Left(i, k)' = Left(i, k)
    BY <1>1, <2>2, <2>3 DEF Left
  <2>5. \A s : Entries(i, s)' = Entries(i, s)
    BY <2>2 DEF Entries
  <2>6. ASSUME NEW s
        PROVE  TimeInState(i, s)' = TimeInState(i, s)
    <3>1. [k \in Entries(i, s)' |-> Left(i, k)' - history'[i][k].at]
            = [k \in Entries(i, s) |-> Left(i, k) - history[i][k].at]
      BY <2>2, <2>4, <2>5
    <3> QED BY <3>1 DEF TimeInState
  <2>7. EndOf(i)' = EndOf(i) /\ StartedAt(i)' = StartedAt(i)
    BY <2>2, <2>4 DEF EndOf, StartedAt
  <2>8. StartedAt(i) \in Int /\ EndOf(i) \in Int
    <3>1. /\ Len(history[i]) \in Nat /\ Len(history[i]) >= 1
          /\ Bound(i, 1) = StartedAt(i) /\ Bound(i, Len(history[i]) + 1) = EndOf(i)
          /\ \A k \in 1 .. Len(history[i]) + 1 : Bound(i, k) \in Int
      BY <1>1, Bounds
    <3>2. 1 \in 1 .. Len(history[i]) + 1 /\ Len(history[i]) + 1 \in 1 .. Len(history[i]) + 1
      BY <3>1
    <3> QED BY <3>1, <3>2
  <2>9. ASSUME NEW w \in MayHaveWorked(i), NEW w2 \in MayHaveWorked(i)', w \subseteq w2
        PROVE  WorkingElapsed(i, w2)' = WorkingElapsed(i, w) + Cardinality(Gained(i, w, w2))
    <3> DEFINE a == StartedAt(i)
               b == EndOf(i)
               S == WorkingTicks(a, b, w)
               G == Gained(i, w, w2)
               T == WorkingTicks(a, b, w2)
    <3>1. \A d \in w2 : IsOptional(d)
      BY <2>9 DEF MayHaveWorked, Worked, Resolved
    <3>2. T = S \cup G /\ S \cap G = {} /\ T \subseteq a .. b - 1
      BY <2>9, <3>1 DEF Gained, WorkingTicks, IsWorkingDay
    <3>3. WorkingElapsed(i, w) = Cardinality(S) /\ WorkingElapsed(i, w2)' = Cardinality(T)
      BY <2>7, <2>8, WorkingTimeCountsTicks DEF WorkingElapsed, CountsTicks
    <3>4. IsFiniteSet(a .. b - 1)
      BY <2>8, FS_Interval
    <3> HIDE DEF a, b, S, G, T
    <3>5. IsFiniteSet(T) /\ IsFiniteSet(S) /\ IsFiniteSet(G)
      <4>1. IsFiniteSet(T)
        BY <3>2, <3>4, FS_Subset
      <4> QED BY <3>2, <4>1, FS_Subset
    <3>6. Cardinality(S \cup G) = Cardinality(S) + Cardinality(G) - Cardinality(S \cap G)
      BY <3>5, FS_Union
    <3>7. Cardinality(S \cap G) = 0 /\ Cardinality(S) \in Nat /\ Cardinality(G) \in Nat
      BY <3>2, <3>5, FS_EmptySet, FS_CardinalityType
    <3>8. Cardinality(T) = Cardinality(S) + Cardinality(G)
      BY <3>2, <3>6, <3>7
    <3> QED BY <3>3, <3>8 DEF G
  <2>10. \A w, w2, s : w \subseteq w2 => WorkingTimeInState(i, s, w) <= WorkingTimeInState(i, s, w2)'
    BY <1>1, <2>2, ClockForward, StatesGrow
  <2> QED BY <2>6, <2>9, <2>10
<1>2. HistoryInv /\ [Next]_vars => [\A i \in Recorded : Final(i)]_vars
  BY <1>1
<1> QED BY <1>2, HistoriesAreInOrder, PTL DEF Spec, FinishedFiguresGrow

-----------------------------------------------------------------------------
(* Attention *)

\* The days on which anything was recorded stay, and others join them.
LEMMA WorkedGrows ==
    ASSUME HistoryInv, [Next]_vars
    PROVE  Worked \subseteq Worked'
<1>1. now \in Int /\ now' \in Int /\ now <= now'
  BY ClockForward
<1>2. Today \in Int /\ Today' \in Int /\ Today <= Today'
  BY <1>1, DayOfTick, DaysForward DEF Today
<1>3. ASSUME NEW i \in Recorded
      PROVE  i \in Recorded' /\ DaysOf(i) \subseteq DaysOf(i)'
  <2>1. i \in Items /\ history[i] # <<>> /\ history[i] \in Seq(Event)
    BY RecordedItem DEF IsHistory
  <2>2. CASE history'[i] = history[i]
    BY <2>1, <2>2 DEF Recorded, DaysOf
  <2>3. CASE history'[i] # history[i]
    <3>1. PICK e \in Event : history'[i] = Append(history[i], e)
      BY <2>3, HistoryGrows
    <3>2. /\ DOMAIN history[i] \subseteq DOMAIN Append(history[i], e)
          /\ \A k \in DOMAIN history[i] : Append(history[i], e)[k] = history[i][k]
          /\ Append(history[i], e) # <<>>
      BY <2>1
    <3> QED BY <2>1, <3>1, <3>2 DEF Recorded, DaysOf
  <2> QED BY <2>2, <2>3
<1> DEFINE active == UNION {DaysOf(i) : i \in Recorded}
<1>4. active \subseteq active'
  BY <1>3
<1>5. Worked = Resolved(0, Today, active) /\ Worked' = Resolved(0, Today', active')
  BY DEF Worked
<1> HIDE DEF active
<1>6. \A d \in 0 .. Today : d \in 0 .. Today'
  BY <1>2
<1> QED BY <1>4, <1>5, <1>6 DEF Resolved

\* What was charged to an open item is its working time in the states which are not
\* the client's.
OpenCharge ==
    \A i \in Recorded : IsOpen(i) => \A w :
        AccountableSoFar(i, w) =
            WorkingTimeInState(i, "NEW", w) + WorkingTimeInState(i, "QUEUED", w)
            + WorkingTimeInState(i, "ON_HOLD_PREEMPTED", w)
            + WorkingTimeInState(i, "IN_PROGRESS", w)
            + WorkingTimeInState(i, "IN_VERIFICATION", w)

LEMMA ChargeIsShared == HistoryInv => OpenCharge
<1> SUFFICES ASSUME HistoryInv, NEW i \in Recorded, IsOpen(i), NEW w
             PROVE  AccountableSoFar(i, w) =
                       WorkingTimeInState(i, "NEW", w) + WorkingTimeInState(i, "QUEUED", w)
                       + WorkingTimeInState(i, "ON_HOLD_PREEMPTED", w)
                       + WorkingTimeInState(i, "IN_PROGRESS", w)
                       + WorkingTimeInState(i, "IN_VERIFICATION", w)
  BY DEF OpenCharge
<1>1. AccountableSoFar(i, w) = AccountableElapsed(i, w)
  BY OpenChargeIsThePage
<1>2. /\ WorkingElapsed(i, w) = ActiveTime(i, w) + VerificationTime(i, w)
                                + WaitingOnUs(i, w) + WaitingOnClient(i, w)
      /\ ActiveTime(i, w) \in Nat /\ VerificationTime(i, w) \in Nat
      /\ WaitingOnUs(i, w) \in Nat /\ WaitingOnClient(i, w) \in Nat
      /\ WaitingOnClient(i, w) = WorkingTimeInState(i, "BLOCKED_ON_CLIENT", w)
      /\ WaitingOnUs(i, w) = WorkingTimeInState(i, "NEW", w)
                             + WorkingTimeInState(i, "QUEUED", w)
                             + WorkingTimeInState(i, "ON_HOLD_PREEMPTED", w)
  BY SixShares
<1>3. WorkingElapsed(i, w) \in Nat /\ WaitingOnClient(i, w) <= WorkingElapsed(i, w)
  BY <1>2
<1>4. AccountableElapsed(i, w) = WorkingElapsed(i, w) - WaitingOnClient(i, w)
  <2>1. Max({0, WorkingElapsed(i, w) - WaitingOnClient(i, w)})
          = WorkingElapsed(i, w) - WaitingOnClient(i, w)
    BY <1>2, <1>3, Remainder
  <2> QED BY <1>2, <2>1 DEF AccountableElapsed
<1>5. AccountableSoFar(i, w) = ActiveTime(i, w) + VerificationTime(i, w) + WaitingOnUs(i, w)
  BY <1>1, <1>2, <1>4
<1>6. \A s : WorkingTimeInState(i, s, w) \in Nat
  BY SpentInState
<1> QED BY <1>2, <1>5, <1>6 DEF ActiveTime, VerificationTime

\* Up to a day there are fewer working days left later.
LEMMA FewerDaysLeft ==
    ASSUME NEW w, NEW today \in Int, NEW later \in Int, today <= later, NEW due \in Int
    PROVE  /\ WorkingDaysBetween(today, due, w) \in Nat
           /\ WorkingDaysBetween(later, due, w) \in Nat
           /\ WorkingDaysBetween(later, due, w) <= WorkingDaysBetween(today, due, w)
<1> DEFINE S == {d \in today .. due : IsWorkingDay(d, w)}
           T == {d \in later .. due : IsWorkingDay(d, w)}
<1>1. T \subseteq S /\ S \subseteq today .. due
  OBVIOUS
<1>2. IsFiniteSet(today .. due)
  BY FS_Interval
<1>3. WorkingDaysBetween(today, due, w) = Cardinality(S)
      /\ WorkingDaysBetween(later, due, w) = Cardinality(T)
  BY DEF WorkingDaysBetween
<1> HIDE DEF S, T
<1>4. IsFiniteSet(S)
  BY <1>1, <1>2, FS_Subset
<1>5. IsFiniteSet(T) /\ Cardinality(T) <= Cardinality(S)
  BY <1>1, <1>4, FS_Subset
<1> QED BY <1>3, <1>4, <1>5, FS_CardinalityType

\* As long as nothing is recorded of an open item no less is charged to it.
LEMMA ChargeGrows ==
    ASSUME HistoryInv, HistoryInv', [Next]_vars, NEW i \in Recorded, history'[i] = history[i],
           IsOpen(i), NEW w, NEW w2, w \subseteq w2
    PROVE  /\ AccountableSoFar(i, w) \in Int /\ AccountableSoFar(i, w2)' \in Int
           /\ AccountableSoFar(i, w) <= AccountableSoFar(i, w2)'
<1> DEFINE x(s) == WorkingTimeInState(i, s, w)
           y(s) == WorkingTimeInState(i, s, w2)'
<1>1. \A s : x(s) \in Int /\ y(s) \in Int /\ x(s) <= y(s)
  BY ClockForward, StatesGrow
<1>2. OpenCharge /\ OpenCharge'
  BY ChargeIsShared, PTL
<1>3. i \in Recorded' /\ IsOpen(i)'
  BY DEF IsOpen, Recorded, StateOf
<1>4. AccountableSoFar(i, w) = x("NEW") + x("QUEUED") + x("ON_HOLD_PREEMPTED")
                               + x("IN_PROGRESS") + x("IN_VERIFICATION")
  BY <1>2 DEF OpenCharge
<1>5. AccountableSoFar(i, w2)' = y("NEW") + y("QUEUED") + y("ON_HOLD_PREEMPTED")
                                 + y("IN_PROGRESS") + y("IN_VERIFICATION")
  BY <1>2, <1>3 DEF OpenCharge
<1> HIDE DEF x, y
<1> QED BY <1>1, <1>4, <1>5

\* A warning stays as long as nothing is done about the item, and the yardsticks do
\* not grow (build_attention).
THEOREM WarningsDoNotExpire == Spec => WarningsStay
<1> DEFINE Stay(i) ==
               history'[i] = history[i] =>
                  /\ Stalled(i) => Stalled(i)'
                  /\ \A likely \in Time : Overrunning(i, likely) =>
                        \A now_likely \in 0 .. likely :
                            (Stalled(i) \/ Overrunning(i, now_likely))'
                  /\ \A due \in Dates :
                        /\ Overdue(i, due) => Overdue(i, due)'
                        /\ DueSoon(i, due) /\ Worked' = Worked =>
                              \/ (Overdue(i, due) \/ DueSoon(i, due))'
                              \/ WorkingDaysBetween(Today, due, Worked)' = 0
<1>1. ASSUME HistoryInv, HistoryInv', [Next]_vars, NEW i \in Recorded, history'[i] = history[i]
      PROVE  /\ Stalled(i) => Stalled(i)'
             /\ \A likely \in Time : Overrunning(i, likely) =>
                   \A now_likely \in 0 .. likely : (Stalled(i) \/ Overrunning(i, now_likely))'
             /\ \A due \in Dates :
                   /\ Overdue(i, due) => Overdue(i, due)'
                   /\ DueSoon(i, due) /\ Worked' = Worked =>
                         \/ (Overdue(i, due) \/ DueSoon(i, due))'
                         \/ WorkingDaysBetween(Today, due, Worked)' = 0
  <2>1. now \in Int /\ now' \in Int /\ now <= now'
    BY <1>1, ClockForward
  <2>2. PICK w, w2 : w = Worked /\ w2 = Worked' /\ w \subseteq w2
    BY <1>1, WorkedGrows
  <2>3. StateOf(i)' = StateOf(i) /\ (IsOpen(i)' <=> IsOpen(i))
    BY <1>1 DEF StateOf, IsOpen, Recorded
  <2>4. Stalled(i) => Stalled(i)'
    <3> DEFINE last == LastOf(history[i]).at
               y == now
               z == now'
    <3>1. StaleAfter * DayLen \in Int
      BY CalendarAssumption, FigureAssumption
    <3>2. last \in Int
      BY <1>1, RecordedItem, Entry DEF LastOf
    <3>3. /\ WorkingDuration(last, y, w) \in Int /\ WorkingDuration(last, z, w2) \in Int
          /\ WorkingDuration(last, y, w) <= WorkingDuration(last, z, w2)
      <4>1. y \in Int /\ z \in Int /\ y <= z
        BY <2>1
      <4> HIDE DEF last, y, z
      <4> QED BY <2>2, <3>2, <4>1, WorkingTimeGrows
    <3>4. Stalled(i) <=> /\ IsOpen(i) /\ StateOf(i) # "BLOCKED_ON_CLIENT"
                         /\ WorkingDuration(last, y, w) >= StaleAfter * DayLen
      BY <2>2 DEF Stalled
    <3>5. Stalled(i)' <=> /\ IsOpen(i)' /\ StateOf(i)' # "BLOCKED_ON_CLIENT"
                          /\ WorkingDuration(last, z, w2) >= StaleAfter * DayLen
      BY <1>1, <2>2 DEF Stalled
    <3> QED BY <2>3, <3>1, <3>3, <3>4, <3>5
  <2>5. ASSUME NEW likely \in Time, Overrunning(i, likely), NEW now_likely \in 0 .. likely
        PROVE  Stalled(i)' \/ Overrunning(i, now_likely)'
    <3>1. IsOpen(i) /\ StateOf(i) # "BLOCKED_ON_CLIENT" /\ AccountableSoFar(i, w) > likely
      BY <2>2, <2>5 DEF Overrunning
    <3>2. likely \in Int /\ now_likely \in Int /\ now_likely <= likely
      BY HistoryAssumption DEF Time
    <3>3. /\ AccountableSoFar(i, w) \in Int /\ AccountableSoFar(i, w2)' \in Int
          /\ AccountableSoFar(i, w) <= AccountableSoFar(i, w2)'
      BY <1>1, <2>2, <3>1, ChargeGrows
    <3>4. AccountableSoFar(i, w2)' > now_likely
      BY <3>1, <3>2, <3>3
    <3>5. AccountableSoFar(i, Worked)' > now_likely
      BY <2>2, <3>4
    <3> QED BY <2>3, <3>1, <3>5 DEF Overrunning
  <2>6. ASSUME NEW due \in Dates
        PROVE  due \in Int /\ Today \in Int /\ Today' \in Int /\ Today <= Today'
    <3>1. due \in Int
      BY HistoryAssumption, DayOfTick DEF Dates
    <3> QED BY <2>1, <3>1, DayOfTick, DaysForward DEF Today
  <2>7. ASSUME NEW due \in Dates, Overdue(i, due)
        PROVE  Overdue(i, due)'
    <3>1. due < Today /\ IsOpen(i)
      BY <2>7 DEF Overdue
    <3>2. due < Today'
      BY <2>6, <3>1
    <3> QED BY <2>3, <3>1, <3>2 DEF Overdue
  <2>8. ASSUME NEW due \in Dates, DueSoon(i, due), Worked' = Worked
        PROVE  \/ Overdue(i, due)' \/ DueSoon(i, due)'
               \/ WorkingDaysBetween(Today, due, Worked)' = 0
    <3>1. IsOpen(i) /\ StateOf(i) \in {"NEW", "QUEUED", "ON_HOLD_PREEMPTED"} /\ IsOpen(i)'
      BY <2>3, <2>8 DEF DueSoon
    <3>2. CASE due < Today'
      BY <3>1, <3>2 DEF Overdue
    <3>3. CASE ~ (due < Today')
      <4>1. Today' <= due
        BY <2>6, <3>3
      <4> DEFINE x == Today
                 y == Today'
                 left == WorkingDaysBetween(x, due, w)
                 then == WorkingDaysBetween(y, due, w)
      <4>2. left \in Nat /\ then \in Nat /\ then <= left
        <5>1. x \in Int /\ y \in Int /\ x <= y /\ due \in Int
          BY <2>6
        <5> HIDE DEF x, y
        <5> QED BY <5>1, FewerDaysLeft
      <4>3. DaysLeft(due) = left - 1 /\ DaysLeft(due)' = then - 1
            /\ WorkingDaysBetween(Today, due, Worked)' = then
        BY <2>2, <2>8 DEF DaysLeft
      <4>4. left - 1 \in 0 .. 2
        BY <2>8, <4>3 DEF DueSoon
      <4> HIDE DEF left, then
      <4>5. CASE then = 0
        BY <4>3, <4>5
      <4>6. CASE then # 0
        <5>1. DaysLeft(due)' \in 0 .. 2
          BY <4>2, <4>3, <4>4, <4>6
        <5> QED BY <2>3, <3>1, <4>1, <5>1 DEF DueSoon
      <4> QED BY <4>5, <4>6
    <3> QED BY <3>2, <3>3
  <2> QED BY <2>4, <2>5, <2>7, <2>8
<1>2. HistoryInv /\ HistoryInv' /\ [Next]_vars => [\A i \in Recorded : Stay(i)]_vars
  BY <1>1
<1> QED BY <1>2, HistoriesAreInOrder, PTL DEF Spec, WarningsStay

=============================================================================
