------------------------------- MODULE Forecast -------------------------------
(***************************************************************************)
(* What is foretold and reported from finished work: the cohort a forecast *)
(* is drawn from, its percentiles, the throughput and the client reports,  *)
(* while items finish and old ones leave the window.  How a sample is      *)
(* measured is the matter of Figures; here every day is a working day.     *)
(*                                                                         *)
(* Sources: src/backend/app/flow/statistics.py, reporting.py               *)
(***************************************************************************)
EXTENDS Integers, FiniteSets, FiniteSetsExt, Functions, Sequences, SequencesExt

CONSTANTS
    Work,       \* items
    Labels,     \* type, priority, client of an item and team of its owner
    Null,       \* SQL NULL
    MinSample,  \* min_sample, MIN_SAMPLE unless said otherwise
    Horizon,    \* ticks the statistics look back
    WeekLen,    \* ticks in a week
    Weeks,      \* weeks of throughput shown
    MaxClock    \* bound on time

\* What is kept of an item that is done.
Life == [label: Labels, from: 0 .. MaxClock, to: 0 .. MaxClock, wait: 0 .. MaxClock]

\* What is assumed of the constants; MCRecords has it checked.
ForecastAssumption ==
    /\ IsFiniteSet(Work) /\ IsFiniteSet(Labels) /\ Null \notin Life
    /\ MinSample \in Nat \ {0} /\ Horizon \in Nat
    /\ WeekLen \in Nat \ {0} /\ Weeks \in Nat /\ MaxClock \in Nat

MIN_SAMPLE_Six == 6
MIN_SAMPLE == 8

VARIABLES
    clock,
    finished  \* the items that are done, measured; Null for the others

forecastVars == <<clock, finished>>

InitForecast ==
    /\ clock = 0
    /\ finished = [i \in Work |-> Null]

ClockTick ==
    /\ clock < MaxClock
    /\ clock' = clock + 1
    /\ UNCHANGED finished

\* An item is done, at the latest now; it waited some of its time for the client.
Finish(i, life) ==
    /\ finished[i] = Null
    /\ life.from < life.to
    /\ life.to <= clock
    /\ life.wait <= life.to - life.from
    /\ finished' = [finished EXCEPT ![i] = life]
    /\ UNCHANGED clock

NextForecast == ClockTick \/ \E i \in Work, life \in Life : Finish(i, life)

SpecForecast == InitForecast /\ [][NextForecast]_forecastVars

-----------------------------------------------------------------------------
(* Samples and cohorts *)

\* Items recorded before the window are not counted, finished in it or not.
Samples == {i \in Work : finished[i] # Null /\ finished[i].from >= clock - Horizon}

Label(i) == finished[i].label
Elapsed(i) == finished[i].to - finished[i].from
Accountable(i) == Elapsed(i) - finished[i].wait

\* From the most comparable to all: cohort_for takes the first that is enough.
Ladder(type, priority) ==
    <<{i \in Samples : Label(i).type = type /\ Label(i).priority = priority},
      {i \in Samples : Label(i).type = type},
      Samples>>

IsSufficient(cohort) == Cardinality(cohort) >= MinSample

Rung(type, priority) ==
    Min({k \in 1 .. 3 : IsSufficient(Ladder(type, priority)[k])} \cup {3})

CohortFor(type, priority) == Ladder(type, priority)[Rung(type, priority)]

-----------------------------------------------------------------------------
(* Percentiles *)

\* The percentages a forecast asks for, in hundredths.
Percentages == {50, 85, 100}

NearestRank_Down(p, n) == Max({1, (p * n) \div 100})
\* ceil(p * n), kept within the sample.  The code multiplies floating-point
\* numbers.  For the three percentages the product rounds up as the exact one
\* does, whatever n: 0.5 and 1.0 are exact, and 0.85 is below 85/100 by less than
\* the product is rounded by.  Of others this is not true: 0.07 * 100 gives 8.
NearestRank(p, n) == Max({1, Min({n, (p * n + 99) \div 100})})

\* The samples from the quickest to the slowest.
Ascending(order) ==
    \A j, k \in DOMAIN order : j < k => Accountable(order[j]) <= Accountable(order[k])
Ordered(cohort) == CHOOSE order \in SetToSeqs(cohort) : Ascending(order)

Percentile(p, cohort) ==
    IF cohort = {} THEN 0
    ELSE Accountable(Ordered(cohort)[NearestRank(p, Cardinality(cohort))])

Known(type, priority) == IsSufficient(CohortFor(type, priority))
Typical(type, priority) == Percentile(50, CohortFor(type, priority))
LikelyWithin(type, priority) == Percentile(85, CohortFor(type, priority))
Worst(type, priority) == Percentile(100, CohortFor(type, priority))

-----------------------------------------------------------------------------
(* Throughput and client reports *)

InBucket(i, end) == end - WeekLen < finished[i].to /\ finished[i].to <= end

\* Items finished in the week that ended `index` weeks ago.
Throughput(index) ==
    Cardinality({i \in Samples : InBucket(i, clock - index * WeekLen)})

Permitted_Owned(i, teams) == Label(i).team \in teams
\* Work of nobody's team is everybody's.
Permitted(i, teams) == Label(i).team = Null \/ Label(i).team \in teams

\* build_client_reports for a viewer of these teams; who sees every team is
\* not narrowed.
Reported(teams) == {i \in Samples : Permitted(i, teams)}
OfClient(client, teams) == {i \in Reported(teams) : Label(i).client = client}

Ours(set) == SumFunction([i \in set |-> Accountable(i)])
Theirs(set) == SumFunction([i \in set |-> finished[i].wait])
TotalTime(set) == SumFunction([i \in set |-> Elapsed(i)])

\* by_type_totals, over the samples of the reports
OfType(type, teams) == {i \in Reported(teams) : Label(i).type = type}

-----------------------------------------------------------------------------
(* Properties *)

\* What is kept of the finished items is measured: inductive.
ForecastInv ==
    /\ clock \in Nat
    /\ finished \in [Work -> Life \cup {Null}]
    /\ \A i \in Work : finished[i] # Null =>
          /\ finished[i].from < finished[i].to
          /\ finished[i].to <= clock
          /\ finished[i].wait <= finished[i].to - finished[i].from

Types == {l.type : l \in Labels}
Priorities == {l.priority : l \in Labels}
Clients == {l.client : l \in Labels}
Teams == {l.team : l \in Labels} \ {Null}

\* There is an answer exactly when there is enough finished work of any kind,
\* and it is drawn from a cohort no wider than it has to be (cohort_for).
\* "Half finish within" and "85% finish within" are true of the cohort and of
\* nothing shorter, and nothing in it took longer than its worst (percentile).
ForecastsAreTrue ==
    \A t \in Types, p \in Priorities :
        LET cohort == CohortFor(t, p)
            within(x) == 100 * Cardinality({i \in cohort : Accountable(i) <= x})
            before(x) == 100 * Cardinality({i \in cohort : Accountable(i) < x})
            holds(x, q) == within(x) >= q * Cardinality(cohort) /\ before(x) < q * Cardinality(cohort)
        IN /\ Known(t, p) <=> IsSufficient(Samples)
           /\ \A k \in 1 .. 3 : IsSufficient(Ladder(t, p)[k]) => cohort \subseteq Ladder(t, p)[k]
           /\ Known(t, p) =>
                 /\ holds(Typical(t, p), 50)
                 /\ holds(LikelyWithin(t, p), 85)
                 /\ \A i \in cohort : Accountable(i) <= Worst(t, p)

\* Whatever the items are divided by, each is counted once: by the week it was
\* finished in, as far back as the chart goes; by client and by type, for every
\* viewer, and then their time is ours and theirs.  Viewers with no team in
\* common share the items of no team, and together all viewers see every item
\* (throughput, build_client_reports, by_type_totals).
TalliesAgree ==
    /\ SumFunction([index \in 0 .. Weeks - 1 |-> Throughput(index)]) =
           Cardinality({i \in Samples : finished[i].to > clock - Weeks * WeekLen})
    /\ \A teams \in SUBSET Teams :
           /\ Cardinality(Reported(teams)) =
                 SumFunction([c \in Clients |-> Cardinality(OfClient(c, teams))])
           /\ SumFunction([c \in Clients |-> TotalTime(OfClient(c, teams))]) =
                 SumFunction([t \in Types |-> TotalTime(OfType(t, teams))])
           /\ \A c \in Clients :
                 TotalTime(OfClient(c, teams)) = Ours(OfClient(c, teams)) + Theirs(OfClient(c, teams))
           /\ \A others \in SUBSET (Teams \ teams) :
                 Reported(teams) \cap Reported(others) = {i \in Samples : Label(i).team = Null}
    /\ UNION {Reported({t}) : t \in Teams} = Samples

\* A percentile is an item of the cohort, and the first one that is high
\* enough: at no size of the cohort does it fall between two ranks (percentile).
RankIsExact(p, n) ==
    LET rank == NearestRank(p, n) IN
    rank \in 1 .. n /\ p * n <= 100 * rank /\ 100 * (rank - 1) < p * n

\* "One unusual item can no longer define the whole upper bound on its own":
\* from the minimum on, the 85th percentile is not the slowest item (MIN_SAMPLE).
OutlierIsNotTheBound(n) == n >= MIN_SAMPLE => NearestRank(85, n) < n

==============================================================================
