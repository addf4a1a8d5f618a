---------------------------- MODULE ForecastProofs ----------------------------
(***************************************************************************)
(* The ranks of the percentiles that a forecast asks for, for every size   *)
(* of the cohort; the tallies, which count each finished item once; and    *)
(* what a forecast says of the cohort it is drawn from.                    *)
(***************************************************************************)
EXTENDS Questions, SumTheorems, TLAPS

-----------------------------------------------------------------------------
(* Ranks *)

\* The larger of two numbers,
LEMMA MaxOfTwo ==
    ASSUME NEW a \in Int, NEW b \in Int
    PROVE  Max({a, b}) = IF a >= b THEN a ELSE b
BY DEF Max

\* and the smaller.
LEMMA MinOfTwo ==
    ASSUME NEW a \in Int, NEW b \in Int
    PROVE  Min({a, b}) = IF a <= b THEN a ELSE b
BY DEF Min

\* Rounding up to whole hundreds.
LEMMA RoundedUp ==
    ASSUME NEW x \in Nat
    PROVE  LET up == (x + 99) \div 100 IN
           up \in Nat /\ x <= 100 * up /\ 100 * (up - 1) < x
OBVIOUS

\* The bounds on the rank are never needed.
LEMMA RankIsRoundedUp ==
    ASSUME NEW p \in Percentages, NEW n \in Nat \ {0}
    PROVE  /\ NearestRank(p, n) = (p * n + 99) \div 100
           /\ NearestRank(p, n) \in 1 .. n
           /\ p * n <= 100 * NearestRank(p, n)
           /\ 100 * (NearestRank(p, n) - 1) < p * n
<1> DEFINE x == p * n
           up == (x + 99) \div 100
<1>1. x \in Nat /\ x >= 1 /\ x <= 100 * n
  BY DEF Percentages
<1> HIDE DEF x
<1>2. up \in Nat /\ x <= 100 * up /\ 100 * (up - 1) < x
  BY <1>1, RoundedUp
<1>3. up \in 1 .. n
  BY <1>1, <1>2
<1> HIDE DEF up
<1>4. Max({1, Min({n, up})}) = up
  <2>1. Min({n, up}) = up
    BY <1>3, MinOfTwo
  <2> QED BY <1>3, <2>1, MaxOfTwo
<1>5. NearestRank(p, n) = up
  BY <1>4 DEF NearestRank, up, x
<1> QED BY <1>2, <1>3, <1>5 DEF up, x

\* Each percentile that a forecast asks for is the first item of the cohort that
\* is high enough, of cohorts of every size (forecast, percentile).
THEOREM RanksAreExactForAll ==
    \A p \in Percentages, n \in Nat \ {0} : RankIsExact(p, n)
BY RankIsRoundedUp DEF RankIsExact

\* From MIN_SAMPLE on, the slowest item of a cohort is never its 85th
\* percentile, however large the cohort is (MIN_SAMPLE).
THEOREM NoOutlierIsTheBound ==
    \A n \in Nat : OutlierIsNotTheBound(n)
<1> SUFFICES ASSUME NEW n \in Nat, n >= 8
             PROVE  NearestRank(85, n) < n
  BY DEF OutlierIsNotTheBound, MIN_SAMPLE
<1>1. 100 * (NearestRank(85, n) - 1) < 85 * n /\ NearestRank(85, n) \in 1 .. n
  BY RankIsRoundedUp DEF Percentages
<1> QED BY <1>1

\* The same of the cohorts that are asked about (percentile, MIN_SAMPLE).
THEOREM RanksAreAlwaysExact ==
    ASSUME QuestionsAssumption
    PROVE  SpecQuestions => []RanksAreExact
<1> DEFINE Sized == Asked("cohort") => asked.size \in Sizes
<1>1. InitQuestions => Sized
  BY DEF InitQuestions, Asked
<1>2. Sized /\ [NextQuestions]_asked => Sized'
  BY DEF NextQuestions, AllQuestions, Asked
<1>3. Sized => RanksAreExact
  BY RanksAreExactForAll, NoOutlierIsTheBound DEF RanksAreExact, QuestionsAssumption
<1> HIDE DEF Sized
<1> QED BY <1>1, <1>2, <1>3, PTL DEF SpecQuestions

-----------------------------------------------------------------------------
(* Finished items *)

\* Items are measured when they finish: the clock is at their finish or past it.
LEMMA SpecInv ==
    ASSUME ForecastAssumption
    PROVE  SpecForecast => []ForecastInv
<1>1. InitForecast => ForecastInv
  BY DEF InitForecast, ForecastInv
<1>2. ForecastInv /\ [NextForecast]_forecastVars => ForecastInv'
  <2> SUFFICES ASSUME ForecastInv, [NextForecast]_forecastVars
               PROVE  ForecastInv'
    OBVIOUS
  <2>1. CASE ClockTick
    BY <2>1 DEF ClockTick, ForecastInv, ForecastAssumption, Life
  <2>2. ASSUME NEW i \in Work, NEW life \in Life, Finish(i, life)
        PROVE  ForecastInv'
    BY <2>2 DEF Finish, ForecastInv
  <2>3. CASE UNCHANGED forecastVars
    BY <2>3 DEF forecastVars, ForecastInv
  <2> QED BY <2>1, <2>2, <2>3 DEF NextForecast
<1> QED BY <1>1, <1>2, PTL DEF SpecForecast

\* The samples are finitely many, and each has a label, and times that are
\* ours and theirs.
LEMMA SampleOfWork ==
    ASSUME ForecastAssumption, ForecastInv
    PROVE  /\ IsFiniteSet(Samples)
           /\ \A i \in Samples :
                 /\ Label(i) \in Labels
                 /\ Elapsed(i) \in Nat /\ finished[i].wait \in Nat /\ Accountable(i) \in Nat
                 /\ Elapsed(i) = Accountable(i) + finished[i].wait
                 /\ finished[i].to \in Nat /\ finished[i].to <= clock
<1>1. Samples \subseteq Work
  BY DEF Samples
<1>2. IsFiniteSet(Samples)
  BY <1>1, FS_Subset DEF ForecastAssumption
<1>3. ASSUME NEW i \in Samples
      PROVE  /\ finished[i] \in Life
             /\ finished[i].from < finished[i].to
             /\ finished[i].to <= clock
             /\ finished[i].wait <= finished[i].to - finished[i].from
  BY DEF Samples, ForecastInv
<1>4. ASSUME NEW i \in Samples
      PROVE  /\ finished[i].label \in Labels
             /\ finished[i].from \in Nat /\ finished[i].to \in Nat /\ finished[i].wait \in Nat
  BY <1>3 DEF Life, ForecastAssumption
<1> QED BY <1>2, <1>3, <1>4 DEF Label, Elapsed, Accountable

-----------------------------------------------------------------------------
(* Throughput *)

\* The week of a moment, counted back from now.
Ago(t) == (clock - t) \div WeekLen

\* A moment is in the week counted so, and in no other.
LEMMA WeekOfMoment ==
    ASSUME ForecastAssumption, clock \in Nat, NEW t \in Nat, t <= clock, NEW n \in Nat
    PROVE  /\ Ago(t) \in Nat
           /\ (clock - n * WeekLen - WeekLen < t /\ t <= clock - n * WeekLen) <=> n = Ago(t)
<1> DEFINE x == clock - t
           q == Ago(t)
           w == WeekLen
<1>1. x \in Nat /\ w \in Nat /\ w > 0
  BY DEF ForecastAssumption
<1>2. q = x \div w
  BY DEF Ago
<1> HIDE DEF x, q, w
<1>3. q \in Nat /\ q * w <= x /\ x < (q + 1) * w
  BY <1>1, <1>2
<1>4. (clock - n * w - w < t /\ t <= clock - n * w) <=> (n * w <= x /\ x < (n + 1) * w)
  <2>1. n * w \in Int /\ (n + 1) * w = n * w + w
    BY <1>1
  <2> QED BY <1>1, <2>1 DEF x
<1>5. ASSUME n * w <= x, x < (n + 1) * w
      PROVE  n = q
  <2>1. ~ (q >= n + 1)
    <3> SUFFICES ASSUME q >= n + 1 PROVE FALSE
      OBVIOUS
    <3>1. q * w >= (n + 1) * w
      BY <1>1, <1>3
    <3>2. q * w \in Int /\ (n + 1) * w \in Int
      BY <1>1, <1>3
    <3> QED BY <1>1, <1>3, <1>5, <3>1, <3>2
  <2>2. ~ (n >= q + 1)
    <3> SUFFICES ASSUME n >= q + 1 PROVE FALSE
      OBVIOUS
    <3>1. n * w >= (q + 1) * w
      BY <1>1, <1>3
    <3>2. n * w \in Int /\ (q + 1) * w \in Int
      BY <1>1, <1>3
    <3> QED BY <1>1, <1>3, <1>5, <3>1, <3>2
  <2> QED BY <1>3, <2>1, <2>2
<1>6. n = q => n * w <= x /\ x < (n + 1) * w
  BY <1>3
<1>7. (clock - n * w - w < t /\ t <= clock - n * w) <=> n = q
  BY <1>4, <1>5, <1>6
<1> QED BY <1>3, <1>7 DEF q, w

\* The weeks of the chart are the last ones.
LEMMA WeeksOfChart ==
    ASSUME ForecastAssumption, clock \in Nat, NEW t \in Nat, t <= clock
    PROVE  Ago(t) < Weeks <=> t > clock - Weeks * WeekLen
<1> DEFINE x == clock - t
           q == Ago(t)
           w == WeekLen
           n == Weeks
<1>1. x \in Nat /\ w \in Nat /\ w > 0 /\ n \in Nat
  BY DEF ForecastAssumption
<1>2. q = x \div w
  BY DEF Ago
<1> HIDE DEF x, q, w, n
<1>3. q \in Nat /\ q * w <= x /\ x < (q + 1) * w
  BY <1>1, <1>2
<1>4. n * w \in Int /\ q * w \in Int /\ (q + 1) * w \in Int
  BY <1>1, <1>3
<1>5. ASSUME q < n PROVE x < n * w
  <2>1. (q + 1) * w <= n * w
    BY <1>1, <1>3, <1>5
  <2> QED BY <1>1, <1>3, <1>4, <2>1
<1>6. ASSUME q >= n PROVE x >= n * w
  <2>1. q * w >= n * w
    BY <1>1, <1>3, <1>6
  <2> QED BY <1>1, <1>3, <1>4, <2>1
<1>7. q < n <=> x < n * w
  BY <1>1, <1>3, <1>4, <1>5, <1>6
<1>8. x < n * w <=> t > clock - n * w
  BY <1>1, <1>4 DEF x
<1> QED BY <1>7, <1>8 DEF q, n, w

\* Each item is in the chart once, if it was finished in the weeks that the
\* chart shows (throughput).
LEMMA ThroughputAddsUp ==
    ASSUME ForecastAssumption, ForecastInv
    PROVE  SumFunction([index \in 0 .. Weeks - 1 |-> Throughput(index)]) =
               Cardinality({i \in Samples : finished[i].to > clock - Weeks * WeekLen})
<1> DEFINE K == 0 .. Weeks - 1
           s == [index \in K |-> Throughput(index)]
           P == [index \in K |-> {i \in Samples : InBucket(i, clock - index * WeekLen)}]
           U == {i \in Samples : finished[i].to > clock - Weeks * WeekLen}
<1>1. /\ IsFiniteSet(Samples) /\ clock \in Nat /\ Weeks \in Nat
      /\ \A i \in Samples : finished[i].to \in Nat /\ finished[i].to <= clock
  BY SampleOfWork DEF ForecastInv, ForecastAssumption
<1>2. ASSUME NEW i \in Samples, NEW n \in K
      PROVE  InBucket(i, clock - n * WeekLen) <=> n = Ago(finished[i].to)
  <2>1. n \in Nat
    OBVIOUS
  <2> QED BY <1>1, <2>1, WeekOfMoment DEF InBucket
<1>3. ASSUME NEW i \in Samples
      PROVE  i \in U <=> Ago(finished[i].to) \in K
  <2>1. Ago(finished[i].to) \in Nat
    BY <1>1, WeekOfMoment
  <2>2. Ago(finished[i].to) < Weeks <=> finished[i].to > clock - Weeks * WeekLen
    BY <1>1, WeeksOfChart
  <2> QED BY <1>1, <2>1, <2>2
<1>4. IsFiniteSet(K)
  BY FS_Interval, <1>1
<1>5. Parts(P, K, U)
  <2>1. \A k \in K : P[k] \subseteq Samples
    OBVIOUS
  <2>2. \A k \in K : IsFiniteSet(P[k])
    BY <1>1, <2>1, FS_Subset
  <2>3. \A k \in K : \A i : i \in P[k] <=> i \in Samples /\ k = Ago(finished[i].to)
    BY <1>2
  <2>4. U \subseteq Samples
    OBVIOUS
  <2> HIDE DEF K, P, U
  <2> QED BY <1>3, <2>2, <2>3, <2>4 DEF Parts
<1>6. \A k \in K : s[k] = Cardinality(P[k])
  BY DEF Throughput
<1>7. DOMAIN s = K
  OBVIOUS
<1> HIDE DEF K, s, P, U
<1>8. SumFunctionOnSet(s, K) = Cardinality(U)
  BY <1>4, <1>5, <1>6, CountByParts
<1>9. SumFunction(s) = Cardinality(U)
  BY <1>7, <1>8, SumOfAll
<1> QED BY <1>9 DEF s, U, K

-----------------------------------------------------------------------------
(* Reports *)

\* What is divided by a label falls into parts, one for each of its values.
LEMMA DividedByLabel ==
    ASSUME ForecastAssumption, ForecastInv, NEW R \in SUBSET Samples,
           NEW of, NEW K, \A i \in R : of[i] \in K,
           NEW P, \A k \in K : P[k] = {i \in R : of[i] = k}
    PROVE  Parts(P, K, R)
<1>1. \A k \in K : IsFiniteSet(P[k])
  <2>1. IsFiniteSet(Samples)
    BY SampleOfWork
  <2> SUFFICES ASSUME NEW k \in K PROVE IsFiniteSet(P[k])
    OBVIOUS
  <2>2. P[k] \subseteq Samples
    OBVIOUS
  <2> QED BY <2>1, <2>2, FS_Subset
<1>2. \A k \in K : \A i : i \in P[k] <=> i \in R /\ of[i] = k
  OBVIOUS
<1> QED BY <1>1, <1>2 DEF Parts

\* The reports can be summed by what they are divided by.
LEMMA ReportsDivided ==
    ASSUME ForecastAssumption, ForecastInv, NEW R \in SUBSET Samples,
           NEW K, NEW P, IsFiniteSet(K), Parts(P, K, R),
           NEW count, \A k \in K : count[k] = Cardinality(P[k]), DOMAIN count = K,
           NEW time, \A k \in K : time[k] = TotalTime(P[k]), DOMAIN time = K,
           NEW e, \A i \in Samples : e[i] = Elapsed(i)
    PROVE  /\ SumFunction(count) = Cardinality(R)
           /\ SumFunction(time) = SumFunctionOnSet(e, R)
<1>1. /\ \A i \in Samples : Elapsed(i) \in Nat
      /\ \A k \in K : P[k] \subseteq Samples /\ IsFiniteSet(P[k])
  BY SampleOfWork DEF Parts
<1>2. SumFunctionOnSet(count, K) = Cardinality(R)
  BY CountByParts
<1>3. ASSUME NEW k \in K
      PROVE  time[k] = SumFunctionOnSet(e, P[k])
  <2> DEFINE S == P[k]
             g == [i \in S |-> Elapsed(i)]
  <2>1. DOMAIN g = S /\ IsFiniteSet(S) /\ \A i \in S : e[i] \in Int /\ g[i] = e[i]
    BY <1>1
  <2>2. TotalTime(S) = SumFunction(g)
    BY DEF TotalTime
  <2>3. time[k] = TotalTime(S)
    OBVIOUS
  <2> HIDE DEF g, S
  <2>4. SumFunction(g) = SumFunctionOnSet(e, S)
    BY <2>1, SumLike
  <2> QED BY <2>2, <2>3, <2>4 DEF S
<1>4. \A i \in R : e[i] \in Int
  BY <1>1
<1>5. SumFunctionOnSet(time, K) = SumFunctionOnSet(e, R)
  BY <1>3, <1>4, SumOfParts
<1> QED BY <1>2, <1>5, SumOfAll

\* The time of finished items is ours and theirs.
LEMMA OursAndTheirs ==
    ASSUME ForecastAssumption, ForecastInv, NEW R \in SUBSET Samples
    PROVE  TotalTime(R) = Ours(R) + Theirs(R)
<1> DEFINE e == [i \in R |-> Elapsed(i)]
           a == [i \in R |-> Accountable(i)]
           w == [i \in R |-> finished[i].wait]
<1>1. IsFiniteSet(R)
  BY SampleOfWork, FS_Subset
<1>2. \A i \in R : a[i] \in Int /\ w[i] \in Int /\ e[i] = a[i] + w[i]
  BY SampleOfWork
<1>3. DOMAIN e = R /\ DOMAIN a = R /\ DOMAIN w = R
  OBVIOUS
<1> HIDE DEF e, a, w
<1>4. SumFunctionOnSet(e, R) = SumFunctionOnSet(a, R) + SumFunctionOnSet(w, R)
  BY <1>1, <1>2, SumPlus
<1>5. SumFunction(e) = SumFunction(a) + SumFunction(w)
  BY <1>3, <1>4, SumOfAll
<1> QED BY <1>5 DEF e, a, w, TotalTime, Ours, Theirs

\* By client and by type each item that a viewer may see is counted once
\* (build_client_reports, by_type_totals).
LEMMA ReportsAddUp ==
    ASSUME ForecastAssumption, ForecastInv, NEW teams \in SUBSET Teams
    PROVE  /\ Cardinality(Reported(teams)) =
                 SumFunction([c \in Clients |-> Cardinality(OfClient(c, teams))])
           /\ SumFunction([c \in Clients |-> TotalTime(OfClient(c, teams))]) =
                 SumFunction([t \in Types |-> TotalTime(OfType(t, teams))])
           /\ \A c \in Clients :
                 TotalTime(OfClient(c, teams)) = Ours(OfClient(c, teams)) + Theirs(OfClient(c, teams))
<1> DEFINE R == Reported(teams)
           e == [i \in Samples |-> Elapsed(i)]
           client == [i \in R |-> Label(i).client]
           type == [i \in R |-> Label(i).type]
           PC == [c \in Clients |-> OfClient(c, teams)]
           PT == [t \in Types |-> OfType(t, teams)]
           nC == [c \in Clients |-> Cardinality(OfClient(c, teams))]
           tC == [c \in Clients |-> TotalTime(OfClient(c, teams))]
           nT == [t \in Types |-> Cardinality(OfType(t, teams))]
           tT == [t \in Types |-> TotalTime(OfType(t, teams))]
<1>1. R \in SUBSET Samples
  BY DEF Reported
<1>2. IsFiniteSet(Clients) /\ IsFiniteSet(Types)
  <2> DEFINE ofClient == [l \in Labels |-> l.client]
             ofType == [l \in Labels |-> l.type]
  <2>1. ofClient \in Surjection(Labels, Clients) /\ ofType \in Surjection(Labels, Types)
    BY DEF Surjection, Clients, Types
  <2> HIDE DEF ofClient, ofType
  <2> QED BY <2>1, FS_Surjection DEF ForecastAssumption
<1>3. \A i \in R : client[i] \in Clients /\ type[i] \in Types
  BY <1>1, SampleOfWork DEF Clients, Types
<1>4. /\ \A c \in Clients : PC[c] = {i \in R : client[i] = c}
      /\ \A t \in Types : PT[t] = {i \in R : type[i] = t}
  BY DEF OfClient, OfType
<1>5. /\ \A c \in Clients : nC[c] = Cardinality(PC[c]) /\ tC[c] = TotalTime(PC[c])
      /\ \A t \in Types : nT[t] = Cardinality(PT[t]) /\ tT[t] = TotalTime(PT[t])
      /\ DOMAIN nC = Clients /\ DOMAIN tC = Clients
      /\ DOMAIN nT = Types /\ DOMAIN tT = Types
      /\ \A i \in Samples : e[i] = Elapsed(i)
  OBVIOUS
<1>6. \A c \in Clients : OfClient(c, teams) \in SUBSET Samples
  BY <1>1 DEF OfClient
<1>7. \A c \in Clients :
         TotalTime(OfClient(c, teams)) = Ours(OfClient(c, teams)) + Theirs(OfClient(c, teams))
  BY <1>6, OursAndTheirs
<1> HIDE DEF R, e, client, type, PC, PT, nC, tC, nT, tT
<1>8. Parts(PC, Clients, R)
  BY <1>1, <1>2, <1>3, <1>4, DividedByLabel
<1>9. Parts(PT, Types, R)
  BY <1>1, <1>2, <1>3, <1>4, DividedByLabel
<1>10. SumFunction(nC) = Cardinality(R) /\ SumFunction(tC) = SumFunctionOnSet(e, R)
  BY <1>1, <1>2, <1>5, <1>8, ReportsDivided
<1>11. SumFunction(tT) = SumFunctionOnSet(e, R)
  BY <1>1, <1>2, <1>5, <1>9, ReportsDivided
<1> QED BY <1>7, <1>10, <1>11 DEF nC, tC, tT, R

\* Viewers without a common team share the items of no team, and together all
\* see every item (build_client_reports).
LEMMA ViewersShare ==
    ASSUME ForecastAssumption, ForecastInv
    PROVE  /\ \A teams \in SUBSET Teams, others \in SUBSET Teams :
                 teams \cap others = {} =>
                    Reported(teams) \cap Reported(others) = {i \in Samples : Label(i).team = Null}
           /\ Teams # {} => UNION {Reported({t}) : t \in Teams} = Samples
<1>1. Null \notin Teams
  BY DEF Teams
<1>2. \A i \in Samples : Label(i).team = Null \/ Label(i).team \in Teams
  BY SampleOfWork DEF Teams
<1> QED BY <1>1, <1>2 DEF Reported, Permitted

\* Whatever the finished items are divided by, each is counted once, in every
\* state and for any items, labels and teams, if there is a team at all
\* (throughput, build_client_reports, by_type_totals).
THEOREM TalliesAlwaysAgree ==
    ASSUME ForecastAssumption, Teams # {}
    PROVE  SpecForecast => []TalliesAgree
<1>1. ASSUME ForecastInv
      PROVE  TalliesAgree
  <2>1. \A teams \in SUBSET Teams :
           /\ Cardinality(Reported(teams)) =
                 SumFunction([c \in Clients |-> Cardinality(OfClient(c, teams))])
           /\ SumFunction([c \in Clients |-> TotalTime(OfClient(c, teams))]) =
                 SumFunction([t \in Types |-> TotalTime(OfType(t, teams))])
           /\ \A c \in Clients :
                 TotalTime(OfClient(c, teams)) = Ours(OfClient(c, teams)) + Theirs(OfClient(c, teams))
    BY <1>1, ReportsAddUp
  <2>2. \A teams \in SUBSET Teams : \A others \in SUBSET (Teams \ teams) :
           Reported(teams) \cap Reported(others) = {i \in Samples : Label(i).team = Null}
    <3> SUFFICES ASSUME NEW teams \in SUBSET Teams, NEW others \in SUBSET (Teams \ teams)
                 PROVE  Reported(teams) \cap Reported(others) = {i \in Samples : Label(i).team = Null}
      OBVIOUS
    <3>1. others \in SUBSET Teams /\ teams \cap others = {}
      OBVIOUS
    <3> QED BY <1>1, <3>1, ViewersShare
  <2>3. UNION {Reported({t}) : t \in Teams} = Samples
    BY <1>1, ViewersShare
  <2>4. SumFunction([index \in 0 .. Weeks - 1 |-> Throughput(index)]) =
           Cardinality({i \in Samples : finished[i].to > clock - Weeks * WeekLen})
    BY <1>1, ThroughputAddsUp
  <2> QED BY <2>1, <2>2, <2>3, <2>4 DEF TalliesAgree
<1>2. ForecastInv => TalliesAgree
  BY <1>1
<1> QED BY <1>2, SpecInv, PTL

-----------------------------------------------------------------------------
(* Forecasts *)

\* Some samples have a slowest.
LEMMA Slowest ==
    ASSUME ForecastAssumption, ForecastInv, NEW S \in SUBSET Samples, S # {}
    PROVE  \E x \in S : \A y \in S : Accountable(y) <= Accountable(x)
<1> DEFINE G == {T \in SUBSET S : T = {} \/ \E x \in T : \A y \in T : Accountable(y) <= Accountable(x)}
<1>1. IsFiniteSet(S)
  BY SampleOfWork, FS_Subset
<1>2. {} \in G
  OBVIOUS
<1>3. ASSUME NEW T \in SUBSET S, NEW z \in T, T \ {z} \in G
      PROVE  T \in G
  <2>0. \A y \in T : Accountable(y) \in Int
    BY SampleOfWork
  <2>1. CASE T = {z}
    BY <2>0, <2>1
  <2>2. CASE T # {z}
    <3>1. PICK x \in T \ {z} : \A y \in T \ {z} : Accountable(y) <= Accountable(x)
      BY <1>3, <2>2
    <3>2. CASE Accountable(z) <= Accountable(x)
      BY <3>1, <3>2
    <3>3. CASE Accountable(x) <= Accountable(z)
      <4>1. \A y \in T : Accountable(y) <= Accountable(z)
        BY <2>0, <3>1, <3>3
      <4> QED BY <4>1
    <3> QED BY <2>0, <3>1, <3>2, <3>3
  <2> QED BY <2>1, <2>2
<1> HIDE DEF G
<1>4. S \in G
  BY <1>1, <1>2, <1>3, ElementInduction
<1> QED BY <1>4 DEF G

\* So they can be put in order, the slowest last.
LEMMA OrderExists ==
    ASSUME ForecastAssumption, ForecastInv, NEW S \in SUBSET Samples
    PROVE  \E order \in SetToSeqs(S) : Ascending(order)
<1> DEFINE G == {T \in SUBSET S : \E order \in SetToSeqs(T) : Ascending(order)}
<1>1. IsFiniteSet(S)
  BY SampleOfWork, FS_Subset
<1>2. ASSUME NEW T \in SUBSET S, \A U \in SUBSET T : U # T => U \in G
      PROVE  T \in G
  <2>1. CASE T = {}
    <3> DEFINE order == [j \in 1 .. 0 |-> 0]
    <3>1. Cardinality(T) = 0
      BY <2>1, FS_EmptySet
    <3>2. order \in SetToSeqs(T)
      BY <3>1 DEF SetToSeqs
    <3>3. Ascending(order)
      BY DEF Ascending
    <3> QED BY <3>2, <3>3
  <2>2. CASE T # {}
    <3>1. PICK x \in T : \A y \in T : Accountable(y) <= Accountable(x)
      BY <2>2, Slowest
    <3> DEFINE U == T \ {x}
               m == Cardinality(U)
    <3>2. IsFiniteSet(T) /\ IsFiniteSet(U)
      BY <1>1, FS_Subset
    <3>3. Cardinality(T) = m + 1 /\ m \in Nat
      BY <3>2, FS_RemoveElement, FS_CardinalityType
    <3>4. U \in G
      BY <1>2
    <3>5. PICK o \in SetToSeqs(U) : Ascending(o)
      BY <3>4
    <3> DEFINE order == [j \in 1 .. m + 1 |-> IF j = m + 1 THEN x ELSE o[j]]
    <3>6. /\ DOMAIN o = 1 .. m /\ \A j \in 1 .. m : o[j] \in U
          /\ \A j, k \in 1 .. m : j # k => o[j] # o[k]
      BY <3>5 DEF SetToSeqs
    <3>7. \A j, k \in 1 .. m : j < k => Accountable(o[j]) <= Accountable(o[k])
      BY <3>5, <3>6 DEF Ascending
    <3> HIDE DEF m
    <3>8. \A j \in 1 .. m : order[j] = o[j] /\ o[j] \in T /\ o[j] # x
      BY <3>3, <3>6
    <3>9. order[m + 1] = x /\ \A j \in 1 .. m + 1 : j \in 1 .. m \/ j = m + 1
      BY <3>3
    <3>10. DOMAIN order = 1 .. m + 1
      OBVIOUS
    <3> HIDE DEF U
    <3>11. order \in [1 .. m + 1 -> T]
      <4>1. \A j \in 1 .. m + 1 : (IF j = m + 1 THEN x ELSE o[j]) \in T
        BY <3>8, <3>9
      <4> QED BY <4>1
    <3> HIDE DEF order
    <3>12. \A j, k \in 1 .. m + 1 : j # k => order[j] # order[k]
      BY <3>6, <3>8, <3>9
    <3>13. \A j, k \in 1 .. m + 1 : j < k => Accountable(order[j]) <= Accountable(order[k])
      <4> SUFFICES ASSUME NEW j \in 1 .. m + 1, NEW k \in 1 .. m + 1, j < k
                   PROVE  Accountable(order[j]) <= Accountable(order[k])
        OBVIOUS
      <4>1. j \in 1 .. m
        BY <3>3
      <4>2. CASE k = m + 1
        BY <3>1, <3>8, <3>9, <4>1, <4>2
      <4>3. CASE k \in 1 .. m
        BY <3>7, <3>8, <4>1, <4>3
      <4> QED BY <3>9, <4>2, <4>3
    <3>14. order \in SetToSeqs(T)
      BY <3>3, <3>11, <3>12 DEF SetToSeqs
    <3>15. Ascending(order)
      BY <3>10, <3>13 DEF Ascending
    <3> QED BY <3>14, <3>15
  <2> QED BY <2>1, <2>2
<1> HIDE DEF G
<1>3. S \in G
  BY <1>1, <1>2, SubsetInduction
<1> QED BY <1>3 DEF G

\* What the order of some samples is: each is in it once.
LEMMA OrderOfSamples ==
    ASSUME ForecastAssumption, ForecastInv, NEW S \in SUBSET Samples,
           NEW n, n = Cardinality(S), NEW o, o = Ordered(S)
    PROVE  /\ n \in Nat
           /\ \A j \in 1 .. n : o[j] \in S
           /\ \A j, k \in 1 .. n : j # k => o[j] # o[k]
           /\ \A j, k \in 1 .. n : j < k => Accountable(o[j]) <= Accountable(o[k])
           /\ \A m \in 0 .. n : IsFiniteSet({o[j] : j \in 1 .. m}) /\ Cardinality({o[j] : j \in 1 .. m}) = m
           /\ S = {o[j] : j \in 1 .. n}
<1>1. IsFiniteSet(S)
  BY SampleOfWork, FS_Subset
<1>2. n \in Nat
  BY <1>1, FS_CardinalityType
<1>3. o \in SetToSeqs(S) /\ Ascending(o)
  BY OrderExists DEF Ordered
<1>4. /\ o \in [1 .. n -> S]
      /\ \A j, k \in 1 .. n : j # k => o[j] # o[k]
  BY <1>3 DEF SetToSeqs
<1>5. \A j, k \in 1 .. n : j < k => Accountable(o[j]) <= Accountable(o[k])
  BY <1>3, <1>4 DEF Ascending
<1>6. ASSUME NEW m \in 0 .. n
      PROVE  /\ IsFiniteSet({o[j] : j \in 1 .. m})
             /\ Cardinality({o[j] : j \in 1 .. m}) = m
             /\ {o[j] : j \in 1 .. m} \subseteq S
  <2> DEFINE A == {o[j] : j \in 1 .. m}
             f == [j \in 1 .. m |-> o[j]]
  <2>1. \A j \in 1 .. m : j \in 1 .. n
    BY <1>2
  <2>2. A \subseteq S
    BY <1>4, <2>1
  <2>3. f \in Bijection(1 .. m, A)
    BY <1>4, <2>1 DEF Bijection, Injection, Surjection, IsInjective
  <2> HIDE DEF A, f
  <2>4. ExistsBijection(1 .. m, A)
    BY <2>3 DEF ExistsBijection
  <2>5. m \in Nat
    BY <1>2
  <2>6. Cardinality(A) = m
    BY <2>4, <2>5, FS_CountingElements
  <2>7. IsFiniteSet(A)
    BY <1>1, <2>2, FS_Subset
  <2> QED BY <2>2, <2>6, <2>7 DEF A
<1>7. S = {o[j] : j \in 1 .. n}
  <2> DEFINE A == {o[j] : j \in 1 .. n}
  <2>0. n \in 0 .. n
    BY <1>2
  <2>1. A \subseteq S /\ Cardinality(A) = Cardinality(S)
    BY <1>6, <2>0
  <2> HIDE DEF A
  <2>2. A = S
    BY <1>1, <2>1, FS_Subset
  <2> QED BY <2>2 DEF A
<1> QED BY <1>2, <1>4, <1>5, <1>6, <1>7

\* A percentile is the first time of the cohort within which the share of it
\* finished, at each percentage asked for (percentile).
LEMMA PercentileIsFirst ==
    ASSUME ForecastAssumption, ForecastInv, NEW S \in SUBSET Samples, S # {}, NEW p \in Percentages
    PROVE  LET v == Percentile(p, S) IN
           /\ 100 * Cardinality({i \in S : Accountable(i) <= v}) >= p * Cardinality(S)
           /\ 100 * Cardinality({i \in S : Accountable(i) < v}) < p * Cardinality(S)
           /\ p = 100 => \A i \in S : Accountable(i) <= v
<1> DEFINE n == Cardinality(S)
           o == Ordered(S)
           r == NearestRank(p, n)
           v == Percentile(p, S)
           Within == {i \in S : Accountable(i) <= v}
           Before == {i \in S : Accountable(i) < v}
<1>1. IsFiniteSet(S)
  BY SampleOfWork, FS_Subset
<1>2. n \in Nat \ {0}
  BY <1>1, FS_CardinalityType, FS_EmptySet
<1>3. r \in 1 .. n /\ p * n <= 100 * r /\ 100 * (r - 1) < p * n
  BY <1>2, RankIsRoundedUp
<1>4. v = Accountable(o[r])
  BY DEF Percentile
<1>5. /\ \A j \in 1 .. n : o[j] \in S
      /\ \A j, k \in 1 .. n : j < k => Accountable(o[j]) <= Accountable(o[k])
      /\ \A m \in 0 .. n : IsFiniteSet({o[j] : j \in 1 .. m}) /\ Cardinality({o[j] : j \in 1 .. m}) = m
      /\ S = {o[j] : j \in 1 .. n}
  BY OrderOfSamples
<1>6. \A i \in S : Accountable(i) \in Int
  BY SampleOfWork
<1>7. IsFiniteSet(Within) /\ IsFiniteSet(Before)
  BY <1>1, FS_Subset
<1>8. r \in 1 .. n /\ r - 1 \in 0 .. n /\ r \in 0 .. n /\ r \in Nat
  BY <1>2, <1>3
<1> DEFINE A == {o[j] : j \in 1 .. r}
           B == {o[j] : j \in 1 .. r - 1}
<1>9. /\ Cardinality(A) = r /\ Cardinality(B) = r - 1
      /\ IsFiniteSet(A) /\ IsFiniteSet(B)
  BY <1>5, <1>8
<1> HIDE DEF n, o, r, v
<1>10. A \subseteq Within
  <2> SUFFICES ASSUME NEW j \in 1 .. r PROVE o[j] \in Within
    OBVIOUS
  <2>1. j \in 1 .. n /\ (j < r \/ j = r)
    BY <1>2, <1>3
  <2>2. o[j] \in S /\ Accountable(o[j]) \in Int /\ o[r] \in S
    BY <1>5, <1>6, <1>8, <2>1
  <2>3. Accountable(o[j]) <= Accountable(o[r])
    BY <1>5, <1>8, <2>1, <2>2
  <2> QED BY <1>4, <2>2, <2>3
<1>11. Before \subseteq B
  <2> SUFFICES ASSUME NEW i \in S, Accountable(i) < v PROVE i \in B
    OBVIOUS
  <2>1. PICK j \in 1 .. n : i = o[j]
    BY <1>5
  <2>2. Accountable(o[j]) \in Int /\ Accountable(o[r]) \in Int
    BY <1>5, <1>6, <1>8
  <2>3. ~ (r < j) /\ j # r
    BY <1>4, <1>5, <1>8, <2>1, <2>2
  <2>4. j \in 1 .. r - 1
    BY <1>2, <1>8, <2>3
  <2> QED BY <2>1, <2>4
<1>12. p = 100 => \A i \in S : Accountable(i) <= v
  <2> SUFFICES ASSUME p = 100, NEW i \in S PROVE Accountable(i) <= v
    OBVIOUS
  <2>1. r = n
    BY <1>2, <1>3
  <2>2. PICK j \in 1 .. n : i = o[j]
    BY <1>5
  <2>3. j < r \/ j = r
    BY <1>2, <2>1
  <2>4. o[r] \in S
    BY <1>5, <1>8
  <2> QED BY <1>4, <1>5, <1>6, <1>8, <2>2, <2>3, <2>4
<1> HIDE DEF A, B, Within, Before
<1>13. Cardinality(Within) \in Nat /\ Cardinality(Before) \in Nat
  BY <1>7, FS_CardinalityType
<1>14. Cardinality(Within) >= r /\ Cardinality(Before) <= r - 1
  BY <1>7, <1>9, <1>10, <1>11, FS_Subset
<1>15. /\ 100 * Cardinality(Within) >= p * n
       /\ 100 * Cardinality(Before) < p * n
  <2> DEFINE x == p * n
  <2>1. x \in Int /\ x <= 100 * r /\ 100 * (r - 1) < x
    BY <1>2, <1>3 DEF Percentages
  <2> HIDE DEF x
  <2>2. 100 * Cardinality(Within) >= x /\ 100 * Cardinality(Before) < x
    BY <1>8, <1>13, <1>14, <2>1
  <2> QED BY <2>2 DEF x
<1> QED BY <1>12, <1>15 DEF n, v, Within, Before

\* The cohort is the most comparable one that is large enough, if there is
\* one (cohort_for).
LEMMA CohortIsNarrow ==
    ASSUME ForecastAssumption, ForecastInv, NEW t, NEW p
    PROVE  /\ CohortFor(t, p) \in SUBSET Samples
           /\ IsSufficient(CohortFor(t, p)) <=> IsSufficient(Samples)
           /\ \A k \in 1 .. 3 : IsSufficient(Ladder(t, p)[k]) => CohortFor(t, p) \subseteq Ladder(t, p)[k]
<1> DEFINE L == Ladder(t, p)
           Q == {k \in 1 .. 3 : IsSufficient(L[k])} \cup {3}
           c == CohortFor(t, p)
           g == Rung(t, p)
<1>1. /\ L[3] = Samples /\ L[2] \subseteq L[3] /\ L[1] \subseteq L[2]
  BY DEF Ladder
<1>2. g \in Q /\ \A k \in Q : g <= k
  <2>1. \E x \in Q : \A y \in Q : x <= y
    <3>1. Q \subseteq 1 .. 3 /\ 3 \in Q
      OBVIOUS
    <3>2. CASE 1 \in Q
      BY <3>1, <3>2
    <3>3. CASE 1 \notin Q /\ 2 \in Q
      BY <3>1, <3>3
    <3>4. CASE 1 \notin Q /\ 2 \notin Q
      BY <3>1, <3>4
    <3> QED BY <3>2, <3>3, <3>4
  <2>2. g = Min(Q)
    BY DEF Rung
  <2> HIDE DEF Q
  <2> QED BY <2>1, <2>2 DEF Min
<1>3. c = L[g]
  BY DEF CohortFor
<1>4. MinSample \in Nat /\ IsFiniteSet(Samples)
  BY SampleOfWork DEF ForecastAssumption
<1>5. \A T \in SUBSET Samples : IsSufficient(T) => IsSufficient(Samples)
  <2> SUFFICES ASSUME NEW T \in SUBSET Samples, IsSufficient(T)
               PROVE  IsSufficient(Samples)
    OBVIOUS
  <2>1. /\ Cardinality(T) <= Cardinality(Samples)
        /\ Cardinality(T) \in Nat /\ Cardinality(Samples) \in Nat
    BY <1>4, FS_Subset, FS_CardinalityType
  <2> QED BY <1>4, <2>1 DEF IsSufficient
<1>6. \A k \in 1 .. 3 : k \in Q <=> IsSufficient(L[k]) \/ k = 3
  OBVIOUS
<1>7. g \in 1 .. 3
  BY <1>2
<1> HIDE DEF L, Q, c, g
<1>8. \A k \in 1 .. 3 : k >= g => c \subseteq L[k]
  <2> SUFFICES ASSUME NEW k \in 1 .. 3, k >= g PROVE c \subseteq L[k]
    OBVIOUS
  <2>1. \/ g = k
        \/ g = 1 /\ k = 2
        \/ g = 1 /\ k = 3
        \/ g = 2 /\ k = 3
    BY <1>7
  <2> QED BY <1>1, <1>3, <2>1
<1>9. c \in SUBSET Samples
  BY <1>1, <1>7, <1>8
<1>10. IsSufficient(c) <=> IsSufficient(Samples)
  BY <1>1, <1>2, <1>3, <1>5, <1>6, <1>7, <1>9
<1>11. \A k \in 1 .. 3 : IsSufficient(L[k]) => c \subseteq L[k]
  BY <1>2, <1>6, <1>8
<1> QED BY <1>9, <1>10, <1>11 DEF c, L

\* In every state and for any items and labels: there is an answer exactly when
\* there is enough finished work, it is drawn from the narrowest cohort that is
\* enough, and what it says is true of that cohort (cohort_for, percentile).
THEOREM ForecastsAreAlwaysTrue ==
    ASSUME ForecastAssumption
    PROVE  SpecForecast => []ForecastsAreTrue
<1>1. ASSUME ForecastInv
      PROVE  ForecastsAreTrue
  <2> SUFFICES ASSUME NEW t \in Types, NEW p \in Priorities
        PROVE  LET cohort == CohortFor(t, p)
                   within(x) == 100 * Cardinality({i \in cohort : Accountable(i) <= x})
                   before(x) == 100 * Cardinality({i \in cohort : Accountable(i) < x})
                   holds(x, q) == within(x) >= q * Cardinality(cohort) /\ before(x) < q * Cardinality(cohort)
               IN /\ Known(t, p) <=> IsSufficient(Samples)
                  /\ \A k \in 1 .. 3 : IsSufficient(Ladder(t, p)[k]) => cohort \subseteq Ladder(t, p)[k]
                  /\ Known(t, p) =>
                        /\ holds(Typical(t, p), 50)
                        /\ holds(LikelyWithin(t, p), 85)
                        /\ \A i \in cohort : Accountable(i) <= Worst(t, p)
    BY DEF ForecastsAreTrue
  <2> DEFINE c == CohortFor(t, p)
  <2>1. /\ c \in SUBSET Samples
        /\ IsSufficient(c) <=> IsSufficient(Samples)
        /\ \A k \in 1 .. 3 : IsSufficient(Ladder(t, p)[k]) => c \subseteq Ladder(t, p)[k]
    BY <1>1, CohortIsNarrow
  <2>2. Known(t, p) <=> IsSufficient(c)
    BY DEF Known
  <2>3. Typical(t, p) = Percentile(50, c) /\ LikelyWithin(t, p) = Percentile(85, c)
        /\ Worst(t, p) = Percentile(100, c)
    BY DEF Typical, LikelyWithin, Worst
  <2> HIDE DEF c
  <2>4. ASSUME IsSufficient(c)
        PROVE  c # {}
    BY <2>4, FS_EmptySet DEF IsSufficient, ForecastAssumption
  <2>5. ASSUME IsSufficient(c), NEW q \in Percentages
        PROVE  /\ 100 * Cardinality({i \in c : Accountable(i) <= Percentile(q, c)}) >= q * Cardinality(c)
               /\ 100 * Cardinality({i \in c : Accountable(i) < Percentile(q, c)}) < q * Cardinality(c)
               /\ q = 100 => \A i \in c : Accountable(i) <= Percentile(q, c)
    BY <1>1, <2>1, <2>4, <2>5, PercentileIsFirst
  <2>6. ASSUME IsSufficient(c), NEW q \in {50, 85}
        PROVE  /\ 100 * Cardinality({i \in c : Accountable(i) <= Percentile(q, c)}) >= q * Cardinality(c)
               /\ 100 * Cardinality({i \in c : Accountable(i) < Percentile(q, c)}) < q * Cardinality(c)
    BY <2>5, <2>6 DEF Percentages
  <2>7. ASSUME IsSufficient(c)
        PROVE  \A i \in c : Accountable(i) <= Percentile(100, c)
    BY <2>5, <2>7 DEF Percentages
  <2> QED BY <2>1, <2>2, <2>3, <2>6, <2>7 DEF c
<1>2. ForecastInv => ForecastsAreTrue
  BY <1>1
<1> QED BY <1>2, SpecInv, PTL

=============================================================================
