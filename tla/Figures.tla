-------------------------------- MODULE Figures --------------------------------
(***************************************************************************)
(* The figures read off the histories of WorkHistory: the timeline of an   *)
(* item, what it counts for in the statistics while it is open and once it *)
(* is done, and the warnings on the attention page.                        *)
(*                                                                         *)
(* `worked` are the optional days taken for worked.  The statistics and    *)
(* the attention page take those on which anybody recorded anything, the   *)
(* timeline those on which somebody who touched the item did.  Who did is  *)
(* not in a history; that it was done on the item's own days is.           *)
(*                                                                         *)
(* Sources: src/backend/app/flow/timeline.py, statistics.py, attention.py  *)
(***************************************************************************)
EXTENDS WorkHistory, Calendar

CONSTANTS
    Window,     \* ticks the statistics look back
    StaleAfter  \* org_setting.stale_after_days

ASSUME FigureAssumption == Window \in Nat /\ StaleAfter \in Nat

Recorded == {i \in Items : history[i] # <<>>}
StateOf(i) == LastOf(history[i]).to
IsOpen(i) == i \in Recorded /\ StateOf(i) \notin TERMINAL

DaysOf(i) == {DayOf(history[i][k].at) : k \in DOMAIN history[i]}
Today == DayOf(now)

\* resolve_optional_days over everybody.  The code begins at the earliest of
\* the events it has read; earlier days enter no figure.
Worked == Resolved(0, Today, UNION {DaysOf(i) : i \in Recorded})

\* What the timeline of i may take for worked.
MayHaveWorked(i) == {w \in SUBSET Worked : Worked \cap DaysOf(i) \subseteq w}

-----------------------------------------------------------------------------
(* The timeline *)

Entries(i, s) == {k \in DOMAIN history[i] : history[i][k].to = s}

Left_Now(i, k) == IF k = Len(history[i]) THEN now ELSE history[i][k + 1].at
\* The last span runs until now, or is empty if the item is finished.
Left(i, k) ==
    CASE k < Len(history[i]) -> history[i][k + 1].at
      [] k = Len(history[i]) /\ IsOpen(i) -> now
      [] OTHER -> history[i][k].at

TimeInState(i, s) ==
    SumFunction([k \in Entries(i, s) |-> Left(i, k) - history[i][k].at])
WorkingTimeInState(i, s, worked) ==
    SumFunction([k \in Entries(i, s) |->
                   WorkingDuration(history[i][k].at, Left(i, k), worked)])

StartedAt(i) == history[i][1].at
EndOf(i) == Left(i, Len(history[i]))

TotalElapsed(i) == EndOf(i) - StartedAt(i)
WorkingElapsed(i, worked) == WorkingDuration(StartedAt(i), EndOf(i), worked)

ActiveTime(i, worked) == WorkingTimeInState(i, "IN_PROGRESS", worked)
VerificationTime(i, worked) == WorkingTimeInState(i, "IN_VERIFICATION", worked)
WaitingOnClient(i, worked) ==
    SumFunction([s \in CLOCK_STOPPED |-> WorkingTimeInState(i, s, worked)])
WaitingOnUs_NotHeld(i, worked) ==
    WorkingTimeInState(i, "NEW", worked) + WorkingTimeInState(i, "QUEUED", worked)
WaitingOnUs(i, worked) ==
    SumFunction([s \in {"NEW", "QUEUED", "ON_HOLD_PREEMPTED"} |->
                   WorkingTimeInState(i, s, worked)])

AccountableElapsed(i, worked) ==
    Max({0, WorkingElapsed(i, worked) - WorkingTimeInState(i, "BLOCKED_ON_CLIENT", worked)})

WeekendAndHolidayTime(i, worked) == Max({0, TotalElapsed(i) - WorkingElapsed(i, worked)})

Touched(i) == Entries(i, "IN_PROGRESS") # {}
TimeToFirstTouch(i, worked) ==
    WorkingDuration(StartedAt(i), history[i][Min(Entries(i, "IN_PROGRESS"))].at, worked)

PreemptionCount(i) == Cardinality(Entries(i, "ON_HOLD_PREEMPTED"))
ReworkCount(i) == Cardinality({k \in Entries(i, "IN_PROGRESS") :
                                  history[i][k].from = "IN_VERIFICATION"})

-----------------------------------------------------------------------------
(* The statistics *)

Seen(i) == {k \in DOMAIN history[i] : history[i][k].at >= now - Window}
FirstSeen(i) == history[i][Min(Seen(i))]

IsSampled_Partial(i) == i \in Recorded /\ StateOf(i) = "DONE" /\ Seen(i) # {}
                        /\ FirstSeen(i).at < LastOf(history[i]).at
\* collect_samples counts a finished item if the window holds all of it.
IsSampled(i) ==
    /\ i \in Recorded
    /\ StateOf(i) = "DONE"
    /\ Seen(i) # {}
    /\ FirstSeen(i).to = "NEW"
    /\ FirstSeen(i).at < LastOf(history[i]).at

\* The time spent waiting for the client between the events ks and `end`.
ClientWait(i, ks, end, worked) ==
    LET until(k) == IF k < Len(history[i]) THEN history[i][k + 1].at ELSE end IN
    SumFunction([k \in ks \cap Entries(i, "BLOCKED_ON_CLIENT") |->
                   WorkingDuration(history[i][k].at, until(k), worked)])

Sample(i, worked) ==
    LET done == LastOf(history[i]).at
        elapsed == WorkingDuration(FirstSeen(i).at, done, worked)
        wait == ClientWait(i, Seen(i), done, worked)
    IN [elapsed |-> elapsed, clientWait |-> wait, accountable |-> Max({0, elapsed - wait})]

AccountableSoFar_Gross(i, worked) == WorkingDuration(StartedAt(i), now, worked)
\* accountable_so_far, of an item that is open
AccountableSoFar(i, worked) ==
    Max({0, WorkingDuration(StartedAt(i), now, worked)
            - ClientWait(i, DOMAIN history[i], now, worked)})

-----------------------------------------------------------------------------
(* Attention.  `due` is an item's due date, `likely` the time in which 85% *)
(* of comparable work was finished: it is drawn from the statistics of the *)
(* moment, and another at every reading.                                   *)

Stalled(i) ==
    /\ IsOpen(i)
    /\ StateOf(i) # "BLOCKED_ON_CLIENT"
    /\ WorkingDuration(LastOf(history[i]).at, now, Worked) >= StaleAfter * DayLen

Overdue(i, due) == IsOpen(i) /\ due < Today

DaysLeft_Exclusive(due) == WorkingDaysBetween(Today, due, Worked) - 2
DaysLeft(due) == WorkingDaysBetween(Today, due, Worked) - 1

DueSoon(i, due) ==
    /\ IsOpen(i)
    /\ StateOf(i) \in {"NEW", "QUEUED", "ON_HOLD_PREEMPTED"}
    /\ Today <= due
    /\ DaysLeft(due) \in 0 .. 2

\* Not said of an item that is already said to be stalled.
Overrunning(i, likely) ==
    /\ IsOpen(i)
    /\ StateOf(i) # "BLOCKED_ON_CLIENT"
    /\ AccountableSoFar(i, Worked) > likely
    /\ ~ Stalled(i)

-----------------------------------------------------------------------------
(* Properties *)

\* Whatever the optional days, the times on an item's page add up: the states
\* share out the calendar time, the four kinds of time share out the working
\* time, what is not the client's wait is ours, and no correction by max() is
\* ever needed (build_timeline, accountable_elapsed).  An item is set aside or
\* sent back at most once per start.
TimesAddUp ==
    \A i \in Recorded :
        /\ TotalElapsed(i) = SumFunction([s \in State |-> TimeInState(i, s)])
        /\ \A w \in MayHaveWorked(i) :
              /\ WorkingElapsed(i, w) = ActiveTime(i, w) + VerificationTime(i, w)
                                        + WaitingOnUs(i, w) + WaitingOnClient(i, w)
              /\ WorkingElapsed(i, w) = AccountableElapsed(i, w) + WaitingOnClient(i, w)
              /\ TotalElapsed(i) = WorkingElapsed(i, w) + WeekendAndHolidayTime(i, w)
              /\ Touched(i) => TimeToFirstTouch(i, w) <= WaitingOnUs(i, w) + WaitingOnClient(i, w)
        /\ PreemptionCount(i) + ReworkCount(i) <= Cardinality(Entries(i, "IN_PROGRESS"))

\* An item in the statistics is there with the whole of its life, and with the
\* figures of its own page for the same optional days: an item that began
\* before the window is left out and not cut (collect_samples).
SamplesAreWhole ==
    \A i \in Recorded : IsSampled(i) =>
        \A w \in MayHaveWorked(i) :
            Sample(i, w) = [elapsed |-> WorkingElapsed(i, w),
                            clientWait |-> WaitingOnClient(i, w),
                            accountable |-> AccountableElapsed(i, w)]

\* Open work and finished work are measured with one ruler: an item enters the
\* statistics with what had been charged to it until the moment of its finish
\* (accountable_so_far).  A finish can itself make an optional day count.
OneRuler ==
    [][\A i \in Items : IsOpen(i) /\ IsSampled(i)' /\ Worked' = Worked =>
          /\ Sample(i, Worked)'.accountable <= AccountableSoFar(i, Worked)
          /\ EndOf(i)' = now =>
                Sample(i, Worked)'.accountable = AccountableSoFar(i, Worked)]_vars

\* Of an item's life, the ticks that count once the days of w2 do, and not when only
\* those of w do.
Gained(i, w, w2) ==
    {t \in WorkingTicks(StartedAt(i), EndOf(i), w2) : DayOf(t) \in w2 \ w}

\* The calendar times of a finished item are final.  Its working times are not: they
\* grow by the optional days that have come to count for it since, because somebody
\* recorded something on one, or because the item was given to somebody who had, and
\* by nothing else (build_timeline, assign).
FinishedFiguresGrow ==
    [][\A i \in Recorded : ~ IsOpen(i) =>
          /\ \A s \in State : TimeInState(i, s)' = TimeInState(i, s)
          /\ \A w \in MayHaveWorked(i), w2 \in MayHaveWorked(i)' : w \subseteq w2 =>
                /\ WorkingElapsed(i, w2)' = WorkingElapsed(i, w) + Cardinality(Gained(i, w, w2))
                /\ \A s \in State :
                      WorkingTimeInState(i, s, w) <= WorkingTimeInState(i, s, w2)']_vars

\* Dates of interest: until some days after the last one.
Dates == 0 .. DayOf(MaxNow) + 3

\* What is listed stays listed until something is done about the item, whatever is
\* recorded of others (build_attention).  Two warnings can go all the same.  An item
\* overruns what comparable work took, a yardstick read anew each time: it stays on
\* the list, or moves to the stalled ones, as long as that has not grown.  A date
\* that comes near drops off while no working day is left before it; and when an
\* optional day begins to count, there is one more.
WarningsStay ==
    [][\A i \in Recorded : history'[i] = history[i] =>
          /\ Stalled(i) => Stalled(i)'
          /\ \A likely \in Time : Overrunning(i, likely) =>
                \A now_likely \in 0 .. likely : (Stalled(i) \/ Overrunning(i, now_likely))'
          /\ \A due \in Dates :
                /\ Overdue(i, due) => Overdue(i, due)'
                /\ DueSoon(i, due) /\ Worked' = Worked =>
                      \/ (Overdue(i, due) \/ DueSoon(i, due))'
                      \/ WorkingDaysBetween(Today, due, Worked)' = 0]_vars

==============================================================================
