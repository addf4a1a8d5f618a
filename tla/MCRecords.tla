------------------------------- MODULE MCRecords -------------------------------
(***************************************************************************)
(* Instances, for TLC, of Absence and of what is made of the records:      *)
(* Figures, Forecast, Backup and Questions, which share no variable.  One  *)
(* run explores them one at a time, as in MCStaff.                         *)
(***************************************************************************)
EXTENDS Absence, Figures, Backup, Questions, TLC

CONSTANTS i1, i2, p1, p2, a1, a2, s1, s2, s3, r1, r2

-----------------------------------------------------------------------------
(* One item with up to five events, which may be given away when it is done, *)
(* on the last tick; another may be recorded at the start of the first day,  *)
(* which is optional.                                                        *)

MaxEvents == [i \in Items |-> IF i = i1 THEN 5 ELSE 1]

NextFigures ==
    \/ Tick
    \/ \E i \in Items, at \in Time :
          /\ Len(history[i]) < MaxEvents[i]
          /\ i # i1 => at = 0
          /\ \/ Record(i, at, <<[person |-> p1, from |-> at, to |-> None]>>)
             \/ \E to \in State, d \in Items \cup {None} : Move(i, to, at, d)
    \/ now = MaxNow /\ i1 \in Recorded /\ ~ IsOpen(i1) /\ Give(i1, p2, now)

-----------------------------------------------------------------------------

L(type, priority, client, team) ==
    [type |-> type, priority |-> priority, client |-> client, team |-> team]

MCLabels == {L("bug", 1, "acme", "red"), L("bug", 2, "acme", Null), L("task", 1, Null, "blue")}

\* Around the borders of what is accepted, -840 to 720 and a fortnight back.
MCMoments == {-20161, -20160, -1, 0, 1, 2, 3, 5, 6}
MCArrivals == {0, 1, 3, 20160}
MCOffsets == {NoOffset, -841, -840, -330, 0, 720, 721}
\* Eleven days, with two optional Saturdays and a holiday.
MCTicks == 0 .. 21
MCSizes == 1 .. 100

ASSUME RecordInstances == ForecastAssumption /\ BackupAssumption /\ QuestionsAssumption

-----------------------------------------------------------------------------
InitRecords == InitAbsence /\ Init /\ InitForecast /\ InitBackup /\ InitQuestions

\* Whichever moves, the others are in their initial states.
NextRecords ==
    \/ /\ Init /\ InitForecast /\ InitBackup /\ InitQuestions /\ NextAbsence
       /\ UNCHANGED <<vars, forecastVars, backupVars, asked>>
    \/ /\ InitAbsence /\ InitForecast /\ InitBackup /\ InitQuestions /\ NextFigures
       /\ UNCHANGED <<absenceVars, forecastVars, backupVars, asked>>
    \/ /\ InitAbsence /\ Init /\ InitBackup /\ InitQuestions /\ NextForecast
       /\ UNCHANGED <<absenceVars, vars, backupVars, asked>>
    \/ /\ InitAbsence /\ Init /\ InitForecast /\ InitQuestions /\ NextBackup
       /\ UNCHANGED <<absenceVars, vars, forecastVars, asked>>
    \/ /\ InitRecords /\ NextQuestions
       /\ UNCHANGED <<absenceVars, vars, forecastVars, backupVars>>

SpecRecords ==
    InitRecords /\ [][NextRecords]_<<absenceVars, vars, forecastVars, backupVars, asked>>

\* r1 and r2 stand for requests and for backup runs.
Symmetry == Permutations({s1, s2, s3}) \cup Permutations({r1, r2})

================================================================================
