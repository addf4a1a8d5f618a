------------------------------- MODULE Absence -------------------------------
(***************************************************************************)
(* Booking, approving and cancelling time off, under concurrent requests.  *)
(*                                                                         *)
(* A booking is one INSERT, decided by the EXCLUDE constraint: a second    *)
(* insert over the same days waits for the first to commit.  Approving and *)
(* cancelling load the row, look at cancelled_at, and write other columns  *)
(* of it by id; the table has no version column, so what commits between   *)
(* the load and the write is not noticed.                                  *)
(*                                                                         *)
(* Operators named X_Y are X with a mistake in it, as in WorkItems.        *)
(*                                                                         *)
(* Sources: src/backend/app/people/absence.py, the absence handlers of     *)
(* src/backend/app/api.py, src/backend/alembic/versions/005_absence.py.    *)
(***************************************************************************)
EXTENDS Integers

CONSTANTS
    Staff,      \* active people
    Approvers,  \* those of them who hold APPROVE_ABSENCE
    Ids,        \* ids an absence row can get
    Requests,   \* approvals and cancellations in flight at one time
    Unset,       \* SQL NULL
    LastDay,     \* bound on the dates that can be booked
    MaxSpan     \* longest absence, less a day (365 in the code)

ASSUME StaffAssumption == Approvers \subseteq Staff /\ Unset \notin Staff /\ Unset \notin Ids
ASSUME DayAssumption == LastDay \in Nat /\ MaxSpan \in Nat

VARIABLES
    absence,  \* the table: id to row, Unset where there is none
    req       \* the approvals and cancellations in flight

absenceVars == <<absence, req>>

Day == 0 .. LastDay
OrNone(S) == S \cup {Unset}

\* `upper` is the exclusive end of the daterange.  `last` is not stored: it
\* is the last day away the person entered, kept to say what was asked for.
Row == [person: Staff, first: Day, last: Day, upper: 0 .. LastDay + 1,
        approver: OrNone(Staff), canceller: OrNone(Staff)]

\* NULL is no row.
ASSUME NullAssumption == Unset \notin Row

Request == [phase: {"idle", "approving", "cancelling"},
            id: OrNone(Ids), actor: OrNone(Staff)]

Idle == [phase |-> "idle", id |-> Unset, actor |-> Unset]

TypeOK ==
    /\ absence \in [Ids -> Row \cup {Unset}]
    /\ req \in [Requests -> Request]
    /\ \A r \in Requests : req[r].phase # "idle" =>
          /\ req[r].id \in Ids /\ absence[req[r].id] # Unset
          /\ req[r].actor # Unset

-----------------------------------------------------------------------------
(* Reads *)

Booked == {a \in Ids : absence[a] # Unset}

Live_Any(row) == TRUE
\* cancelled_at IS NULL
Live(row) == row.canceller = Unset

\* period @> day
Covers_Closed(row, d) == row.first <= d /\ d <= row.upper
Covers(row, d) == row.first <= d /\ d < row.upper

CoveringIds(p, d) ==
    {a \in Booked : absence[a].person = p /\ Live(absence[a]) /\ Covers(absence[a], d)}

\* absent_person_ids
AbsentOn(d) == {p \in Staff : CoveringIds(p, d) # {}}

\* _returns_on: the upper bound of the absence that covers the day.
ReturnsOn(p, d) == absence[CHOOSE a \in CoveringIds(p, d) : TRUE].upper

-----------------------------------------------------------------------------
InitAbsence ==
    /\ absence = [a \in Ids |-> Unset]
    /\ req = [r \in Requests |-> Idle]

Upper_LastDay(last) == last
\* Stored half-open: the day after the last one away.
Upper(last) == last + 1

\* period && period
Overlaps_Touching(row, first, upper) == row.first <= upper /\ first <= row.upper
Overlaps_Within(row, first, upper) == row.first <= first /\ upper <= row.upper
Overlaps(row, first, upper) == row.first < upper /\ first < row.upper

\* The EXCLUDE constraint, WHERE (cancelled_at IS NULL).
Excluded(p, first, upper) ==
    \E a \in Booked : /\ absence[a].person = p
                      /\ Live(absence[a])
                      /\ Overlaps(absence[a], first, upper)

\* Anyone books their own time off; an approver anybody's, approved at once.
RecordAbsence(a, actor, p, first, last) ==
    /\ absence[a] = Unset
    /\ p = actor \/ actor \in Approvers
    /\ first <= last /\ last - first <= MaxSpan
    /\ ~ Excluded(p, first, Upper(last))
    /\ absence' = [absence EXCEPT ![a] =
                     [person |-> p, first |-> first, last |-> last,
                      upper |-> Upper(last), canceller |-> Unset,
                      approver |-> IF actor \in Approvers THEN actor ELSE Unset]]
    /\ UNCHANGED req

-----------------------------------------------------------------------------
(* Approving and cancelling: session.get and the checks, then the write.   *)

LoadToApprove(r, a, actor) ==
    /\ req[r].phase = "idle"
    /\ actor \in Approvers
    /\ absence[a].canceller = Unset
    /\ req' = [req EXCEPT ![r] = [phase |-> "approving", id |-> a, actor |-> actor]]
    /\ UNCHANGED absence

\* An absence found cancelled is left as it is.
LoadToCancel(r, a, actor) ==
    /\ req[r].phase = "idle"
    /\ absence[a].person = actor \/ actor \in Approvers
    /\ absence[a].canceller = Unset
    /\ req' = [req EXCEPT ![r] = [phase |-> "cancelling", id |-> a, actor |-> actor]]
    /\ UNCHANGED absence

\* UPDATE absence SET approved_by_id, approved_at WHERE id
Approve(r) ==
    /\ req[r].phase = "approving"
    /\ absence' = [absence EXCEPT ![req[r].id].approver = req[r].actor]
    /\ req' = [req EXCEPT ![r] = Idle]

\* UPDATE absence SET cancelled_by_id, cancelled_at WHERE id
Cancel(r) ==
    /\ req[r].phase = "cancelling"
    /\ absence' = [absence EXCEPT ![req[r].id].canceller = req[r].actor]
    /\ req' = [req EXCEPT ![r] = Idle]

NextAbsence ==
    \/ \E a \in Ids, actor, p \in Staff, first, last \in Day :
          RecordAbsence(a, actor, p, first, last)
    \/ \E r \in Requests :
          \/ \E a \in Booked, actor \in Staff :
                LoadToApprove(r, a, actor) \/ LoadToCancel(r, a, actor)
          \/ Approve(r) \/ Cancel(r)

SpecAbsence == InitAbsence /\ [][NextAbsence]_absenceVars

-----------------------------------------------------------------------------
(* Properties *)

\* INV-5: nobody is away twice on one day, whatever was booked, cancelled and
\* booked again; the return date of _returns_on is that of the one absence.
OneAbsenceADay ==
    \A p \in Staff, d \in Day : \A a, b \in CoveringIds(p, d) : a = b

\* The conversion to a half-open range loses no day: a person counts as away
\* on exactly the days entered in the bookings of theirs that are not cancelled.
AwayAsAsked ==
    \A p \in Staff, d \in Day :
        p \in AbsentOn(d) <=>
            \E a \in Booked : /\ absence[a].person = p
                              /\ absence[a].canceller = Unset
                              /\ absence[a].first <= d /\ d <= absence[a].last

\* A booking is refused by the constraint exactly when one of its days is
\* already taken: absences may touch, and cancelled days can be booked again.
RefusedOnlyIfTaken ==
    \A p \in Staff, first, last \in Day : first <= last =>
        (Excluded(p, first, Upper(last)) <=> \E d \in first .. last : p \in AbsentOn(d))

\* Rows keep their shape, and a request in flight a row that exists.
StoredAsEntered ==
    \A a \in Booked : /\ absence[a].first <= absence[a].last
                      /\ absence[a].upper = absence[a].last + 1

\* What approve() and its test say: a cancelled absence cannot be approved; the
\* record of a decision outlives the decision (migration 005).
CancelledIsNeverApproved ==
    [][\A a \in Booked : absence[a].canceller # Unset =>
          absence'[a].approver = absence[a].approver]_absenceVars

\* "First day back" (_returns_on): on the return date that stands on the cover list
\* the person is not away.
ReturnIsADayBack ==
    \A d \in Day : \A p \in AbsentOn(d) : CoveringIds(p, ReturnsOn(p, d)) = {}

\* No absence of anyone's begins where another of theirs ends.
NothingAdjoins ==
    \A a, b \in Booked :
        absence[a].person = absence[b].person /\ Live(absence[a]) /\ Live(absence[b])
            => absence[a].first # absence[b].upper

\* The inductive invariant.
IInv == TypeOK /\ StoredAsEntered /\ OneAbsenceADay

-----------------------------------------------------------------------------
(* The promise this implements *)

LV == INSTANCE Leave WITH bookings <-
         {[person |-> absence[a].person, days |-> absence[a].first .. absence[a].last] :
            a \in {b \in Booked : absence[b].canceller = Unset}}

\* Bookings take days that are free and give back their own, although two
\* cancellations of one booking may cross and an approval may come too late.
ImplementsLeave == LV!Spec

==============================================================================
