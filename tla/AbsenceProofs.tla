---------------------------- MODULE AbsenceProofs ----------------------------
(***************************************************************************)
(* Proofs about Absence, for any people, ids, requests and dates.          *)
(*                                                                         *)
(* IInv adds to INV-5 what its preservation rests on: every stored range   *)
(* is the half-open form of the days entered.  With it a booking that does *)
(* not overlap the stored ranges shares no day with a live one, and a      *)
(* cancellation removes the days of one booking only.                      *)
(***************************************************************************)
EXTENDS Absence, TLAPS

\* A booking that the constraint lets through is live and covers no day that
\* another live row of the same person covers.
LEMMA FreeDays ==
    ASSUME IInv, NEW p \in Staff, NEW first \in Day, NEW last \in Day,
           ~ Excluded(p, first, Upper(last)),
           NEW d \in Int, first <= d, d <= last
    PROVE  CoveringIds(p, d) = {}
<1>1. SUFFICES ASSUME NEW a \in CoveringIds(p, d) PROVE FALSE
  OBVIOUS
<1>2. a \in Booked /\ absence[a].person = p /\ Live(absence[a])
  BY <1>1 DEF CoveringIds
<1>3. absence[a] \in Row
  BY <1>2 DEF IInv, TypeOK, Booked
<1>4. absence[a].first <= d /\ d < absence[a].upper
  BY <1>1 DEF CoveringIds, Covers
<1>5. Overlaps(absence[a], first, Upper(last))
  BY <1>3, <1>4, DayAssumption DEF Overlaps, Upper, Row, Day
<1> QED
  BY <1>2, <1>5 DEF Excluded

\* Nothing but the approver or the canceller of a row that exists is written
\* by an approval or a cancellation, and no row stops being cancelled.
LEMMA WritesKeepDays ==
    ASSUME IInv, NEW r \in Requests, Approve(r) \/ Cancel(r)
    PROVE  /\ req[r].id \in Booked
           /\ Booked' = Booked
           /\ \A a \in Booked :
                 /\ absence'[a].person = absence[a].person
                 /\ absence'[a].first = absence[a].first
                 /\ absence'[a].last = absence[a].last
                 /\ absence'[a].upper = absence[a].upper
                 /\ Live(absence'[a]) => Live(absence[a])
                 /\ absence'[a] \in Row
           /\ absence' \in [Ids -> Row \cup {Unset}]
<1> DEFINE i == req[r].id
<1>1. i \in Ids /\ absence[i] # Unset /\ req[r].actor \in Staff
  BY DEF IInv, TypeOK, Approve, Cancel, Request, OrNone
<1>2. absence \in [Ids -> Row \cup {Unset}] /\ absence[i] \in Row
  BY <1>1 DEF IInv, TypeOK
<1>3. \/ absence' = [absence EXCEPT ![i] = [absence[i] EXCEPT !.approver = req[r].actor]]
      \/ absence' = [absence EXCEPT ![i] = [absence[i] EXCEPT !.canceller = req[r].actor]]
  BY DEF Approve, Cancel
<1>4. absence'[i] \in Row
  BY <1>1, <1>2, <1>3 DEF Row, OrNone
<1>5. \A a \in Ids : a # i => absence'[a] = absence[a]
  BY <1>2, <1>3
<1>6. /\ absence'[i].person = absence[i].person
      /\ absence'[i].first = absence[i].first
      /\ absence'[i].last = absence[i].last
      /\ absence'[i].upper = absence[i].upper
      /\ Live(absence'[i]) => Live(absence[i])
  BY <1>1, <1>2, <1>3, StaffAssumption DEF Row, Live
<1>7. absence' \in [Ids -> Row \cup {Unset}]
  BY <1>2, <1>3, <1>4, <1>5
<1> QED
  BY <1>1, <1>2, <1>4, <1>5, <1>6, <1>7, NullAssumption DEF Booked

-----------------------------------------------------------------------------
\* Every step keeps the inductive invariant.
LEMMA Inductive == IInv /\ [NextAbsence]_absenceVars => IInv'
<1> SUFFICES ASSUME IInv, [NextAbsence]_absenceVars PROVE IInv'
  OBVIOUS
<1>1. ASSUME NEW a \in Ids, NEW actor \in Staff, NEW p \in Staff,
             NEW first \in Day, NEW last \in Day, RecordAbsence(a, actor, p, first, last)
      PROVE  IInv'
  <2> DEFINE new == [person |-> p, first |-> first, last |-> last,
                     upper |-> Upper(last), canceller |-> Unset,
                     approver |-> IF actor \in Approvers THEN actor ELSE Unset]
  <2>1. /\ absence \in [Ids -> Row \cup {Unset}]
        /\ absence' = [absence EXCEPT ![a] = new] /\ req' = req
        /\ absence[a] = Unset /\ first <= last
        /\ ~ Excluded(p, first, Upper(last))
    BY <1>1 DEF RecordAbsence, IInv, TypeOK
  <2>2. new \in Row /\ new # Unset
    <3>1. Upper(last) \in 0 .. LastDay + 1
      BY DayAssumption DEF Upper, Day
    <3> QED
      BY <3>1, NullAssumption DEF Row, OrNone
  <2>3. absence'[a] = new /\ \A b \in Ids : b # a => absence'[b] = absence[b]
    BY <2>1
  <2>4. TypeOK'
    BY <2>1, <2>2, <2>3 DEF IInv, TypeOK
  <2>5. Booked' = Booked \cup {a} /\ a \notin Booked
    BY <2>1, <2>2, <2>3 DEF Booked
  <2>6. StoredAsEntered'
    <3>1. new.first <= new.last /\ new.upper = new.last + 1
      BY <2>1 DEF Upper
    <3> QED
      BY <2>3, <2>5, <3>1 DEF IInv, StoredAsEntered, Booked
  <2>7. OneAbsenceADay'
    <3>1. SUFFICES ASSUME NEW q \in Staff, NEW d \in Day,
                          NEW b \in CoveringIds(q, d)', NEW c \in CoveringIds(q, d)'
                   PROVE  b = c
      BY DEF OneAbsenceADay
    <3>2. \A e \in CoveringIds(q, d)' : e # a => e \in CoveringIds(q, d)
      BY <2>3, <2>5 DEF CoveringIds, Live, Covers, Booked
    <3>3. ASSUME a \in CoveringIds(q, d)' PROVE CoveringIds(q, d) = {}
      <4>1. q = p /\ first <= d /\ d < Upper(last)
        BY <3>3, <2>3 DEF CoveringIds, Covers
      <4>2. d \in Int /\ d <= last
        BY <4>1, DayAssumption DEF Upper, Day
      <4> QED
        BY <2>1, <4>1, <4>2, FreeDays
    <3> QED
      BY <3>2, <3>3 DEF IInv, OneAbsenceADay
  <2> QED
    BY <2>4, <2>6, <2>7 DEF IInv
<1>2. ASSUME NEW r \in Requests, NEW a \in Booked, NEW actor \in Staff,
             LoadToApprove(r, a, actor) \/ LoadToCancel(r, a, actor)
      PROVE  IInv'
  <2>1. absence' = absence /\ a \in Ids /\ absence[a] # Unset
    BY <1>2 DEF LoadToApprove, LoadToCancel, Booked
  <2>2. TypeOK'
    <3>1. PICK ph \in {"approving", "cancelling"} :
             req' = [req EXCEPT ![r] = [phase |-> ph, id |-> a, actor |-> actor]]
      BY <1>2 DEF LoadToApprove, LoadToCancel
    <3> QED
      BY <2>1, <3>1, StaffAssumption DEF IInv, TypeOK, Request, OrNone
  <2> QED
    BY <2>1, <2>2 DEF IInv, StoredAsEntered, OneAbsenceADay, CoveringIds, Booked
<1>3. ASSUME NEW r \in Requests, Approve(r) \/ Cancel(r) PROVE IInv'
  <2>1. req' = [req EXCEPT ![r] = Idle]
    BY <1>3 DEF Approve, Cancel
  <2>2. TypeOK'
    <3>1. \A s \in Ids : absence[s] # Unset => absence'[s] # Unset
      BY <1>3, WritesKeepDays DEF Booked
    <3> QED
      BY <1>3, <2>1, <3>1, WritesKeepDays
      DEF IInv, TypeOK, Idle, Request, OrNone
  <2>3. StoredAsEntered'
    BY <1>3, WritesKeepDays DEF IInv, StoredAsEntered
  <2>4. \A q \in Staff, d \in Day : CoveringIds(q, d)' \subseteq CoveringIds(q, d)
    BY <1>3, WritesKeepDays DEF CoveringIds, Covers
  <2>5. OneAbsenceADay'
    BY <2>4 DEF IInv, OneAbsenceADay
  <2> QED
    BY <2>2, <2>3, <2>5 DEF IInv
<1>4. CASE UNCHANGED absenceVars
  BY <1>4 DEF absenceVars, IInv, TypeOK, StoredAsEntered, OneAbsenceADay, CoveringIds, Booked
<1> QED
  BY <1>1, <1>2, <1>3, <1>4 DEF NextAbsence

\* The invariant holds of every reachable state.
LEMMA Invariant == SpecAbsence => []IInv
<1>1. InitAbsence => IInv
  BY DEF InitAbsence, IInv, TypeOK, StoredAsEntered, OneAbsenceADay, CoveringIds, Booked,
         Idle, Request, OrNone
<1> QED
  BY <1>1, Inductive, PTL DEF SpecAbsence

\* Rows and requests are well formed; a request in flight has its row.
THEOREM TypeCorrect == SpecAbsence => []TypeOK
<1>1. IInv => TypeOK
  BY DEF IInv
<1> QED
  BY <1>1, Invariant, PTL

\* INV-5: nobody is away twice on one day (the EXCLUDE constraint of 005).
THEOREM NobodyIsAwayTwice == SpecAbsence => []OneAbsenceADay
<1>1. IInv => OneAbsenceADay
  BY DEF IInv
<1> QED
  BY <1>1, Invariant, PTL

\* The half-open ranges of record_absence say who is away as it was entered.
THEOREM AwayOnTheDaysAsked == SpecAbsence => []AwayAsAsked
<1>1. ASSUME IInv PROVE AwayAsAsked
  <2>1. SUFFICES ASSUME NEW p \in Staff, NEW d \in Day
                 PROVE  CoveringIds(p, d) =
                          {a \in Booked : /\ absence[a].person = p
                                          /\ absence[a].canceller = Unset
                                          /\ absence[a].first <= d /\ d <= absence[a].last}
    BY DEF AwayAsAsked, AbsentOn
  <2>2. ASSUME NEW a \in Booked
        PROVE  Covers(absence[a], d) <=> absence[a].first <= d /\ d <= absence[a].last
    <3>1. absence[a] \in Row /\ absence[a].upper = absence[a].last + 1
      BY <1>1 DEF IInv, TypeOK, StoredAsEntered, Booked
    <3> QED
      BY <3>1, DayAssumption DEF Row, Day, Covers
  <2> QED
    BY <2>2 DEF CoveringIds, Live
<1> QED
  BY <1>1, Invariant, PTL

\* The return date of _returns_on is the first day back where no two absences of
\* one person adjoin: then the day after an absence is in no other.
THEOREM ReturnsAreDaysBack == SpecAbsence /\ []NothingAdjoins => []ReturnIsADayBack
<1>1. ASSUME IInv, NothingAdjoins PROVE ReturnIsADayBack
  <2>1. SUFFICES ASSUME NEW d \in Day, NEW p \in AbsentOn(d),
                        NEW a \in CoveringIds(p, ReturnsOn(p, d))
                 PROVE  FALSE
    BY DEF ReturnIsADayBack
  <2> DEFINE b == CHOOSE i \in CoveringIds(p, d) : TRUE
  <2>2. p \in Staff /\ b \in CoveringIds(p, d) /\ ReturnsOn(p, d) = absence[b].upper
    BY DEF AbsentOn, ReturnsOn
  <2>3. PICK c \in CoveringIds(p, d) : c = b
    BY <2>2
  <2> HIDE DEF b
  <2>4. /\ c \in Booked /\ absence[c].person = p /\ Live(absence[c])
        /\ absence[c].first <= d /\ d < absence[c].upper
        /\ ReturnsOn(p, d) = absence[c].upper
    BY <2>2, <2>3 DEF CoveringIds, Covers
  <2>5. /\ a \in Booked /\ absence[a].person = p /\ Live(absence[a])
        /\ absence[a].first <= absence[c].upper /\ absence[c].upper < absence[a].upper
    BY <2>1, <2>4 DEF CoveringIds, Covers
  <2>6. /\ absence[a] \in Row /\ absence[c] \in Row
        /\ absence[c].upper = absence[c].last + 1
    BY <1>1, <2>4, <2>5 DEF IInv, TypeOK, StoredAsEntered, Booked
  <2>7. /\ absence[a].first \in Int /\ absence[a].upper \in Int
        /\ absence[c].first \in Int /\ absence[c].upper \in Int
        /\ absence[c].last \in Day /\ d \in Int
    BY <2>6, DayAssumption DEF Row, Day
  \* One that began earlier would share the last day away.
  <2>8. ASSUME absence[a].first < absence[c].upper PROVE FALSE
    <3>1. /\ absence[a].first <= absence[c].last /\ absence[c].last < absence[a].upper
          /\ absence[c].first <= absence[c].last /\ absence[c].last < absence[c].upper
      BY <2>4, <2>5, <2>6, <2>7, <2>8, DayAssumption DEF Day
    <3>2. a \in CoveringIds(p, absence[c].last) /\ c \in CoveringIds(p, absence[c].last)
      BY <2>4, <2>5, <3>1 DEF CoveringIds, Covers
    <3>3. a = c
      BY <1>1, <2>2, <2>7, <3>2 DEF IInv, OneAbsenceADay
    <3> QED
      BY <2>5, <2>7, <3>3
  \* One that begins on the day of return adjoins.
  <2>9. absence[a].first # absence[c].upper
    BY <1>1, <2>4, <2>5 DEF NothingAdjoins
  <2> QED
    BY <2>5, <2>7, <2>8, <2>9
<1> QED
  BY <1>1, Invariant, PTL

\* A booking is refused exactly when one of its days is taken: the && of the
\* EXCLUDE constraint neither lets a day be taken twice nor refuses a free one.
THEOREM RefusalsAreRight == SpecAbsence => []RefusedOnlyIfTaken
<1>1. ASSUME IInv PROVE RefusedOnlyIfTaken
  <2>1. SUFFICES ASSUME NEW p \in Staff, NEW first \in Day, NEW last \in Day, first <= last
                 PROVE  Excluded(p, first, Upper(last))
                          <=> \E d \in first .. last : p \in AbsentOn(d)
    BY DEF RefusedOnlyIfTaken
  <2>2. ASSUME Excluded(p, first, Upper(last))
        PROVE  \E d \in first .. last : p \in AbsentOn(d)
    <3>1. PICK a \in Booked : /\ absence[a].person = p /\ Live(absence[a])
                              /\ Overlaps(absence[a], first, Upper(last))
      BY <2>2 DEF Excluded
    <3>2. absence[a] \in Row /\ absence[a].first <= absence[a].last
          /\ absence[a].upper = absence[a].last + 1
      BY <1>1, <3>1 DEF IInv, TypeOK, StoredAsEntered, Booked
    <3> DEFINE d == IF first <= absence[a].first THEN absence[a].first ELSE first
    <3>3. d \in first .. last /\ Covers(absence[a], d)
      BY <2>1, <3>1, <3>2, DayAssumption DEF Overlaps, Upper, Covers, Row, Day
    <3>4. a \in CoveringIds(p, d)
      BY <3>1, <3>3 DEF CoveringIds
    <3> QED
      BY <3>3, <3>4 DEF AbsentOn
  <2>3. ASSUME ~ Excluded(p, first, Upper(last)), NEW d \in first .. last
        PROVE  p \notin AbsentOn(d)
    <3>1. d \in Int /\ first <= d /\ d <= last
      BY DayAssumption DEF Day
    <3> QED
      BY <1>1, <2>3, <3>1, FreeDays DEF AbsentOn
  <2> QED
    BY <2>2, <2>3
<1> QED
  BY <1>1, Invariant, PTL

-----------------------------------------------------------------------------
\* The refinement.  `held` is what the rows say is booked.
held == {[person |-> absence[a].person, days |-> absence[a].first .. absence[a].last] :
            a \in {b \in Booked : absence[b].canceller = Unset}}

\* A day of a live row's booking is a day the row covers.
LEMMA HeldDaysAreCovered ==
    ASSUME IInv, NEW a \in Booked, Live(absence[a]),
           NEW d \in absence[a].first .. absence[a].last
    PROVE  d \in Day /\ a \in CoveringIds(absence[a].person, d)
<1>1. absence[a] \in Row /\ absence[a].upper = absence[a].last + 1
  BY DEF IInv, TypeOK, StoredAsEntered, Booked
<1>2. d \in Day /\ Covers(absence[a], d)
  BY <1>1, DayAssumption DEF Row, Day, Covers
<1> QED
  BY <1>2 DEF CoveringIds

\* Two live rows never stand for one booking, so cancelling either gives back
\* days that no other row holds.
LEMMA BookingsAreDistinct ==
    ASSUME IInv, NEW a \in Booked, NEW b \in Booked,
           Live(absence[a]), Live(absence[b]),
           absence[a].person = absence[b].person,
           absence[a].first .. absence[a].last = absence[b].first .. absence[b].last
    PROVE  a = b
<1>1. absence[a] \in Row /\ absence[a].first <= absence[a].last
  BY DEF IInv, TypeOK, StoredAsEntered, Booked
<1> DEFINE d == absence[a].first
<1>2. d \in absence[a].first .. absence[a].last
  BY <1>1, DayAssumption DEF Row, Day
<1>3. d \in absence[b].first .. absence[b].last
  BY <1>2
<1>4. d \in Day /\ a \in CoveringIds(absence[a].person, d)
  BY <1>2, HeldDaysAreCovered
<1>5. b \in CoveringIds(absence[a].person, d)
  BY <1>3, HeldDaysAreCovered
<1>6. absence[a].person \in Staff
  BY <1>1 DEF Row
<1> QED
  BY <1>4, <1>5, <1>6 DEF IInv, OneAbsenceADay

\* Every step books free days, gives back the days of one booking, or changes
\* nothing that was promised.
LEMMA StepsAreLeave ==
    ASSUME IInv, [NextAbsence]_absenceVars
    PROVE  \/ \E p \in Staff, first, last \in Day :
                 /\ first <= last
                 /\ \A b \in held : b.person = p => b.days \cap (first .. last) = {}
                 /\ held' = held \cup {[person |-> p, days |-> first .. last]}
           \/ \E b \in held : held' = held \ {b}
           \/ held' = held
<1>1. ASSUME NEW a \in Ids, NEW actor \in Staff, NEW p \in Staff,
             NEW first \in Day, NEW last \in Day, RecordAbsence(a, actor, p, first, last)
      PROVE  /\ first <= last
             /\ \A b \in held : b.person = p => b.days \cap (first .. last) = {}
             /\ held' = held \cup {[person |-> p, days |-> first .. last]}
  <2> DEFINE new == [person |-> p, first |-> first, last |-> last,
                     upper |-> Upper(last), canceller |-> Unset,
                     approver |-> IF actor \in Approvers THEN actor ELSE Unset]
  <2>1. /\ absence \in [Ids -> Row \cup {Unset}]
        /\ absence' = [absence EXCEPT ![a] = new] /\ first <= last
        /\ absence[a] = Unset /\ ~ Excluded(p, first, Upper(last))
    BY <1>1 DEF RecordAbsence, IInv, TypeOK
  <2>2. new \in Row
    <3>1. Upper(last) \in 0 .. LastDay + 1
      BY DayAssumption DEF Upper, Day
    <3> QED
      BY <3>1 DEF Row, OrNone
  <2>3. absence'[a] = new /\ \A b \in Ids : b # a => absence'[b] = absence[b]
    BY <2>1
  <2>4. Booked' = Booked \cup {a} /\ a \notin Booked
    BY <2>1, <2>2, <2>3, NullAssumption DEF Booked
  <2>5. held' = held \cup {[person |-> p, days |-> first .. last]}
    BY <2>3, <2>4 DEF held, Booked
  <2>6. ASSUME NEW b \in held, b.person = p PROVE b.days \cap (first .. last) = {}
    <3>1. PICK i \in Booked : /\ absence[i].canceller = Unset
                              /\ b = [person |-> absence[i].person,
                                      days |-> absence[i].first .. absence[i].last]
      BY DEF held
    <3>2. ASSUME NEW d \in b.days \cap (first .. last) PROVE FALSE
      <4>1. i \in CoveringIds(p, d)
        BY <2>6, <3>1, <3>2, HeldDaysAreCovered DEF Live
      <4>2. d \in Int /\ first <= d /\ d <= last
        BY <3>2, DayAssumption DEF Day
      <4> QED
        BY <2>1, <4>1, <4>2, FreeDays
    <3> QED
      BY <3>2
  <2> QED
    BY <2>1, <2>5, <2>6
<1>2. ASSUME NEW r \in Requests, NEW a \in Booked, NEW actor \in Staff,
             LoadToApprove(r, a, actor) \/ LoadToCancel(r, a, actor)
      PROVE  held' = held
  BY <1>2 DEF LoadToApprove, LoadToCancel, held, Booked
<1>3. ASSUME NEW r \in Requests, Approve(r) PROVE held' = held
  <2>1. \A a \in Booked : absence'[a].canceller = absence[a].canceller
    <3>1. absence \in [Ids -> Row \cup {Unset}] /\ \A a \in Booked : absence[a] \in Row
      BY DEF IInv, TypeOK, Booked
    <3>2. req[r].id \in Booked
      BY <1>3, WritesKeepDays
    <3>3. absence' = [absence EXCEPT ![req[r].id] =
                        [absence[req[r].id] EXCEPT !.approver = req[r].actor]]
      BY <1>3 DEF Approve
    <3> QED
      BY <3>1, <3>2, <3>3 DEF Row, Booked
  <2> QED
    BY <1>3, <2>1, WritesKeepDays DEF held
<1>4. ASSUME NEW r \in Requests, Cancel(r)
      PROVE  held' = held \/ \E b \in held : held' = held \ {b}
  <2> DEFINE i == req[r].id
             booking(a) == [person |-> absence[a].person,
                            days |-> absence[a].first .. absence[a].last]
             live == {a \in Booked : absence[a].canceller = Unset}
  <2>1. i \in Booked /\ req[r].actor # Unset /\ \A a \in Booked : absence[a] \in Row
    BY <1>4, WritesKeepDays DEF IInv, TypeOK, Booked, Cancel
  <2>2. /\ absence'[i].canceller = req[r].actor
        /\ \A a \in Booked : a # i => absence'[a] = absence[a]
    <3>1. absence \in [Ids -> Row \cup {Unset}]
      BY DEF IInv, TypeOK
    <3>2. absence' = [absence EXCEPT ![i] =
                        [absence[i] EXCEPT !.canceller = req[r].actor]]
      BY <1>4 DEF Cancel
    <3> QED
      BY <2>1, <3>1, <3>2 DEF Row, Booked
  <2>3. live' = live \ {i}
    BY <1>4, <2>1, <2>2, WritesKeepDays
  <2>4. held = {booking(a) : a \in live}
    BY DEF held
  <2>5. held' = {booking(a) : a \in live \ {i}}
    <3>1. \A a \in Booked : booking(a)' = booking(a)
      BY <1>4, WritesKeepDays
    <3> QED
      BY <2>3, <3>1 DEF held
  <2>6. \A a, b \in live : booking(a) = booking(b) => a = b
    BY BookingsAreDistinct DEF Live
  <2>7. CASE i \in live
    BY <2>4, <2>5, <2>6, <2>7
  <2>8. CASE i \notin live
    BY <2>4, <2>5, <2>8
  <2> QED
    BY <2>7, <2>8
<1>5. CASE UNCHANGED absenceVars
  BY <1>5 DEF absenceVars, held, Booked
<1> QED
  BY <1>1, <1>2, <1>3, <1>4, <1>5 DEF NextAbsence

\* Booking, approving and cancelling, in any interleaving, do what Leave says.
THEOREM AbsenceImplementsLeave == SpecAbsence => ImplementsLeave
<1>1. InitAbsence => LV!Init
  BY DEF InitAbsence, Booked, LV!Init
<1>2. IInv /\ [NextAbsence]_absenceVars => [LV!Next]_held
  BY StepsAreLeave DEF LV!Next, LV!Book, LV!Cancel, LV!Day, Day, held
<1> QED
  BY <1>1, <1>2, Invariant, PTL DEF SpecAbsence, ImplementsLeave, LV!Spec, held

-----------------------------------------------------------------------------
(* Approving what was cancelled *)

\* No row is being approved by one request while another cancels it.
DecisionsTakeTurns ==
    \A r, s \in Requests : req[r].phase = "approving" /\ req[s].phase = "cancelling"
                            => req[r].id # req[s].id

\* What an approval loaded as live is still live.
ApprovedAreLive ==
    \A r \in Requests : req[r].phase = "approving" => absence[req[r].id].canceller = Unset

\* Only a cancellation of the same row makes a loaded row stale: bookings,
\* other decisions and other cancellations leave it as it was.
LEMMA LiveStep ==
    IInv /\ ApprovedAreLive /\ DecisionsTakeTurns /\ [NextAbsence]_absenceVars
        => ApprovedAreLive'
<1> SUFFICES ASSUME IInv, ApprovedAreLive, DecisionsTakeTurns, [NextAbsence]_absenceVars,
                    NEW s \in Requests, req'[s].phase = "approving"
             PROVE  absence'[req'[s].id].canceller = Unset
  BY DEF ApprovedAreLive
<1>0. /\ absence \in [Ids -> Row \cup {Unset}] /\ req \in [Requests -> Request]
      /\ req[s].phase = "approving" => /\ req[s].id \in Ids /\ absence[req[s].id] # Unset
                                        /\ absence[req[s].id].canceller = Unset
  BY DEF IInv, TypeOK, ApprovedAreLive
<1>1. CASE UNCHANGED absenceVars
  BY <1>0, <1>1 DEF absenceVars
<1>2. ASSUME NEW a \in Ids, NEW actor \in Staff, NEW p \in Staff, NEW first \in Day,
             NEW last \in Day, RecordAbsence(a, actor, p, first, last)
      PROVE  absence'[req'[s].id].canceller = Unset
  BY <1>0, <1>2 DEF RecordAbsence
<1>3. ASSUME NEW r \in Requests, NEW a \in Booked, NEW actor \in Staff,
             LoadToApprove(r, a, actor) \/ LoadToCancel(r, a, actor)
      PROVE  absence'[req'[s].id].canceller = Unset
  BY <1>0, <1>3 DEF LoadToApprove, LoadToCancel
<1>4. ASSUME NEW r \in Requests, Approve(r)
      PROVE  absence'[req'[s].id].canceller = Unset
  <2>1. s # r /\ req'[s] = req[s]
    BY <1>0, <1>4 DEF Approve, Idle
  <2>2. absence'[req[s].id].canceller = absence[req[s].id].canceller
    <3>1. absence[req[s].id] \in Row
      BY <1>0, <2>1
    <3> QED BY <1>0, <1>4, <2>1, <3>1 DEF Approve, Row
  <2> QED BY <1>0, <2>1, <2>2
<1>5. ASSUME NEW r \in Requests, Cancel(r)
      PROVE  absence'[req'[s].id].canceller = Unset
  <2>1. s # r /\ req'[s] = req[s] /\ req[r].phase = "cancelling"
    BY <1>0, <1>5 DEF Cancel, Idle
  <2>2. req[s].id # req[r].id
    BY <2>1 DEF DecisionsTakeTurns
  <2> QED BY <1>0, <1>5, <2>1, <2>2 DEF Cancel
<1> QED BY <1>1, <1>2, <1>3, <1>4, <1>5 DEF NextAbsence

\* The check of approve() fails in one way only: if no request approves a row
\* while another cancels it, a cancelled absence is never approved, whatever
\* else overlaps and however long an approval takes (absence.py approve).
THEOREM OnlyCrossingsApproveTheCancelled ==
    SpecAbsence /\ []DecisionsTakeTurns => CancelledIsNeverApproved
<1> DEFINE Kept == \A a \in Booked : absence[a].canceller # Unset =>
                                        absence'[a].approver = absence[a].approver
<1>1. InitAbsence => ApprovedAreLive
  BY DEF InitAbsence, ApprovedAreLive, Idle
<1>2. IInv /\ ApprovedAreLive /\ DecisionsTakeTurns /\ [NextAbsence]_absenceVars => ApprovedAreLive'
  BY LiveStep
<1>3. IInv /\ ApprovedAreLive /\ [NextAbsence]_absenceVars => [Kept]_absenceVars
  <2> SUFFICES ASSUME IInv, ApprovedAreLive, NextAbsence, NEW b \in Booked, absence[b].canceller # Unset
               PROVE  absence'[b].approver = absence[b].approver
    OBVIOUS
  <2>0. /\ absence \in [Ids -> Row \cup {Unset}] /\ b \in Ids /\ absence[b] \in Row
        /\ absence[b] # Unset
    BY DEF IInv, TypeOK, Booked
  <2>1. ASSUME NEW a \in Ids, NEW actor \in Staff, NEW p \in Staff, NEW first \in Day,
               NEW last \in Day, RecordAbsence(a, actor, p, first, last)
        PROVE  absence'[b].approver = absence[b].approver
    BY <2>0, <2>1 DEF RecordAbsence
  <2>2. ASSUME NEW r \in Requests, Approve(r)
        PROVE  absence'[b].approver = absence[b].approver
    <3>1. req[r].id # b
      BY <2>2 DEF Approve, ApprovedAreLive
    <3> QED BY <2>0, <2>2, <3>1 DEF Approve
  <2>3. ASSUME NEW r \in Requests, Cancel(r)
        PROVE  absence'[b].approver = absence[b].approver
    BY <2>0, <2>3 DEF Cancel, Row
  <2> QED BY <2>1, <2>2, <2>3 DEF NextAbsence, LoadToApprove, LoadToCancel
<1> HIDE DEF Kept
<1>4. SpecAbsence /\ []DecisionsTakeTurns => [][Kept]_absenceVars
  BY <1>1, <1>2, <1>3, Invariant, PTL DEF SpecAbsence
<1> USE DEF Kept
<1> QED BY <1>4 DEF CancelledIsNeverApproved

==============================================================================
