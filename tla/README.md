# Verification of Resource Planning

TLA+ models, model-checking configurations and machine-checked proofs for the
*Resource Planning* application (`src/`): a register of a software team's work
in which every figure the product shows is derived from what was recorded —
who owned an item, when it changed state, what displaced it. A broken invariant
there raises no error; it gives a plausible wrong number. So the development
starts with the register and with what several requests can do to it at once,
goes on to the figures read off it, and then to what stands around it: absences,
accounts, reference data, backups.

## 1. The system

FastAPI handlers (`backend/app/api.py`) run in a pool of threads. Each request
has one SQLAlchemy session and one PostgreSQL transaction (`db.py`,
READ COMMITTED), committed when the handler returns and rolled back when it
raises. There is no cache, no queue and no background job: what requests share
is the database, and what they can get wrong is what they read before another
one committed. Part of the rules is kept by the database (CHECKs, a partial
unique index, an EXCLUDE constraint, triggers), part by the version column of
`work_item`, part only by application code.

| Component | State | Operations | What is hard | What makes it correct |
|---|---|---|---|---|
| Work service (`work/service.py`) and lifecycle | `work_item`, `work_item_participant`, `state_transition`, `work_item_audit` | create, transition, assign, edit | decisions on rows read earlier, backdated entries, displacement chains, two reassignments at once | INV-1..4, 6..9, 12: history legal and dated in order, cached state true, ownership without gap or overlap, no loops, no lost update |
| Constraints and triggers (`alembic/versions/001`, `002`) | the same tables | refuse or log a write | they act at the flush, after other requests committed | what they refuse is exactly what the service cannot |
| Stated times (`work/timing.py`) | none | parse_when | time zones, skew, the fortnight bound | never in the future, never shifted |
| Permissions (`access.py`) | role and team of a person | can, can_assign_to, visible_team_ids | a check on a role that is being changed | reach never beyond the matrix |
| Sign-in and sessions (`auth.py`, handlers) | credentials on `person`, `user_session` | login, logout, setup, change, reset, revoke, unlock, deactivate | revocation against use and against a late sign-in, counters | a revoked or deactivated person's next request is refused |
| Absence and cover (`people/absence.py`) | `absence` | record, approve, cancel, uncovered_work | two bookings at once, approve against cancel, half-open ranges | INV-5; cancelled is final |
| Reference data (`reference.py`) | `client`, `work_item_type`, `role`, `team` | add, rename, retire, reorder | uniqueness races, retiring what is being given out | no two names alike; nobody active holds a retired role or team |
| Calendar (`flow/calendar.py`) | `non_working_day`, `org_setting` | durations, working days | boundaries, optional days | additive over any split |
| Timeline, statistics, attention, load, reports (`flow/*`) | none, read-only | derive segments, percentiles, cohorts, load | sample-size limits, history they may rely on | totals that add up, figures that follow from the history |
| Search (`work/search.py`) | none | ranked text query | — | — |
| Backup and restore (`deploy/`) | dump files | dump, verify, rename, prune, restore | a crash in between | a verified dump is always there |
| Templates, configuration, containers | — | — | — | — |

Interaction: every handler goes through `signed_in` (a session row and an
active person), then through `require`/`can_assign_to`, then into a service that
reads and writes the tables; the `flow` modules only read what the work service
wrote, and rely on its invariants (the client reports, for one, take for granted
that a finished item has an owner).

The hazards of each component, with the line where they bite and the property
that covers them (or the reason why none does), are the `hazards` of
`PROJECT.json`.

## 2. Modules

| Module | What it is |
|---|---|
| `Lifecycle` | the states and legal transitions of `work/lifecycle.py`, constants only |
| `WorkHistory` | what the register promises: one history and one list of ownership spells per item, extended by atomic `Record`, `Move`, `Give` |
| `WorkItems` | the register as coded: requests that load, check, walk and commit, interleaved statement by statement |
| `MCWorkItems` | instances for TLC: constants, symmetry, an initial state in which every item was started |
| `WorkItemsProofs` | the inductive invariant and the theorems of `WorkItems`; `WorkItems` implements `WorkHistory` |
| `Leave` | what booking time off promises: a set of bookings, no day taken twice by one person |
| `Absence` | the absence table and its handlers as coded: the EXCLUDE constraint decides bookings, approvals and cancellations load and then write |
| `MCAbsence` | an instance of `Absence` for the run that is violated |
| `AbsenceProofs` | the inductive invariant and theorems of `Absence`; `Absence` implements `Leave` |
| `Accounts` | people as accounts, passwords, sessions, locks and the handlers that manage people, under overlapping requests |
| `AccountsProofs` | the inductive invariant and the theorems of `Accounts` |
| `Reference` | rows that others point at: names, codes, retiring, and people being given a row |
| `ReferenceProofs` | the inductive invariant and the theorems of `Reference` |
| `MCStaff` | instances of `Accounts` and `Reference` for TLC |
| `Calendar` | working time, constants only |
| `Figures` | timeline, statistics and warnings as functions of the histories of `WorkHistory`; extends `WorkHistory` and `Calendar` |
| `Forecast` | cohorts, percentiles, throughput and client reports over finished work |
| `Timing` | a stated time made into a moment, constants only |
| `Questions` | `Calendar`, `Timing` and the percentiles of `Forecast` asked one input at a time, and what their answers should be |
| `SumTheorems` | lemmas about sums over finite sets: taking one term out, summing by parts, sums of differences |
| `FiguresProofs` | theorems about histories, working time, the timeline, the statistics and the warnings, and about the forms and intervals of `Questions` |
| `ForecastProofs` | theorems about percentiles, cohorts and tallies, and about the cohorts of `Questions` |
| `Backup` | the backup and restore scripts, command by command, with failures and crashes |
| `BackupProofs` | the inductive invariant and the theorems of `Backup` |
| `MCRecords` | instances of `Absence`, `Figures`, `Forecast`, `Backup` and `Questions` for TLC |

How they compose: `WorkItems` implements `WorkHistory`, and `Figures` reads the
histories of `WorkHistory`. So what is checked of the figures is checked over
exactly the histories that overlapping requests can leave behind. `Absence`,
`Accounts` and `Reference` share no column with the register or with each other
that a step of theirs depends on; `People` in `WorkItems` are the active people.

### How `WorkItems` corresponds to the code

*Tables.* `recorded`, `state`, `displacer`, `version`, `details` are the columns
of `work_item` (`details` stands for the six EDITABLE columns together);
`events`, `owners`, `audit` are the rows of `state_transition`, of
`work_item_participant` and of `work_item_audit` for an item, in id order.
`acked` is not a table: it is the set of items whose creation was reported to
the user as done.

*Requests.* `req[r]` is what one request in flight holds in memory. Its phases
are the places between two statements at which another transaction may commit:

    idle --Load--> loaded --CheckTransition--> ready --Commit/AbortTransition--> idle
                     |            \--> walking --WalkOn*--> ready | WalkLoops --> idle
                     |--ReadOwner--> assigning --Commit/AbortAssign--> idle
                     |--CommitEdit | AbortEdit | Refuse--> idle

`Load` is `session.get`. `CheckTransition` is `transition()` up to the walk:
the lifecycle, the date, the displacer given, the owner looked up. `WalkOn` is
one turn of the loop in `_would_cycle`, each a SELECT of its own. The commit
actions are the flush and the commit together: once the first row is written it
is locked, and a second writer waits for the commit and then finds a version
that no longer matches, or an index entry that is already there. An assignment
updates the participant row *by the id it read*, whatever has become of it, and
inserts a new one; the CHECK and the partial unique index decide. Errors roll
everything back (`Abort…`), a business rule that refuses before anything is
written is `Refuse` or the absence of an enabled check.

*Creation* is one action, because nobody else can see the new row. It has three
outcomes; `CreateRefusedOwner` is the one in which `assign()` refuses the owner
after the item was flushed and the form's handler swallows the exception.

*Abstractions.* Times are small integers; a request may date an entry anywhere
from 0 to now, as the JSON API allows (`parse_when` narrows this on the forms).
`Reach` stands for `can_assign_to`. `People` are the active people. The two
SELECTs of `transition()` for the latest event and for the owner are one action:
an item that has an owner keeps one, and an event committed between the two
moves the version on, so the request could only be refused or fail.

*Bounds.* `MaxNow` bounds the clock, `MaxVersion` the writes to one row,
`MaxSpells` the ownership rows of an item. They appear as guards of the check
(`CheckTransition`, `CommitEdit`, `ReadOwner`), never of a commit.

An operator called `X_Y` next to an operator `X` is `X` with a mistake in it, of
the kind a change to the code could make: the version left out of the WHERE
clause, the date check dropped, the index dropped. No behaviour uses it; it
records that each property fails when that mistake is made.

### How `Absence` corresponds to the code

*State.* `absence` is the table by id. A row keeps the person, the range
(`first`, and `upper`, exclusive as PostgreSQL stores it), who approved and who
cancelled it; `approved_at` and `cancelled_at` are set with them. `last`, the
last day as it was typed, is kept in the row only to state what was asked for;
nothing in the model's steps reads it back.

*Actions.* `RecordAbsence` is `do_record_absence` and `record_absence`: one INSERT,
which the constraint makes wait for any other over the same days, so that it is
one step. `LoadToApprove`/`Approve` and `LoadToCancel`/`Cancel` are the two
halves of their handlers: `session.get` with the checks, then the UPDATE of two
columns by id at the commit, whatever has happened to the others. An absence
found cancelled is refused or left alone, which changes nothing and is a
disabled action.

*Abstractions.* A date is a number up to `LastDay`; `MaxSpan` is the year that
`record_absence` allows. Kind, note and who recorded it are left out: nothing
depends on them.

### How `Accounts` corresponds to the code

*State.* `person` is the table by email, with the six columns that sign-in and
the people page use; `session` is `user_session` by token. A session remembers
the password it was opened with (`pw`), which is no column: it is there to say
what a password change is for. `lock` is `locked_until` seen from the clock.

*Requests.* A handler loads the person once, changes the copy, and SQLAlchemy
writes at the end only the columns that differ from what was loaded. `person`
has no version column. So an action of a handler is its load with all its
checks: it leaves in `req[r]` the copy (`was`), what was made of it (`new`), and
what follows the write (`last`: nothing, a new session, an end to all sessions,
or both). `Commit` writes the columns in which `was` and `new` differ over
whatever the row is by then (`Written`), ends sessions and starts one. `Abort` is
every way a request can fail. What one statement does (`LogOut`,
`SignOutEverywhere`) is one action. Two orders of the code matter and are kept:
a deactivation revokes the sessions *before* the row is written (`cut`), a
password change and a reset *after* it (`Ended`), when the write has made it
wait for the others.

*History variable.* `overlapped` is the set of people about whom two requests
were in flight at once. Three invariants are promised only of the others
(`SessionsFollowPassword`, `InactiveHoldNoSession`, `IssuedMustBeChanged`). Of those in
it, `oldsession` shows what becomes of sessions; a session that outlives a deactivation
answers nothing while the person is inactive, because every request looks at `active`;
and an issued password can be left without the obligation to change it (section 3). What
is said of locks and of the last administrator has no such exception.
`MaxMeetings` bounds how many such meetings a behaviour has before no further
request starts; those in flight go on in every order.

*Left out.* The hash (a salted hash of a password is never the hash it replaces),
the rules for a good password, the expiry of a session (one that expired is
one that is not used again).

### How `Reference` corresponds to the code

`table` is the `role` table, which has every rule the other three have: a name
unique but for capitals, a code made once by `_slug` and `_unique_code`, retiring
refused while somebody active holds the row. `work_item_type` lacks the holders,
`team` the code, `client` both. `Lower` and `Slug` are parameters: the theorems
hold whatever the two make of a name. `holder` are the columns of `person` that
matter here. Adding, renaming and retiring look first (`NameTaken`, `Holders`)
and write at `CommitForm`, where the unique indexes decide (`IndexesHold`).
`GiveRow` is any of the three handlers that give a person a row (`do_add_person`,
`do_edit_person`, `do_setup`): the row exists, which the foreign key asks, and nothing
looks whether it is still offered. What the page lists is no guard of the model.

### How `Calendar`, `Figures` and `Forecast` correspond to the code

A moment is a number of ticks and a day `DayLen` ticks. `WorkingDuration` walks
the days as `working_duration` does and clips each to the interval; the sum over
the days is the loop. The optional days that were worked are a parameter
(`worked`), because the code resolves them in two ways: the statistics and the
attention page take the days on which anybody recorded anything, the timeline
those on which one of the item's own people did. Who recorded what is not in a
history, so the timeline's set is any set between the two that holds the
item's own days (`MayHaveWorked`).

`Figures` has the names of `timeline.py`: `Left` is the end of a span (the next
event, or now, or at once for a finished item), and each figure is the sum the
code accumulates. `IsSampled`, `Sample` and `AccountableSoFar` are
`collect_samples` and `accountable_so_far`; `Stalled`, `Overdue`, `DueSoon` and
`Overrunning` are the flags of `attention.py`, in the code's order of exclusion.

`Forecast` keeps of each item only that it was finished, when, and how it is
labelled, so that TLC can take every combination of items. `Ordered` is the sort
in `percentile`: any order of the cohort in which nothing comes before something
quicker. `Rung` is the ladder
of `cohort_for`, `NearestRank` the integer form of `ceil(p * n)` clamped to the
sample. The code multiplies floating-point numbers; for the three percentages it asks
for (`Percentages`) the two agree, and nothing is said of others, for some of which they
do not. `MinSample` stands for `min_sample` and for `MIN_SAMPLE`, which no caller tells
apart.

Days are days in UTC, as in `working_duration`; that the dates which the database makes
of moments are the same rests on its session being in UTC. What `likely` and `due` are
asked of in the attention list is a parameter: `likely` is drawn from the statistics of
the moment and is another at every reading.

### How `Timing` corresponds to the code

`parse_when` in minutes: `Stated` applies the browser's offset unless the text
carries a zone of its own, `Refused` are its two bounds, `Clamped` its
correction of a clock that is slightly ahead. Turning the text into digits is left
out, and one form has one offset: a change to or from summer time between the moment
and the entry is not modelled. The register's own checks of a date are in `WorkItems`.

### How `Backup` corresponds to the code

Each command of `take_backup` that touches a file is an action: `StartDump` (the
`.part` file), `Rename`, `Verify`, `Prune`. Each may be the last thing before a `Crash`,
and each may fail as the script lets it: `pg_dump` and its file goes (`DumpFails`);
`mv`, which in the loop does not end the run, since `set -e` is off on the left of a `||`
(`RenameFails`); `pg_restore --list`, whatever the file is like, and the file goes
(`VerifyFails`); `find` in the middle of deleting (`Prune` deletes any part of what is
too old). `Runs` are the nightly loop and any runs by hand (`--once`), interleaved.
`BeginRestore` and `EndRestore` are `restore.sh`, which drops and creates objects one by
one and leaves a database that is part old and part new if it fails. A file is a dump of
a whole or a partial database (`of`), written to its end or not (`done`), readable or not
(`sound`); the code knows none of the three and can ask only for the last.
Files are numbered: no two dumps are begun in one second, which the loop keeps by itself
and a run by hand beside it only nearly.

### How `MCStaff` and `MCRecords` explore

Machines that share no variable are explored in one run, one at a time: each
moves only while the others are in their initial states. So the reachable states
add up and every behaviour of each machine is there. Pure functions are explored
by *questions* (`Questions`): a step from the initial state puts an input into
`asked`, and the invariant compares the function with its definition on it. What
`Reference`, `Forecast`, `Backup` and `Questions` assume of their constants is
an operator (`ReferenceAssumption` and so on), which the MC module assumes, so that
TLC evaluates it, and which is a hypothesis of each theorem about the module. No two
of the modules that a run combines share a name, so `MCStaff` and `MCRecords` extend
them, and the properties of a run are the very definitions the theorems state.

## 3. Runs

| Run | Question | Bounds, and why they are enough |
|---|---|---|
| `overlap` | Do two requests on one item keep the row, the history, the audit trail, the ownership and what they remember consistent, and is each commit an abstract operation? (`TypeOK`, `RequestInv`, `StateMirrorsHistory`, `HistoryIsLegal`, `AuditAgreesWithHistory`, `OneWasAccountable`, `StartedWorkIsOwned`, `ClosedIsFinal`, `NoLostUpdate`, `ImplementsHistory`) | one item, 2 people, 2 requests, 2 times, 3 versions, 3 spells, 2 values of the fields: both requests can load the same version or read the same open spell, either can win, one may be dated before the other, and there is time to close the item |
| `turns` | While no two requests put items on hold at the same time, does `_would_cycle` keep loops out, whatever else overlaps, and is it always explained why an item is on hold, and is a hold refused only for a loop that is there? (`HoldNamesItsCause`, `NoDisplacementLoop`, `OnlyRealLoopsAreRefused`) | 3 started items, 2 requests, 2 writes to each item: chains and loops of length 2 and 3, and a chain that changes under a walk because an item in it is resumed, done or cancelled |
| `answered` | Is every request answered? (`RequestsAreAnswered`) | 3 started items, 2 requests: enough for two requests to leave a loop in the table and for a later walk, from the third item, to run into it |
| `staff` | Do sessions, issued passwords, names and codes stay what they are said to be, and do locks and the last administrator go in no other than the named ways? (`TypeOK`, `SessionsFollowPassword`, `InactiveHoldNoSession`, `IssuedMustBeChanged`, `RevokedIsFinal`, `LockLifts`, `LastAdministratorGoes`; `RowsDistinct`) | 2 people, 2 passwords of their own and an issued one, 2 tokens, 2 requests, a lock after 2 failures: an administrator and somebody to manage, a change back to an old password, a request that outlives its session. No new request after two met (`MaxMeetings` 0), but the two that met go on in every order. 2 rows, 3 names of which two differ in capitals and all share a slug |
| `records` | Do bookings, cancellations and rebookings keep the days of each person right, and is it all an implementation of `Leave`; do the figures add up and agree with each other, do those of finished work only grow by optional days, and do warnings stay; are forecasts true of their cohorts; is a good dump kept; are stated times the moments that were meant? (`OneAbsenceADay`, `AwayAsAsked`, `RefusedOnlyIfTaken`, `ImplementsLeave`; `TimesAddUp`, `SamplesAreWhole`, `OneRuler`, `FinishedFiguresGrow`, `WarningsStay`; `ForecastsAreTrue`, `TalliesAgree`; `OfferedAreFinished`, `LastGoodIsKept`; `WorkingTimeIsExact`, `RanksAreExact`, `StatedTimesAreKept`) | 2 people, 2 absences of 1 or 2 of 3 days, 2 requests: two absences can touch, overlap, be contained, one be cancelled twice at once and booked again (the constraint compares rows two by two); one item with up to 5 events, given to somebody else at the end when it is done, and another recorded on the first day, over 3 days of which one is optional and one a weekend, a window of 4 ticks that cuts through the longer histories; 3 finished items of 2 types, with a minimum sample of 2, in a horizon of 2 of 3 ticks; 3 dumps over 3 days kept for 1, two runs at a time; every interval over 11 days with two optional Saturdays and a holiday among them, the three percentages of every cohort of 1 to 100, entries a minute around each border of what `parse_when` accepts |
| `loop` | violated: INV-4 with two requests | 2 started items |
| `unowned` | violated: INV-6 as documented | one request |
| `refused` | violated: a failed creation leaves nothing | one creation |
| `absence_late` | violated: a cancelled absence is not approved | one row, 2 requests |
| `oldsession` | violated: a password change ends every other session | 2 requests, 3 tokens |
| `lastadmin` | violated: the last administrator is not locked out, also when none gives up the role (`SpecStaying`) | 2 administrators, 3 tokens |
| `retired` | violated: a role that is held is not retired | 2 requests |

`turns`, `answered` and `loop` start from `InitStarted`, a state reached by
creating each item with an owner and starting it; this spares TLC the steps that
have nothing to do with displacement. `RequestSymmetry` and `ItemSymmetry` are
used only in runs without liveness properties. TLC's deadlock check is on
for the work items: a request can always be loaded and refused. It is off for the
absences, where the finite set of ids runs out once every row is cancelled, and
for `staff` and `records`, where tokens, ids, dumps, time and events run out and a
question has no next step.

The seven violations are findings (`PROJECT.json`): each contradicts a line of
the repository. Some things are worth saying about them. The loop that two
requests can leave behind does not hang a later request, because `_would_cycle`
stops at any item it has seen and not only at its own (`answered` fails when it
looks for its own item only). And what the code does guarantee instead of the
documented INV-6 is `StartedWorkIsOwned`: whatever was started, and so whatever
is done, has an owner. An approval that comes too late does no harm to
the days: whether an absence counts depends on `cancelled_at` alone
(`ImplementsLeave` holds with crossing requests). What it harms is the record of
the decision. A sign-in that crosses a password change can leave a session that
was opened with the old password; it never brings a revoked one back
(`RevokedIsFinal`).

Four claims of the repository do not hold as they stand.
What is checked and proved of them is a weaker one without exceptions that names every
way in which they fail:

* The last administrator (`api.py:1074`) goes by giving up the role, which
  `do_edit_person` allows (it only forbids to deactivate oneself), or by a request of
  somebody who has ceased to be an administrator since it began
  (`LastAdministratorGoes`).
* A lock ("even the correct password is refused while locked", `test_auth.py:124`) goes
  before its time by an administrator, or by a sign-in that had loaded an older lock which
  was over (`LockLifts`).
* The last good dump ("a run of failures can never delete the last good backup along the
  way", `backup.sh:49`) goes by the retention of a run that dumped a database in the middle
  of a restore or left behind by one that failed (`LastGoodIsKept`).
* A warning that an item is due soon ("an item due tomorrow that has not started is worth a
  nudge", `attention.py:189`) goes, with nothing done about it, while no working
  day is left before the date; on a day off it can be missing until it comes back as
  overdue. An optional day that begins to count can push the date out of reach, and a
  yardstick that has grown, as the window moves, takes away that an item overruns
  (`WarningsStay`).

Other places where the code does less than it says came up while it was modelled. They
take a step or two and need no run to be seen, but each bounds what is checked here:

* Two absences of a person may adjoin, and then the "first day back" on the cover list
  (`absence.py:215`) is the first day of the other. `ReturnsAreDaysBack` proves that there
  is no other way.
* `do_add_person`, `do_edit_person` and `do_setup` give a role and a team without looking
  whether they are active, so that a retired role can be held without any race, although
  `reference.py:231` describes that as what retiring prevents. `RetiredRowsAreUnheld` has it
  as a condition.
* Two first-run set-ups may both find that nobody can sign in (`api.py:924`, "only
  reachable while none exists"), and both go through.
* A reset that loaded a person who already has to change the password writes its hash only.
  If that person's own change commits first and clears the flag, the issued password is
  left without it (`api.py:1045`). `IssuedMustBeChanged` exempts the people about whom
  requests overlapped.

The working times of finished work are not final (`FinishedFiguresGrow`): they grow by
the optional days that come to count, because somebody records something on one
later, or because the item is given, although it is finished, to somebody who did.

*Fairness* (`answered` only): weak fairness of each request's own steps
(`Proceed(r)`). A handler runs on a thread of its own and waits for nothing but
row locks, which the other transaction releases when it commits or rolls back;
once begun it is scheduled until it returns. Nothing is assumed of users: no
fairness on loading, creating or the clock.

## 4. Proofs

For every number of items, people and requests and every bound, tlapm checks:

* `IInv` is inductive (`Inductive`). It is the conjunction of `TypeOK`,
  `RequestInv`, `StateMirrorsHistory`, `HistoryIsLegal`, `OwnershipTiles`,
  `StartedWorkIsOwned` and `HoldNamesItsCause`.
* Hence `TypeCorrect`, `RequestsStayInformed`, `StateIsTrustworthy`,
  `HistoriesAreLegal`, `StartedWorkStaysOwned`, `HoldsAreExplained`, and the
  action properties `ClosedStaysClosed` and `NoUpdateIsLost`.
* `OneAccountablePerson`: of every moment since an item was first assigned, exactly
  one row of its ownership covers it (`OneWasAccountable`), so that "who held this
  when it stalled?" has one answer.
* `AuditTellsTheHistory`: the trigger's audit trail and the history agree.
* `LoopsNeedTwoHolds`: no loop of displacement as long as no two requests are
  putting items on hold at the same time (`HoldsTakeTurns`), and
  `OneRequestLeavesNoLoop`, which needs no such hypothesis. Under the same
  condition `NoHonestHoldIsRefused`: a walk that refuses a hold has come back to
  the item it is about, and not to another it had merely seen.
* `WalksEnd`: whatever the table holds, loops included, and whatever is written
  meanwhile, each turn of a walk leaves fewer items unseen (if items are finitely many).
* `RegisterKeepsHistories`: the register's events satisfy `HistoryInv`, the only
  thing the theorems about figures need of the past.
* `RequestsImplementHistory`: every behaviour of `WorkItems` is one of
  `WorkHistory`, the history being `events` and the spells `owners`.

The argument turns on `RequestInv`. None of the other invariants is inductive
alone: that a commit appends an event which starts where the history ends and is
dated no earlier follows only from what the request saw when it was checked. So
the invariant says what a request in flight still knows: *if* its version is the
row's version, the state and fields it holds are the row's, and the date it
carries is not before the last event; whatever the version, ownership it has
seen cannot vanish, and a participant row it has read still names the same
person. `RowsMoveOn` says what any step may do to a row (versions grow, a row of
the same version is unchanged, ownership rows are only added to);
`OthersKeepHolding` concludes that a request keeps its knowledge while others
commit, and `RequestStep` adds its own steps. `TransitionEffect` then reads off
what a commit that passed the version check leaves behind, `AppendKeepsLegal` and
`LatestIsLast` carry it to the history (in a log dated in order the latest row by
`(occurred_at, id)` is the last one written), and `AcceptedAssignmentTiles` shows
that rows the CHECK and the unique index accept can only come from closing the
open last row, so that ownership tiles time. Rows that tile begin in order
(`TilesInOrder`); counting up, the last row that begins by a moment covers it, and no
other does (`TilesCoverOnce`).

The audit trail has no column in common with the history, so the two are compared
by counting: the k-th change of state in the trail is the k-th step of the
history (`StateChanges`). `StateChangesNext` and `StateChangesGrow` say what an
appended row does to the count, and `AuditEffects` that a commit appends a row
about the state exactly when it appends an event (an edit appends rows about
other fields only). The invariant is `AuditInv`, relative to `IInv`.

About loops the code keeps INV-4 only as far as its walk is not overtaken: between
the walk of one hold and its commit another hold may be committed (the run `loop`
shows it). `HoldsTakeTurns` excludes exactly that: two requests that are past the
check of a hold at the same time. Everything else may overlap, and does: items of the
chain may be resumed, finished or cancelled under the walk, which can only cut the
chain. No induction along the chain is needed. `NoDisplacementLoop` says that every
set of recorded items has one whose displacer is outside it, and `WalkInv` says of a
walk in progress that the items it has passed lead to each other, to where it is, or
to an end. A walk that is over has therefore passed a set that is closed under
displacers and does not hold the item; if a set with the item became closed by the
hold, what is left of it inside the walked set would have been closed before
(`HoldClosesNoLoop`).

`_would_cycle` also stops when it comes back to any other item, and that would refuse a
hold for a loop it has no part in. `OnlyRealLoopsAreRefused` says that this does not
happen. It is not obvious, because the walk reads one row after the other
while others write. `ChainInv` remembers the table as it was when the walk began: free of
loops, along which every item walked led to the next, and of which rows have only been
cleared since (`WalkGoesOn`). Items walked that led back to one another would
be a loop in that table (`ChainMeansReal`).

`RegisterKeepsHistories` needs besides `IInv` that no event is dated after the clock
(`NothingIsAhead`, INV-12). It closes the gap between `WorkItems`, where requests
overlap, and `Figures`, which reads histories.

About absences (`AbsenceProofs`), for any people, ids, requests and dates:
`TypeCorrect`, `NobodyIsAwayTwice` (INV-5), `AwayOnTheDaysAsked`,
`RefusalsAreRight` and `AbsenceImplementsLeave`; and where no two absences of a person
adjoin (`NothingAdjoins`), `ReturnsAreDaysBack`.
`OneAbsenceADay` is not inductive alone: that two ranges which do not overlap share no
day, and that two live rows are never one and the same booking, needs every stored range to be the
half-open form of the days entered and not empty (`StoredAsEntered`). Of the return
date the same two say that an absence which covers it and began earlier would
share the last day away. `FreeDays`
is the link from the constraint to the days; `BookingsAreDistinct` is why a
cancellation gives back one booking and no more. `OnlyCrossingsApproveTheCancelled` says
what the finding about approvals comes to: if no request approves a row while
another cancels it (`DecisionsTakeTurns`), a cancelled absence is never approved,
because what an approval loaded as live is live still (`ApprovedAreLive`).

About accounts (`AccountsProofs`), for any people, passwords, tokens and
requests: type correctness (`Typing`, as in the next two modules),
`PasswordsEndSessions`, `DeactivationEndsSessions`,
`IssuedPasswordsExpire`, `TheLastGoesTwoWays`, `RevocationIsFinal`, `LocksLiftTwoWays`. The
tables alone do not carry them: what a commit will write was decided on an older
row. `Sound` says what every request in flight still knows whatever commits
meanwhile (its session was drawn; a row that has a password keeps one; who
deactivates somebody deals with somebody else).
`Alone` says what a request knows besides when no other is about the same
person: its copy is the row, a lock that ran out apart, and the sessions it has
not cut are none if it deactivates. `OverlapsAreSeen` links the two: requests about
one person are in `overlapped`. `StartFit` reduces each handler to those two
formulas, `CommitEffect` reads off what a commit leaves of row and sessions, and
`CommitStep` carries the invariant over it. In `TheLastGoesTwoWays` (`LastGoes`) a commit
that takes the last administrator away must
change that person's role or deactivate them (`PasswordsStay`, `OwnWritesKeepRoles`); if it
is about somebody else, and who made it still administers, then that one is left.

Two theorems say what exactly makes findings about accounts possible.
`OneRequestAPersonIsEnough`: if never two requests about one person are in flight, every
session goes on under the password it was opened with (`OverlapStep`: nobody is ever in
`overlapped`). `OneManagerAtATimeIsEnough`: if administrators deal with others one after
the other (`OneManagesAtATime`) and none gives up the role (`NobodyStepsDown`), the last
administrator stays, because who deals with somebody else is still an administrator
(`ManagersAdminister`); requests about oneself, sign-ins and revocations may overlap as
they like.

About reference data (`ReferenceProofs`), for any rows, names, spellings and
codes: `RowsAreDistinct` (names and codes) and `RetiredRowsAreUnheld`. The first
follows from the indexes, given that a rename keeps the code and that the
suffix search ends (`FirstFreeIsFree`, from the least element of a set of
naturals). The second is conditional, since the code does not keep it (section 3):
forms name rows that are offered when they are carried out (`OfferedIsGiven`), and
nobody's row is written while one is being retired
(`RetiringIsAlone`). Then a row under retirement stays without holders
(`RetiringIsUnheld`) and an edit in flight starts from a row that is offered
(`EditsAreFresh`), which two are inductive together with the claim (`UnheldStep`).

About backups (`BackupProofs`), for any number of runs, dumps and days:
`OfferedDumpsAreFinished` and `TheLastGoodDumpIsKept`. What makes pruning safe is
`RunsHaveDumps`: a run that has come as far as pruning has a verified dump of
today on the disk, whatever another run has pruned in between. A good dump counts as
held when no run is about to verify it (`Settled`), since a verification may fail on a
sound file; nothing but a run's own verification removes what is not too old.

About sums (`SumTheorems`). The models sum over days, events and items with the
community modules' `SumFunction`, a fold that is defined by choosing a function
which satisfies a recursive equation on all subsets. That there is one is proved
(`FoldExists`), by induction over subsets in the form of well-founded descent:
`SubsetInduction` and `ElementInduction` speak of a *collection* of sets and not of
a predicate, so that they need no operator parameter. From the equation follow the
lemmas the other proofs use: `SumOut` (any term may be taken out first),
`SumOfParts` and `CountByParts` (what falls into parts can be summed and counted by
parts), `SumOfDifferences` (differences of neighbours add up to the difference of the
ends).

About working time (`FiguresProofs`): `WorkingTimeCountsTicks`, for every calendar,
interval and set of optional days, and `WorkingTimeIsAlwaysExact` for the intervals of
`Questions`. The code clips each day to the interval and
sums; `OverlapIsExact` shows that a clipped day has as many ticks as lie in it, and
the ticks fall into parts by their day (`DayOfTick`, `OneDayOnly`).

About the figures, for any number of items, any length of history, any calendar,
window and clock: `HistoriesAreInOrder`, `TimesAlwaysAddUp`, `SamplesAreAlwaysWhole`,
`OpenAndFinishedAlike`, `FinishedFiguresOnlyGrow`, `WarningsDoNotExpire`. None of them
needs more of the past than `HistoryInv`, which is inductive: a history
begins with NEW, each step of it is allowed and starts where the last one ended, and
dates do not go back. (TLC checked it on the states of `records`.) The spans of a
timeline are therefore differences of neighbouring moments (`Bounds`), their working
times differences of working times since the first event (`SinceGrows`, by
`WorkingTimeAdds`: working time may be cut anywhere), and both add up to the whole by
`SumOfDifferences`; by `SharedByState` and `SumOfParts` so do the times in the states.
That first response and waiting for the client are what they are said to be
rests on the shape of the lifecycle (`PlaceInHistory`: NEW comes first only, a terminal
state last only). For `OpenAndFinishedAlike` and `FinishedFiguresOnlyGrow` it is
shown that a step adds at most one event to one history (`HistoryGrows`), which leaves
the spans before it alone. As optional days come to count, the ticks of an interval
that count are added to and none is lost (`WorkingTimeGrows`), and so with the sums
(`StatesGrow`). For `WarningsDoNotExpire`: nobody records anything on a day to
come, so the days worked up to today only grow (`WorkedGrows`); idle time
grows with them, and what is charged to an item is shared by the states in which
it is ours (`ChargeIsShared`), each of which grows (`ChargeGrows`), which a difference of
two growing times would not show; and while no optional day begins to count, there are
never more working days left (`FewerDaysLeft`).

`SamplesFitTheForecast` joins `Figures` to `Forecast`, whose `Finish` takes for granted
that an item did not wait for the client longer than it took: true of every item the
register lets be sampled, in working time and for any optional days. (Work that began and ended
on days off took no working time; `Forecast` measures in ticks and has no such item.)

About forecasts (`ForecastProofs`), for any items and labels: `ForecastsAreAlwaysTrue`
and `TalliesAlwaysAgree`, besides `RanksAreExactForAll` and `NoOutlierIsTheBound` for
every size of cohort and the three percentages that forecasts ask for. A cohort can be put in order
(`OrderExists`, by taking the slowest out), and then as many of its items are within
the item at a rank as the rank says, and fewer before it (`PercentileIsFirst`). The
tallies are `CountByParts` and `SumOfParts` with the weeks (`WeekOfMoment`: a moment is in
one week), the clients and the types as the parts. Their invariant, `ForecastInv`,
says that what is kept of an item is measured: it began before it ended, and
did not wait longer than it took.

About stated times: `EveryMomentIsKept` and `OrderIsAlwaysKept` for every clock, moment
and offset; a browser that reports nonsense is taken for one in UTC, which shifts what
was meant but keeps its order.

`StatedTimesAreAlwaysKept`, `WorkingTimeIsAlwaysExact` and `RanksAreAlwaysExact` are the
same results as the invariants of `SpecQuestions` that TLC checks, for any sets of
moments, arrivals, ticks and sizes.

Assumptions, all named in `WorkItems` and evaluated by TLC in every run: NULL is
no id, person, state or number; `Reach` maps people to sets of people; bounds are
naturals, two of them positive; field values are not states. `Absence` assumes that
approvers are people, that NULL is no person, id or row, and that its bounds are
naturals; `Accounts` that NULL is nothing else, that issued passwords are nobody's
own and that the limit of failures is positive; `Timing` that its two bounds are
naturals; `WorkHistory` that its clock is bounded by a natural, and `Calendar` that
a day has a positive length and begins on one of seven weekdays. What `Reference`,
`Backup`, `Forecast` and `Questions` assume is a hypothesis of their theorems; of
`Questions` it is that moments and ticks are integers and that cohorts are not empty.
`Forecast` assumes that items and labels are finitely many, `WalksEnd` that items are, and
`TalliesAlwaysAgree` that some owner is in
a team (without one, nobody is there to see the items of no team). The other
theorems hold for infinitely many items and requests.

Only model-checked: `RequestsAreAnswered` (liveness under fairness, which needs
ENABLED; `WalksEnd` is its safety half). Every other property of a passing run is stated
by a theorem. It is also left to TLC that the code does *not* keep what the seven
findings say.

## 5. What is not modelled, and the plan

* `uncovered_work` and `load.py`: single read-only queries that join rows whose
  properties `WorkItems` and `Absence` have. What can go wrong in them is a
  join, which a test reaches; that the page's SELECTs can see different moments
  harms nothing that is written. The `unowned` and `uncovered` flags of the attention page
  are the same rows, and its history-driven at-risk flag and `open_now` are
  comparisons of figures that are modelled.
* Search: a text query ranked by PostgreSQL, without state.
* Templates, styles and the wording of errors: layout.
* Migrations as a sequence: straight-line DDL, run once. What they leave behind (CHECKs,
  indexes, constraints, triggers) is in the modules that use the tables.
* Configuration and container start: environment variables and processes.
* `org_setting` and `non_working_day` are constants here: `Holidays`,
  `WeekendDays`, `OptionalDays`, `StaleAfter`.
* Adding collaborators to an item: no handler asks for it. `upcoming` absences: a
  list. `next_working_day`: nothing calls it.
* What the user saw before a form was sent. Where the handler does not look at it again
  (`GiveRow` of `Reference`), anything that can be posted is possible.
* Lock queues: two transactions that wait for each other are ended by PostgreSQL,
  which is `Abort`.

* Hazards without a property, for the reasons their notes in `PROJECT.json` give:
  an owner looked up as of now for a start dated in the past
  (`work/service.py:293`), two handlers that lock `person` and `user_session` in opposite
  orders (`api.py:1087`), and, as said in section 3, the return date of absences that adjoin
  (`absence.py:223`), two set-ups at once (`api.py:925`) and roles that are given although
  they are retired (`api.py:1079`).
* The edit form posts every field and carries no version: what the user saw may be older
  than the row the handler loads, from which on the version protects it.

What would be worth doing next: the edit form with the version the user saw
against the version the handler loads.
