------------------------------ MODULE WorkItems ------------------------------
(***************************************************************************)
(* The work register under concurrent requests.                            *)
(*                                                                         *)
(* Every request handler of the API runs in a worker thread with a         *)
(* transaction of its own (READ COMMITTED): it loads the item, sends       *)
(* further SELECTs, decides, and writes.  A transition and an edit write   *)
(* the row they loaded under SQLAlchemy's version check; an assignment     *)
(* writes participant rows under the partial unique index.  Here a request *)
(* is a slot of `req`, and every statement after which another transaction *)
(* may commit is an action.  Flush and commit are one action: from the     *)
(* first write to the commit the rows written are locked, and a            *)
(* transaction that waited for them sees what the commit left.             *)
(*                                                                         *)
(* An operator named X_Y, next to an operator X, is X with a mistake in    *)
(* it; nothing uses it but the record of which mistakes each property      *)
(* catches.                                                                *)
(*                                                                         *)
(* Sources: src/backend/app/work/service.py, the work item handlers of     *)
(* src/backend/app/api.py, and the constraints and triggers of             *)
(* src/backend/alembic/versions/001 and 002.                               *)
(***************************************************************************)
EXTENDS Integers, Sequences, FiniteSets, Lifecycle

CONSTANTS
    Items,       \* ids a work_item row can get
    People,      \* active people
    Details,     \* values of the editable fields, taken together
    Requests,    \* requests in flight at one time
    None,        \* SQL NULL
    Reach,       \* Reach[p]: the people p may put work on (can_assign_to)
    MaxNow,      \* bound on the clock
    MaxVersion,  \* bound on the writes to one work_item row
    MaxSpells    \* bound on the ownership rows of one item

ASSUME NoneAssumption ==
    None \notin Items /\ None \notin People /\ None \notin Details
    /\ None \notin State /\ None \notin Nat
ASSUME ReachAssumption == Reach \in [People -> SUBSET People]
ASSUME BoundAssumption ==
    MaxNow \in Nat /\ MaxVersion \in Nat \ {0} /\ MaxSpells \in Nat \ {0}
\* A field of one kind is never mistaken for the other in the audit trail.
ASSUME DetailsAssumption == Details \cap State = {}

VARIABLES
    now,        \* the server's clock
    recorded,   \* ids that have a work_item row
    state,      \* work_item.state
    displacer,  \* work_item.displaced_by_id
    version,    \* work_item.version
    details,    \* the EDITABLE columns of work_item
    events,     \* the item's state_transition rows, in id order
    owners,     \* the item's OWNER participant rows, in id order
    audit,      \* the item's work_item_audit rows, in id order
    acked,      \* items whose creation was reported to the user as done
    req         \* what each request in flight holds in memory

vars == <<now, recorded, state, displacer, version, details, events, owners,
          audit, acked, req>>
rows == <<recorded, state, displacer, version, details, events, owners,
          audit, acked>>

-----------------------------------------------------------------------------
(* Types *)

Time  == 0 .. MaxNow
OrNone(S) == S \cup {None}

Event == [from: OrNone(State), to: State, at: Time, displacer: OrNone(Items)]
Spell == [person: People, from: Time, to: OrNone(Time)]
Change == [field: {"state", "details"},
           old: State \cup Details, new: State \cup Details]

Phase == {"idle", "loaded", "walking", "ready", "assigning"}

\* What a request remembers between two statements.
Request ==
    [phase: Phase,
     item: OrNone(Items),
     \* the work_item row as session.get read it
     version: Nat, state: OrNone(State), details: OrNone(Details),
     \* the transition asked for
     to: OrNone(State), at: Time, displacer: OrNone(Items),
     \* _would_cycle's cursor and seen
     cursor: OrNone(Items), seen: SUBSET Items,
     \* the assignment asked for, and the participant row current_owner read
     person: OrNone(People), row: Nat]

Idle == [phase |-> "idle", item |-> None, version |-> 0, state |-> None,
         details |-> None, to |-> None, at |-> 0, displacer |-> None,
         cursor |-> None, seen |-> {}, person |-> None, row |-> 0]

TypeOK ==
    /\ now \in Time
    /\ recorded \subseteq Items
    /\ state \in [Items -> State]
    /\ displacer \in [Items -> OrNone(Items)]
    /\ version \in [Items -> Nat]
    /\ details \in [Items -> OrNone(Details)]
    /\ events \in [Items -> Seq(Event)]
    /\ owners \in [Items -> Seq(Spell)]
    /\ audit \in [Items -> Seq(Change)]
    /\ acked \subseteq Items
    /\ req \in [Requests -> Request]
    /\ \A i \in Items : IF i \in recorded THEN details[i] \in Details
                                         ELSE events[i] = <<>> /\ owners[i] = <<>>

-----------------------------------------------------------------------------
(* Reads *)

\* The participant row current_owner finds: current, and the only one (or 0).
OpenRow(spells) ==
    IF \E k \in DOMAIN spells : spells[k].to = None
    THEN CHOOSE k \in DOMAIN spells : spells[k].to = None
    ELSE 0

CurrentOwner(i) ==
    IF OpenRow(owners[i]) = 0 THEN None ELSE owners[i][OpenRow(owners[i])].person

\* ORDER BY occurred_at DESC, id DESC LIMIT 1
LatestIndex(log) ==
    CHOOSE k \in DOMAIN log :
        \A j \in DOMAIN log :
            log[j].at < log[k].at \/ (log[j].at = log[k].at /\ j <= k)

Latest(i) == events[i][LatestIndex(events[i])]

-----------------------------------------------------------------------------
Init ==
    /\ now = 0
    /\ recorded = {}
    /\ state = [i \in Items |-> "NEW"]
    /\ displacer = [i \in Items |-> None]
    /\ version = [i \in Items |-> 0]
    /\ details = [i \in Items |-> None]
    /\ events = [i \in Items |-> <<>>]
    /\ owners = [i \in Items |-> <<>>]
    /\ audit = [i \in Items |-> <<>>]
    /\ acked = {}
    /\ req = [r \in Requests |-> Idle]

Tick ==
    /\ now < MaxNow
    /\ now' = now + 1
    /\ UNCHANGED <<rows, req>>

\* The request ends; whatever it had not committed is rolled back.
Finish(r) == req' = [req EXCEPT ![r] = Idle]

-----------------------------------------------------------------------------
(* Creating an item: work_item, its first state_transition, and the        *)
(* owner's row when one was named and may be assigned, in one transaction. *)

InsertRow_Untitled(i, d) ==
    /\ recorded' = recorded \cup {i}
    /\ state' = [state EXCEPT ![i] = "NEW"]
    /\ displacer' = [displacer EXCEPT ![i] = None]
    /\ version' = [version EXCEPT ![i] = 1]
    /\ UNCHANGED details

InsertRow(i, d) ==
    /\ recorded' = recorded \cup {i}
    /\ state' = [state EXCEPT ![i] = "NEW"]
    /\ displacer' = [displacer EXCEPT ![i] = None]
    /\ version' = [version EXCEPT ![i] = 1]
    /\ details' = [details EXCEPT ![i] = d]

InsertItem(i, d, at, spells) ==
    /\ i \notin recorded
    /\ at <= now
    /\ InsertRow(i, d)
    /\ events' = [events EXCEPT ![i] =
                    <<[from |-> None, to |-> "NEW", at |-> at, displacer |-> None]>>]
    /\ owners' = [owners EXCEPT ![i] = spells]
    /\ UNCHANGED <<now, audit, req>>

CreateUnowned(i, d, at) ==
    /\ InsertItem(i, d, at, <<>>)
    /\ acked' = acked \cup {i}

CreateOwned(i, d, at, actor, p) ==
    /\ p \in Reach[actor]
    /\ InsertItem(i, d, at, <<[person |-> p, from |-> at, to |-> None]>>)
    /\ acked' = acked \cup {i}

\* page_create: assign() refuses the owner after the item was flushed; the
\* handler turns the error into a redirect, so the session still commits.
\* (api_create raises instead, and nothing is kept.)
CreateRefusedOwner(i, d, at, actor, p) ==
    /\ p \notin Reach[actor]
    /\ InsertItem(i, d, at, <<>>)
    /\ UNCHANGED acked

-----------------------------------------------------------------------------
(* A request on an existing item begins with session.get(WorkItem, id).    *)

Load(r, i) ==
    /\ req[r].phase = "idle"
    /\ i \in recorded
    /\ req' = [req EXCEPT ![r] = [Idle EXCEPT
                    !.phase = "loaded", !.item = i, !.version = version[i],
                    !.state = state[i], !.details = details[i]]]
    /\ UNCHANGED <<now, rows>>

\* A check refuses what the request asks for (an illegal transition, a date
\* before the latest event or in the future, a person out of reach, an empty
\* title, an item displacing itself): an error response, nothing written.
Refuse(r) ==
    /\ req[r].phase = "loaded"
    /\ Finish(r)
    /\ UNCHANGED <<now, rows>>

-----------------------------------------------------------------------------
(* transition *)

\* The column is cleared on every way out of ON_HOLD_PREEMPTED.
NewDisplacer_NeverCleared(to, d) == d
NewDisplacer(to, d) == IF to = "ON_HOLD_PREEMPTED" THEN d ELSE None

TransitionAllowed_AnyDate(r, to, at, d) ==
    LET i == req[r].item IN
    /\ to \in ALLOWED[req[r].state]
    /\ at <= now
    /\ to = "ON_HOLD_PREEMPTED" => d # None /\ d # i
    /\ to = "IN_PROGRESS" => CurrentOwner(i) # None

TransitionAllowed_Unowned(r, to, at, d) ==
    LET i == req[r].item IN
    /\ to \in ALLOWED[req[r].state]
    /\ at <= now
    /\ at >= Latest(i).at
    /\ to = "ON_HOLD_PREEMPTED" => d # None /\ d # i

\* Everything transition() decides before the walk, from the row it loaded,
\* the latest event and the current owner.  The code reads the latest event
\* and the owner by two SELECTs.  One action stands for both: an item that
\* has an owner keeps one, and an event committed between the two moves the
\* version on, so that the request can only be refused or fail.
TransitionAllowed(r, to, at, d) ==
    LET i == req[r].item IN
    /\ to \in ALLOWED[req[r].state]
    /\ at <= now
    /\ at >= Latest(i).at
    /\ to = "ON_HOLD_PREEMPTED" => d # None /\ d # i
    /\ to = "IN_PROGRESS" => CurrentOwner(i) # None

CheckTransition(r, to, at, d) ==
    /\ req[r].phase = "loaded"
    /\ req[r].version < MaxVersion
    /\ TransitionAllowed(r, to, at, d)
    /\ LET preempted == to = "ON_HOLD_PREEMPTED" IN
       req' = [req EXCEPT ![r] = [@ EXCEPT
                 !.phase = IF preempted THEN "walking" ELSE "ready",
                 !.to = to, !.at = at,
                 !.displacer = NewDisplacer(to, d),
                 !.cursor = IF preempted THEN d ELSE None,
                 !.seen = IF preempted THEN {req[r].item} ELSE {}]]
    /\ UNCHANGED <<now, rows>>

LoopFound_Never(r) == FALSE
LoopFound_OwnItemOnly(r) == req[r].cursor = req[r].item
LoopFound(r) == req[r].cursor \in req[r].seen

SeenAfter_Next(r, c) == req[r].seen \cup {c, displacer[c]}
SeenAfter(r, c) == req[r].seen \cup {c}

\* One turn of _would_cycle's loop: SELECT displaced_by_id of the cursor.
WalkOn(r) ==
    LET c == req[r].cursor IN
    /\ req[r].phase = "walking"
    /\ ~ LoopFound(r)
    /\ req' = [req EXCEPT ![r] = [@ EXCEPT
                 !.phase = IF displacer[c] = None THEN "ready" ELSE "walking",
                 !.seen = SeenAfter(r, c),
                 !.cursor = displacer[c]]]
    /\ UNCHANGED <<now, rows>>

\* The walk came back to an item it had seen: the transition is refused.
WalkLoops(r) ==
    /\ req[r].phase = "walking"
    /\ LoopFound(r)
    /\ Finish(r)
    /\ UNCHANGED <<now, rows>>

\* SQLAlchemy's version_id_col: every UPDATE of the row moves it on.
NextVersion_Kept(v) == v
NextVersion(v) == v + 1

VersionMatches_Unchecked(r) == TRUE
\* UPDATE ... WHERE id = :i AND version = :v matches the row.
VersionMatches(r) == version[req[r].item] = req[r].version

\* The foreign key on displaced_by_id.
DisplacerExists(r) == req[r].displacer \in OrNone(recorded)

CommitTransition(r) ==
    LET i == req[r].item IN
    /\ req[r].phase = "ready"
    /\ VersionMatches(r) /\ DisplacerExists(r)
    /\ state' = [state EXCEPT ![i] = req[r].to]
    /\ displacer' = [displacer EXCEPT ![i] = req[r].displacer]
    /\ version' = [version EXCEPT ![i] = NextVersion(@)]
    /\ events' = [events EXCEPT ![i] = Append(@,
                    [from |-> req[r].state, to |-> req[r].to, at |-> req[r].at,
                     displacer |-> req[r].displacer])]
    \* the AFTER UPDATE trigger compares OLD and NEW
    /\ audit' = [audit EXCEPT ![i] = Append(@,
                    [field |-> "state", old |-> state[i], new |-> req[r].to])]
    /\ Finish(r)
    /\ UNCHANGED <<now, recorded, details, owners, acked>>

\* StaleDataError, or a foreign key violation: rolled back.
AbortTransition(r) ==
    /\ req[r].phase = "ready"
    /\ ~ (VersionMatches(r) /\ DisplacerExists(r))
    /\ Finish(r)
    /\ UNCHANGED <<now, rows>>

-----------------------------------------------------------------------------
(* update_work_item: set the fields on the loaded row and flush.  Values   *)
(* equal to the ones loaded are no change, and no UPDATE is sent.          *)

CommitEdit(r, d) ==
    LET i == req[r].item IN
    /\ req[r].phase = "loaded"
    /\ req[r].version < MaxVersion
    /\ d # req[r].details
    /\ VersionMatches(r)
    /\ details' = [details EXCEPT ![i] = d]
    /\ version' = [version EXCEPT ![i] = NextVersion(@)]
    /\ audit' = [audit EXCEPT ![i] = Append(@,
                    [field |-> "details", old |-> details[i], new |-> d])]
    /\ Finish(r)
    /\ UNCHANGED <<now, recorded, state, displacer, events, owners, acked>>

AbortEdit(r) ==
    /\ req[r].phase = "loaded"
    /\ ~ VersionMatches(r)
    /\ Finish(r)
    /\ UNCHANGED <<now, rows>>

-----------------------------------------------------------------------------
(* assign (participation OWNER, the only one a handler asks for)           *)

\* Reach, the date, then current_owner; the item's row is never written.
ReadOwner(r, actor, p, at) ==
    LET i == req[r].item IN
    /\ req[r].phase = "loaded"
    /\ p \in Reach[actor]
    /\ at <= now
    /\ CurrentOwner(i) # p          \* the owner already: nothing to do
    /\ Len(owners[i]) < MaxSpells
    /\ req' = [req EXCEPT ![r] = [@ EXCEPT
                 !.phase = "assigning", !.person = p, !.at = at,
                 !.row = OpenRow(owners[i])]]
    /\ UNCHANGED <<now, rows>>

\* Close the row that was read, by its id, and insert the new owner's.
Reassigned(r) ==
    LET spells == owners[req[r].item] IN
    Append([k \in DOMAIN spells |->
              IF k = req[r].row THEN [spells[k] EXCEPT !.to = req[r].at]
                                ELSE spells[k]],
           [person |-> req[r].person, from |-> req[r].at, to |-> None])

PeriodsOrdered_Unchecked(spells) == TRUE
\* CHECK participation_period_ordered
PeriodsOrdered(spells) ==
    \A k \in DOMAIN spells : spells[k].to # None => spells[k].to >= spells[k].from

OneCurrentOwner_NoIndex(spells) == TRUE
\* UNIQUE INDEX one_current_owner_per_item ... WHERE to_ts IS NULL
OneCurrentOwner(spells) ==
    \A j, k \in DOMAIN spells :
        spells[j].to = None /\ spells[k].to = None => j = k

OwnerRowsAccepted(spells) == PeriodsOrdered(spells) /\ OneCurrentOwner(spells)

CommitAssign(r) ==
    /\ req[r].phase = "assigning"
    /\ OwnerRowsAccepted(Reassigned(r))
    /\ owners' = [owners EXCEPT ![req[r].item] = Reassigned(r)]
    /\ Finish(r)
    /\ UNCHANGED <<now, recorded, state, displacer, version, details, events,
                   audit, acked>>

\* IntegrityError: the closed row is rolled back with the inserted one.
AbortAssign(r) ==
    /\ req[r].phase = "assigning"
    /\ ~ OwnerRowsAccepted(Reassigned(r))
    /\ Finish(r)
    /\ UNCHANGED <<now, rows>>

-----------------------------------------------------------------------------
Create ==
    \E i \in Items, d \in Details, at \in Time :
        \/ CreateUnowned(i, d, at)
        \/ \E actor, p \in People : \/ CreateOwned(i, d, at, actor, p)
                                    \/ CreateRefusedOwner(i, d, at, actor, p)

Transition(r) ==
    \/ \E to \in State, at \in Time, d \in OrNone(Items) :
          CheckTransition(r, to, at, d)
    \/ WalkOn(r) \/ WalkLoops(r)
    \/ CommitTransition(r) \/ AbortTransition(r)

Edit(r) == (\E d \in Details : CommitEdit(r, d)) \/ AbortEdit(r)

Assign(r) ==
    \/ \E actor, p \in People, at \in Time : ReadOwner(r, actor, p, at)
    \/ CommitAssign(r) \/ AbortAssign(r)

\* A request that has begun keeps running on its own thread.
Proceed(r) == Refuse(r) \/ Transition(r) \/ Edit(r) \/ Assign(r)

Next ==
    \/ Tick
    \/ Create
    \/ \E r \in Requests : (\E i \in Items : Load(r, i)) \/ Proceed(r)

Spec == Init /\ [][Next]_vars

Fairness == \A r \in Requests : WF_vars(Proceed(r))
FairSpec == Spec /\ Fairness

-----------------------------------------------------------------------------
(* Safety *)

\* INV-7: the cached state and displacer of a row are those of its latest
\* event by (occurred_at, id), although events are dated in the past and two
\* requests on one item overlap (docs/08-domain-model.md, INV-7).
StateMirrorsHistory ==
    \A i \in recorded : /\ events[i] # <<>>
                        /\ Latest(i).to = state[i]
                        /\ Latest(i).displacer = displacer[i]

\* INV-8, INV-9: the events of an item form one legal walk through the
\* lifecycle from its creation on, each starting where the previous one ended
\* and none dated before an earlier one, whatever overlapped and however late
\* it was typed.
Legal(log) ==
    /\ log[1].from = None /\ log[1].to = "NEW"
    /\ \A k \in 1 .. Len(log) - 1 : /\ log[k + 1].from = log[k].to
                                    /\ log[k + 1].to \in ALLOWED[log[k].to]
    /\ \A j, k \in DOMAIN log : j <= k => log[j].at <= log[k].at

HistoryIsLegal == \A i \in recorded : Legal(events[i])

\* The ownership rows of an item tile time: each closed when and only when the
\* next begins, the last one open.
Tiles(spells) ==
    \A k \in DOMAIN spells :
        IF k = Len(spells)
        THEN spells[k].to = None
        ELSE /\ spells[k].to = spells[k + 1].from
             /\ spells[k].from <= spells[k].to

OwnershipTiles == \A i \in recorded : Tiles(owners[i])

\* The rows whose period a moment falls into.
Covering(spells, at) ==
    {k \in DOMAIN spells : /\ spells[k].from <= at
                           /\ spells[k].to # None => at < spells[k].to}

\* INV-1, D-012: "who held this when it stalled?" has exactly one answer, for
\* every moment since the first assignment, however many reassignments
\* overlapped and whatever they were dated.
OneWasAccountable ==
    \A i \in recorded : owners[i] # <<>> =>
        \A at \in Time : owners[i][1].from <= at => \E k \in DOMAIN owners[i] : Covering(owners[i], at) = {k}

\* INV-6 as coded: work that was ever started has somebody accountable now,
\* and a finished item always has an owner (the reporting module relies on
\* it), although ownership is not part of the row the version protects.
StartedWorkIsOwned ==
    \A i \in recorded : state[i] \in WorkedOn => CurrentOwner(i) # None

\* How many of the first k rows of an audit trail tell of a change of state.
StateChanges(trail, k) == Cardinality({j \in 1 .. k : trail[j].field = "state"})

\* ADR-003: the trigger's audit trail and the application's history, written
\* by different code, tell the same story of an item's states: change by
\* change in the same order, and nothing more in the one than in the other.
AuditAgreesWithHistory ==
    \A i \in recorded :
        /\ Len(events[i]) = StateChanges(audit[i], Len(audit[i])) + 1
        /\ \A k \in DOMAIN audit[i] : audit[i][k].field = "state" =>
              LET e == events[i][StateChanges(audit[i], k) + 1] IN
              audit[i][k].old = e.from /\ audit[i][k].new = e.to

\* An item is on hold exactly while it names another, recorded item as the
\* reason (INV-3), so a resumed item never still claims to be displaced.
HoldNamesItsCause ==
    \A i \in recorded :
        IF state[i] = "ON_HOLD_PREEMPTED"
        THEN displacer[i] \in recorded \ {i}
        ELSE displacer[i] = None

\* INV-4: following displaced_by from any item comes to an end: no set of
\* items is closed under it.
NoDisplacementLoop ==
    \A S \in SUBSET recorded : S # {} => \E i \in S : displacer[i] \notin S

\* Where INV-4 can be kept: no two requests are on the way to put an item on
\* hold at the same time.  Nothing in the code sees to it (NoDisplacementLoop
\* fails without it), but one user at a time is the normal case.
Holding(r) == req[r].phase \in {"walking", "ready"} /\ req[r].to = "ON_HOLD_PREEMPTED"
HoldsTakeTurns == \A r, s \in Requests : Holding(r) /\ Holding(s) => r = s

\* What a walk has found out, before it ends and until its hold is committed:
\* the items it has passed, the displacer of the hold first, lead to each
\* other, to where the walk is, or to an end, and not to the item.
Walked(r) == req[r].seen \ {req[r].item}

WalkHolds(r) ==
    /\ req[r].item \in req[r].seen
    /\ req[r].phase = "ready" => req[r].cursor = None
    /\ req[r].displacer \in Walked(r) \cup {req[r].cursor}
    /\ \A c \in Walked(r) : displacer[c] \in Walked(r) \cup {req[r].cursor, None}

WalkInv == \A r \in Requests : Holding(r) => WalkHolds(r)

\* The other half of _would_cycle: a walk that finds a loop was right to, and
\* has come back to its own item along the displacers.  The loop's test also
\* stops at any other item it has seen, and refuses an honest hold there.
OnlyRealLoopsAreRefused ==
    \A r \in Requests :
        req[r].phase = "walking" /\ LoopFound(r) => req[r].cursor = req[r].item

\* Who displaced whom when a walk began, as far as it is still of use to it:
\* a table without loops, from which rows have only been cleared since, and
\* along which each item walked led to the next one.
LeadsOut(chain) ==
    \A S \in SUBSET Items : S # {} => \E i \in S : chain[i] \notin S

ChainHolds(r, chain) ==
    /\ LeadsOut(chain)
    /\ \A c \in Items : displacer[c] \in {chain[c], None}
    /\ \A c \in Walked(r) : chain[c] \in Walked(r) \cup {req[r].cursor}

WalkedChain(r) == \E chain \in [Items -> OrNone(Items)] : ChainHolds(r, chain)

ChainInv ==
    \A r \in Requests : req[r].phase = "walking" =>
        req[r].item \in req[r].seen /\ WalkedChain(r)

\* What is not recorded displaces nothing, and nothing displaces it.
UnrecordedIsFree == \A i \in Items \ recorded : displacer[i] = None

\* What a request in flight knows.  A request whose version still matches
\* still holds the row as it is, the event it is about to append is a legal
\* and later one, and the participant row it is about to close is the open
\* one unless somebody was given the item meanwhile.  This is what lets the
\* checks made before other requests committed be acted on after.
TransitionHolds(r) ==
    LET i == req[r].item IN
    /\ req[r].to \in ALLOWED[req[r].state]
    /\ req[r].at <= now
    /\ req[r].version = version[i] => events[i][Len(events[i])].at <= req[r].at
    /\ IF req[r].to = "ON_HOLD_PREEMPTED" THEN req[r].displacer \in Items \ {i}
                                          ELSE req[r].displacer = None
    /\ req[r].to = "IN_PROGRESS" => owners[i] # <<>>

AssignmentHolds(r) ==
    LET i == req[r].item IN
    /\ req[r].person # None
    /\ req[r].at <= now
    /\ req[r].row \in 0 .. Len(owners[i])
    /\ req[r].row # 0 => owners[i][req[r].row].person # req[r].person

RequestHolds(r) ==
    LET i == req[r].item IN
    /\ i \in recorded
    /\ req[r].state # None
    /\ req[r].version <= version[i]
    /\ req[r].version = version[i] =>
          req[r].state = state[i] /\ req[r].details = details[i]
    /\ req[r].phase = "walking" =>
          req[r].cursor # None /\ req[r].to = "ON_HOLD_PREEMPTED"
    /\ req[r].phase \in {"walking", "ready"} => TransitionHolds(r)
    /\ req[r].phase = "assigning" => AssignmentHolds(r)

RequestInv == \A r \in Requests : req[r].phase # "idle" => RequestHolds(r)

\* INV-6 as docs/08-domain-model.md states it: an item that has left NEW has
\* an owner.  The code asks for one only on the way to IN_PROGRESS.
LeavesNewOwned ==
    \A i \in recorded : state[i] # "NEW" => CurrentOwner(i) # None

\* What db.py says of a request that fails: it leaves nothing behind.
RefusedCreationKeepsNothing == recorded \subseteq acked

\* INV-12: work may be dated in the past, never in the future; nor before the
\* item's creation, its first event (Legal).
NothingIsAhead == \A i \in recorded : events[i][Len(events[i])].at <= now

\* The inductive invariant: what no step can break when all of it holds.
IInv == /\ TypeOK
        /\ RequestInv
        /\ StateMirrorsHistory
        /\ HistoryIsLegal
        /\ OwnershipTiles
        /\ StartedWorkIsOwned
        /\ HoldNamesItsCause

-----------------------------------------------------------------------------
(* The promise this implements *)

WH == INSTANCE WorkHistory WITH history <- events, spells <- owners

\* Overlapping requests have the effect of the abstract operations, one at a
\* time: each commit is one legal step of one item's history or ownership.
ImplementsHistory == WH!Spec

-----------------------------------------------------------------------------
(* Actions and liveness *)

\* _would_cycle always ends: every turn of a walk leaves fewer items that it
\* has not seen, so no chain, not even a loop, keeps it longer than there are
\* items.
Unseen(r) == Cardinality(Items \ req[r].seen)

WalksRunOut ==
    [][\A r \in Requests :
          /\ req[r].phase = "walking" /\ req'[r].phase = "walking"
          /\ req'[r] # req[r]
          => Unseen(r)' < Unseen(r)]_vars

\* INV-9: a request that loaded an item while it was open cannot reopen it or
\* add to its history once another request has closed it.
ClosedIsFinal ==
    [][\A i \in recorded : state[i] \in TERMINAL =>
          events'[i] = events[i] /\ state'[i] = state[i]]_vars

\* D-013: a write replaces exactly the fields its request had read, so an
\* overlapping request's change is never silently overwritten.
NoLostUpdate ==
    [][\A r \in Requests, i \in Items :
          /\ req[r].item = i
          /\ req'[r] # req[r]
          /\ version'[i] # version[i]
          => req[r].state = state[i] /\ req[r].details = details[i]]_vars

\* Every request that has loaded an item is answered; in particular the walk
\* along the displacers ends, even over a loop that is already in the table.
RequestsAreAnswered ==
    \A r \in Requests : req[r].phase # "idle" ~> req[r].phase = "idle"

==============================================================================
