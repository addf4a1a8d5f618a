--------------------------- MODULE WorkItemsProofs ---------------------------
(***************************************************************************)
(* Proofs about WorkItems, for any number of items, people and requests    *)
(* and any bounds: the inductive invariant and what follows from it, the   *)
(* audit trail, displacement, and the refinement of WorkHistory.           *)
(***************************************************************************)
EXTENDS WorkItems, SumTheorems, FiniteSetTheorems, TLAPS

-----------------------------------------------------------------------------
(* Types *)

\* The lifecycle never leads out of the states it is about.
LEMMA AllowedType == \A s \in State : ALLOWED[s] \subseteq State
  BY DEF ALLOWED, State

\* An item is worked on only by being started or from a state of work.
LEMMA WorkIsStartedFirst ==
  \A s \in State : \A t \in ALLOWED[s] :
     t \in WorkedOn /\ t # "IN_PROGRESS" => s \in WorkedOn
  BY DEF ALLOWED, State, WorkedOn

\* A slot with no request in it is well typed.
LEMMA IdleIsRequest == Idle \in Request
  BY BoundAssumption DEF Idle, Request, Phase, OrNone, Time

\* The reads return what their callers take them for.
LEMMA OpenRowType ==
  ASSUME NEW spells \in Seq(Spell)
  PROVE  OpenRow(spells) \in Nat /\ (OpenRow(spells) # 0 => OpenRow(spells) \in DOMAIN spells)
  <1>1. CASE \E k \in DOMAIN spells : spells[k].to = None
    <2>1. OpenRow(spells) \in DOMAIN spells
      BY <1>1 DEF OpenRow
    <2>2. DOMAIN spells \subseteq Nat
      OBVIOUS
    <2> QED BY <2>1, <2>2
  <1>2. CASE ~ \E k \in DOMAIN spells : spells[k].to = None
    BY <1>2 DEF OpenRow
  <1> QED BY <1>1, <1>2

\* The rows an assignment writes are ownership rows.
LEMMA ReassignedType ==
  ASSUME TypeOK, NEW r \in Requests, req[r].phase = "assigning",
         req[r].item \in Items, req[r].person \in People
  PROVE  Reassigned(r) \in Seq(Spell)
  <1> DEFINE spells == owners[req[r].item]
             closed == [k \in DOMAIN spells |->
                          IF k = req[r].row THEN [spells[k] EXCEPT !.to = req[r].at]
                                            ELSE spells[k]]
             new == [person |-> req[r].person, from |-> req[r].at, to |-> None]
  <1>1. spells \in Seq(Spell) /\ req[r] \in Request
    BY DEF TypeOK
  <1>2. req[r].at \in Time
    BY <1>1 DEF Request
  <1>3. new \in Spell
    BY <1>2 DEF Spell, OrNone
  <1>4. \A k \in DOMAIN spells : closed[k] \in Spell
    <2> SUFFICES ASSUME NEW k \in DOMAIN spells PROVE closed[k] \in Spell
      OBVIOUS
    <2>1. spells[k] \in Spell
      BY <1>1
    <2> QED BY <2>1, <1>2 DEF Spell, OrNone
  <1>5. closed \in Seq(Spell)
    <2>1. DOMAIN spells = 1 .. Len(spells) /\ Len(spells) \in Nat
      BY <1>1
    <2> HIDE DEF spells
    <2> QED BY <1>4, <2>1
  <1>6. Append(closed, new) \in Seq(Spell)
    <2> HIDE DEF closed, new
    <2> QED BY <1>5, <1>3
  <1> QED BY <1>6 DEF Reassigned

\* An assignment adds one row and changes of the others only when they ended.
LEMMA ReassignedShape ==
  ASSUME NEW r, owners[req[r].item] \in Seq(Spell)
  PROVE  /\ Len(Reassigned(r)) = Len(owners[req[r].item]) + 1
         /\ \A k \in DOMAIN owners[req[r].item] :
               Reassigned(r)[k] = IF k = req[r].row
                                  THEN [owners[req[r].item][k] EXCEPT !.to = req[r].at]
                                  ELSE owners[req[r].item][k]
         /\ \A k \in DOMAIN owners[req[r].item] :
               Reassigned(r)[k].person = owners[req[r].item][k].person
         /\ Reassigned(r)[Len(Reassigned(r))] =
               [person |-> req[r].person, from |-> req[r].at, to |-> None]
  <1> DEFINE spells == owners[req[r].item]
             closed == [k \in DOMAIN spells |->
                          IF k = req[r].row THEN [spells[k] EXCEPT !.to = req[r].at]
                                            ELSE spells[k]]
             new == [person |-> req[r].person, from |-> req[r].at, to |-> None]
             n == Len(spells)
  <1>1. DOMAIN spells = 1 .. n /\ n \in Nat /\ \A k \in 1 .. n : spells[k] \in Spell
    OBVIOUS
  <1>2. Reassigned(r) = Append(closed, new)
    BY DEF Reassigned
  <1>3. DOMAIN closed = 1 .. n
    BY <1>1
  <1> DEFINE S == {closed[k] : k \in 1 .. n}
  <1>4. closed \in Seq(S) /\ Len(closed) = n
    <2>1. \A k \in 1 .. n : closed[k] \in S
      OBVIOUS
    <2>2. closed \in [1 .. n -> S]
      <3> HIDE DEF S, n
      <3> QED BY <1>1, <2>1
    <2> HIDE DEF S, closed, n
    <2> QED BY <1>1, <2>2
  <1>5. /\ Len(Append(closed, new)) = n + 1
        /\ \A k \in 1 .. n : Append(closed, new)[k] = closed[k]
        /\ Append(closed, new)[n + 1] = new
    <2> HIDE DEF S, closed, new, n
    <2> QED BY <1>1, <1>4
  <1>6. \A k \in 1 .. n : closed[k].person = spells[k].person
    BY <1>1 DEF Spell
  <1>7. \A k \in 1 .. n : closed[k] = IF k = req[r].row
                                     THEN [spells[k] EXCEPT !.to = req[r].at]
                                     ELSE spells[k]
    BY <1>1
  <1>8. Len(Reassigned(r)) = n + 1 /\ Reassigned(r)[n + 1] = new
        /\ \A k \in 1 .. n : Reassigned(r)[k] = closed[k]
    BY <1>2, <1>5
  <1> HIDE DEF closed, new, n
  <1>9. \A k \in 1 .. n : Reassigned(r)[k].person = spells[k].person
    BY <1>6, <1>8
  <1>10. \A k \in 1 .. n : Reassigned(r)[k] = IF k = req[r].row
                                     THEN [spells[k] EXCEPT !.to = req[r].at]
                                     ELSE spells[k]
    BY <1>7, <1>8
  <1> QED BY <1>1, <1>8, <1>9, <1>10 DEF new, n

\* A dated log's latest row by (occurred_at, id) is the one inserted last.
LEMMA LatestIsLast ==
  ASSUME NEW log \in Seq(Event), log # <<>>, Legal(log)
  PROVE  LatestIndex(log) = Len(log)
  <1> DEFINE n == Len(log)
             Wins(k) == \A j \in DOMAIN log :
                log[j].at < log[k].at \/ (log[j].at = log[k].at /\ j <= k)
  <1>1. n \in DOMAIN log /\ DOMAIN log = 1 .. n /\ n \in Nat
    OBVIOUS
  <1>2. \A k \in DOMAIN log : log[k].at \in Nat
    <2> SUFFICES ASSUME NEW k \in DOMAIN log PROVE log[k].at \in Nat
      OBVIOUS
    <2>1. log[k] \in Event
      BY <1>1
    <2> QED BY <2>1, BoundAssumption DEF Event, Time
  <1>3. Wins(n)
    <2>1. \A j \in DOMAIN log : log[j].at <= log[n].at /\ j <= n
      BY <1>1 DEF Legal
    <2> QED BY <1>1, <1>2, <2>1
  <1>4. \A k \in DOMAIN log : Wins(k) => k = n
    <2> SUFFICES ASSUME NEW k \in DOMAIN log, Wins(k) PROVE k = n
      OBVIOUS
    <2>1. log[n].at < log[k].at \/ (log[n].at = log[k].at /\ n <= k)
      BY <1>1
    <2>2. log[k].at <= log[n].at
      BY <1>1 DEF Legal
    <2> QED BY <2>1, <2>2, <1>1, <1>2
  <1>5. LatestIndex(log) = CHOOSE k \in DOMAIN log : Wins(k)
    BY DEF LatestIndex
  <1> HIDE DEF Wins
  <1>6. (CHOOSE k \in DOMAIN log : Wins(k)) \in DOMAIN log
        /\ Wins(CHOOSE k \in DOMAIN log : Wins(k))
    BY <1>1, <1>3
  <1> QED BY <1>4, <1>5, <1>6

\* A new item's tables start empty.
LEMMA EmptySeq == <<>> \in Seq(Spell)
  OBVIOUS

-----------------------------------------------------------------------------
(* Initially *)

\* An empty register satisfies the invariant.
LEMMA InitIInv == Init => IInv
  <1> SUFFICES ASSUME Init PROVE IInv
    OBVIOUS
  <1>1. TypeOK
    BY IdleIsRequest, BoundAssumption DEF Init, TypeOK, Time, OrNone, State
  <1>2. RequestInv
    BY DEF Init, RequestInv, Idle
  <1>3. StateMirrorsHistory /\ HistoryIsLegal /\ OwnershipTiles
        /\ StartedWorkIsOwned /\ HoldNamesItsCause
    BY DEF Init, StateMirrorsHistory, HistoryIsLegal, OwnershipTiles,
           StartedWorkIsOwned, HoldNamesItsCause
  <1> QED BY <1>1, <1>2, <1>3 DEF IInv

-----------------------------------------------------------------------------
(* Types are kept *)

\* Every request keeps the types of the rows and of its own memory.
LEMMA TypeStep == IInv /\ [Next]_vars => TypeOK'
  <1> SUFFICES ASSUME TypeOK, RequestInv, [Next]_vars PROVE TypeOK'
    BY DEF IInv
  <1> USE DEF TypeOK
  <1>0. Idle \in Request
    BY IdleIsRequest
  <1>1. CASE Tick
    BY <1>1, BoundAssumption DEF Tick, rows, Time
  <1>2. ASSUME NEW i \in Items, NEW d \in Details, NEW at \in Time,
               NEW s \in Seq(Spell), InsertItem(i, d, at, s),
               acked' \in {acked, acked \cup {i}}
        PROVE  TypeOK'
    <2>1. <<[from |-> None, to |-> "NEW", at |-> at, displacer |-> None]>>
             \in Seq(Event)
      BY DEF Event, OrNone, State
    <2> QED BY <2>1, <1>2 DEF InsertItem, InsertRow, OrNone, State
  <1>3. ASSUME NEW r \in Requests, NEW i \in Items, Load(r, i)
        PROVE  TypeOK'
    <2>1. [Idle EXCEPT !.phase = "loaded", !.item = i, !.version = version[i],
                       !.state = state[i], !.details = details[i]] \in Request
      BY <1>0 DEF Request, Phase, OrNone, Idle
    <2> QED BY <2>1, <1>3 DEF Load, rows
  <1>4. ASSUME NEW r \in Requests, Finish(r), UNCHANGED <<now, rows>>
        PROVE  TypeOK'
    BY <1>4, <1>0 DEF Finish, rows
  <1>5. ASSUME NEW r \in Requests, NEW to \in State, NEW at \in Time,
               NEW d \in OrNone(Items), CheckTransition(r, to, at, d)
        PROVE  TypeOK'
    <2>1. req[r] \in Request /\ req[r].item \in Items
      BY <1>5 DEF CheckTransition, RequestInv, RequestHolds
    <2>2. req'[r] \in Request
      BY <2>1, <1>5 DEF CheckTransition, Request, Phase, OrNone, NewDisplacer
    <2> QED BY <2>2, <1>5 DEF CheckTransition, rows
  <1>6. ASSUME NEW r \in Requests, WalkOn(r)
        PROVE  TypeOK'
    <2>1. req[r] \in Request /\ req[r].cursor \in Items
      BY <1>6 DEF WalkOn, RequestInv, RequestHolds, Request, OrNone
    <2>2. req'[r] \in Request
      BY <2>1, <1>6 DEF WalkOn, SeenAfter, Request, Phase, OrNone
    <2> QED BY <2>2, <1>6 DEF WalkOn, rows
  <1>7. ASSUME NEW r \in Requests, CommitTransition(r)
        PROVE  TypeOK'
    <2> DEFINE i == req[r].item
               e == [from |-> req[r].state, to |-> req[r].to, at |-> req[r].at,
                     displacer |-> req[r].displacer]
               c == [field |-> "state", old |-> state[i], new |-> req[r].to]
    <2>1. req[r] \in Request /\ i \in recorded /\ i \in Items
      BY <1>7 DEF CommitTransition, RequestInv, RequestHolds
    <2>2. req[r].to \in State
      <3>1. TransitionHolds(r) /\ req[r].state \in State
        BY <1>7, <2>1 DEF CommitTransition, RequestInv, RequestHolds, Request, OrNone
      <3> QED BY <3>1, AllowedType DEF TransitionHolds
    <2>3. e \in Event
      BY <2>1, <2>2 DEF Event, Request
    <2>4. c \in Change
      BY <2>1, <2>2 DEF Change
    <2>5. Append(events[i], e) \in Seq(Event) /\ Append(audit[i], c) \in Seq(Change)
      <3> HIDE DEF e, c, i
      <3> QED BY <2>1, <2>3, <2>4
    <2>6. NextVersion(version[i]) \in Nat /\ req[r].displacer \in OrNone(Items)
      BY <2>1 DEF NextVersion, Request
    <2> QED BY <1>0, <2>1, <2>2, <2>5, <2>6, <1>7 DEF CommitTransition, Finish
  <1>8. ASSUME NEW r \in Requests, NEW d \in Details, CommitEdit(r, d)
        PROVE  TypeOK'
    <2> DEFINE i == req[r].item
               c == [field |-> "details", old |-> details[i], new |-> d]
    <2>1. req[r] \in Request /\ i \in recorded /\ i \in Items
      BY <1>8 DEF CommitEdit, RequestInv, RequestHolds
    <2>2. details[i] \in Details
      BY <1>8, <2>1
    <2>4. c \in Change
      BY <2>1, <2>2 DEF Change
    <2>5. Append(audit[i], c) \in Seq(Change)
      <3> HIDE DEF c, i
      <3> QED BY <2>1, <2>4
    <2>6. NextVersion(version[i]) \in Nat
      BY <2>1 DEF NextVersion
    <2> QED BY <1>0, <2>1, <2>5, <2>6, <1>8 DEF CommitEdit, Finish, OrNone
  <1>9. ASSUME NEW r \in Requests, NEW actor \in People, NEW p \in People,
               NEW at \in Time, ReadOwner(r, actor, p, at)
        PROVE  TypeOK'
    <2>1. req[r] \in Request /\ req[r].item \in Items
      BY <1>9 DEF ReadOwner, RequestInv, RequestHolds
    <2>2. OpenRow(owners[req[r].item]) \in Nat
      BY <2>1, OpenRowType
    <2>3. req'[r] \in Request
      BY <2>1, <2>2, <1>9 DEF ReadOwner, Request, Phase, OrNone
    <2> QED BY <2>3, <1>9 DEF ReadOwner, rows
  <1>10. ASSUME NEW r \in Requests, CommitAssign(r)
         PROVE  TypeOK'
    <2>1. req[r] \in Request /\ req[r].item \in recorded /\ req[r].item \in Items
          /\ req[r].person \in People
      BY <1>10 DEF CommitAssign, RequestInv, RequestHolds, AssignmentHolds, Request, OrNone
    <2>2. Reassigned(r) \in Seq(Spell)
      BY <2>1, <1>10, ReassignedType DEF CommitAssign
    <2> QED BY <1>0, <2>1, <2>2, <1>10 DEF CommitAssign, Finish
  <1>11. CASE UNCHANGED vars
    BY <1>11 DEF vars
  <1>12. ASSUME NEW i \in Items, NEW d \in Details, NEW at \in Time,
                CreateUnowned(i, d, at)
         PROVE  TypeOK'
    BY <1>2, <1>12, EmptySeq DEF CreateUnowned
  <1>13. ASSUME NEW i \in Items, NEW d \in Details, NEW at \in Time,
                NEW actor \in People, NEW p \in People,
                CreateOwned(i, d, at, actor, p) \/ CreateRefusedOwner(i, d, at, actor, p)
         PROVE  TypeOK'
    <2>1. <<[person |-> p, from |-> at, to |-> None]>> \in Seq(Spell)
      BY DEF Spell, OrNone
    <2>2. CASE CreateOwned(i, d, at, actor, p)
      BY <2>1, <2>2, <1>2 DEF CreateOwned
    <2>3. CASE CreateRefusedOwner(i, d, at, actor, p)
      BY <2>3, <1>2, EmptySeq DEF CreateRefusedOwner
    <2> QED BY <2>2, <2>3, <1>13
  <1>14. ASSUME NEW r \in Requests, Transition(r) PROVE TypeOK'
    BY <1>4, <1>5, <1>6, <1>7, <1>14 DEF Transition, WalkLoops, AbortTransition
  <1>15. ASSUME NEW r \in Requests, Edit(r) PROVE TypeOK'
    BY <1>4, <1>8, <1>15 DEF Edit, AbortEdit
  <1>16. ASSUME NEW r \in Requests, Assign(r) PROVE TypeOK'
    BY <1>4, <1>9, <1>10, <1>16 DEF Assign, AbortAssign
  <1>17. ASSUME NEW r \in Requests, Refuse(r) PROVE TypeOK'
    BY <1>4, <1>17 DEF Refuse
  <1>18. CASE Create
    BY <1>12, <1>13, <1>18 DEF Create
  <1> QED BY <1>1, <1>3, <1>11, <1>14, <1>15, <1>16, <1>17, <1>18 DEF Next, Proceed

-----------------------------------------------------------------------------
(* Rows only move on *)

\* What another request may rely on: a row's version never goes back, the row
\* and its history stand still while the version does, and ownership rows
\* keep their person.
MovesOn(i) ==
    /\ version[i] <= version'[i]
    /\ version'[i] = version[i] => /\ state'[i] = state[i]
                                   /\ details'[i] = details[i]
                                   /\ events'[i] = events[i]
    /\ Len(owners[i]) <= Len(owners'[i])
    /\ \A k \in DOMAIN owners[i] : owners'[i][k].person = owners[i][k].person

\* Under any step a row's version only grows, rows and ownership rows are
\* never deleted, and a row whose version stays is a row that did not change.
LEMMA RowsMoveOn ==
  ASSUME TypeOK, RequestInv, [Next]_vars
  PROVE  now <= now' /\ recorded \subseteq recorded' /\ \A i \in recorded : MovesOn(i)
  <1> DEFINE Goal == now <= now' /\ recorded \subseteq recorded'
                     /\ \A i \in recorded : MovesOn(i)
  <1>0. now \in Nat /\ recorded \subseteq Items
        /\ \A i \in Items : version[i] \in Nat /\ owners[i] \in Seq(Spell)
    BY BoundAssumption DEF TypeOK, Time
  <1>1. CASE UNCHANGED rows /\ now' \in {now, now + 1}
    BY <1>0, <1>1 DEF rows, MovesOn
  <1>2. ASSUME NEW i \in Items, NEW d \in Details, NEW at \in Time,
               NEW s, InsertItem(i, d, at, s)
        PROVE  Goal
    <2>1. \A j \in recorded : j # i
      BY <1>2 DEF InsertItem, InsertRow
    <2>2. \A j \in recorded : /\ version'[j] = version[j] /\ state'[j] = state[j]
                              /\ details'[j] = details[j] /\ events'[j] = events[j]
                              /\ owners'[j] = owners[j]
      BY <1>2, <2>1, <1>0 DEF InsertItem, InsertRow, TypeOK
    <2> QED BY <1>0, <1>2, <2>2 DEF InsertItem, InsertRow, MovesOn
  <1>3. ASSUME NEW r \in Requests, CommitTransition(r)
        PROVE  Goal
    <2>1. version' = [version EXCEPT ![req[r].item] = @ + 1]
      BY <1>3 DEF CommitTransition, NextVersion
    <2>2. \A j \in recorded : /\ version'[j] = IF j = req[r].item THEN version[j] + 1 ELSE version[j]
                              /\ j # req[r].item => state'[j] = state[j] /\ events'[j] = events[j]
      BY <2>1, <1>3, <1>0 DEF CommitTransition, TypeOK
    <2> QED BY <1>0, <1>3, <2>2 DEF CommitTransition, MovesOn
  <1>4. ASSUME NEW r \in Requests, NEW d \in Details, CommitEdit(r, d)
        PROVE  Goal
    <2>1. version' = [version EXCEPT ![req[r].item] = @ + 1]
      BY <1>4 DEF CommitEdit, NextVersion
    <2>2. \A j \in recorded : /\ version'[j] = IF j = req[r].item THEN version[j] + 1 ELSE version[j]
                              /\ j # req[r].item => details'[j] = details[j]
      BY <2>1, <1>4, <1>0 DEF CommitEdit, TypeOK
    <2> QED BY <1>0, <1>4, <2>2 DEF CommitEdit, MovesOn
  <1>5. ASSUME NEW r \in Requests, CommitAssign(r)
        PROVE  Goal
    <2> DEFINE i == req[r].item
    <2>1. i \in Items /\ owners[i] \in Seq(Spell)
      BY <1>5, <1>0 DEF CommitAssign, RequestInv, RequestHolds
    <2>2. Len(Reassigned(r)) = Len(owners[i]) + 1
          /\ \A k \in DOMAIN owners[i] : Reassigned(r)[k].person = owners[i][k].person
      BY <2>1, ReassignedShape
    <2>3. \A j \in recorded : owners'[j] = IF j = i THEN Reassigned(r) ELSE owners[j]
      BY <1>5, <1>0 DEF CommitAssign, TypeOK
    <2> QED BY <1>0, <1>5, <2>1, <2>2, <2>3 DEF CommitAssign, MovesOn
  <1>6. CASE Create
    BY <1>2, <1>6 DEF Create, CreateUnowned, CreateOwned, CreateRefusedOwner
  <1>7. ASSUME NEW r \in Requests, Proceed(r) PROVE Goal
    BY <1>1, <1>3, <1>4, <1>5, <1>7
       DEF Proceed, Refuse, Transition, Edit, Assign, CheckTransition, WalkOn,
           WalkLoops, AbortTransition, AbortEdit, ReadOwner, AbortAssign
  <1> QED BY <1>1, <1>6, <1>7 DEF Next, Tick, Load, vars, rows

-----------------------------------------------------------------------------
(* What a request knows stays true *)

\* A request that takes no step keeps what it knows, whatever the others do.
LEMMA OthersKeepHolding ==
  ASSUME TypeOK, RequestInv, TypeOK', [Next]_vars,
         NEW q \in Requests, req'[q] = req[q], req[q].phase # "idle"
  PROVE  RequestHolds(q)'
  <1> DEFINE i == req[q].item
  <1>1. /\ req[q] \in Request /\ RequestHolds(q) /\ i \in recorded /\ i \in Items
        /\ i \in recorded' /\ MovesOn(i) /\ now <= now'
    BY RowsMoveOn DEF TypeOK, RequestInv, RequestHolds
  <1>2. /\ version[i] \in Nat /\ version'[i] \in Nat /\ req[q].version \in Nat
        /\ owners[i] \in Seq(Spell) /\ owners'[i] \in Seq(Spell)
        /\ now \in Nat /\ now' \in Nat /\ req[q].at \in Nat
    BY <1>1, BoundAssumption DEF TypeOK, Request, Time
  <1>3. req[q].version = version'[i] =>
           /\ version'[i] = version[i] /\ state'[i] = state[i]
           /\ details'[i] = details[i] /\ events'[i] = events[i]
    BY <1>1, <1>2 DEF RequestHolds, MovesOn
  <1>4. Len(owners[i]) <= Len(owners'[i])
        /\ \A k \in 1 .. Len(owners[i]) : owners'[i][k].person = owners[i][k].person
    BY <1>1, <1>2 DEF MovesOn
  <1>5. TransitionHolds(q) => TransitionHolds(q)'
    <2> SUFFICES ASSUME TransitionHolds(q) PROVE TransitionHolds(q)'
      OBVIOUS
    <2>1. owners[i] # <<>> => owners'[i] # <<>>
      BY <1>2, <1>4
    <2>2. req[q].at <= now'
      BY <1>1, <1>2 DEF TransitionHolds
    <2> QED BY <1>3, <2>1, <2>2 DEF TransitionHolds
  <1>6. AssignmentHolds(q) => AssignmentHolds(q)'
    <2> SUFFICES ASSUME AssignmentHolds(q) PROVE AssignmentHolds(q)'
      OBVIOUS
    <2>1. req[q].at <= now'
      BY <1>1, <1>2 DEF AssignmentHolds
    <2>2. req[q].row \in 0 .. Len(owners'[i])
      BY <1>2, <1>4 DEF AssignmentHolds
    <2>3. req[q].row # 0 => owners'[i][req[q].row].person # req[q].person
      <3> SUFFICES ASSUME req[q].row # 0
                   PROVE  owners'[i][req[q].row].person # req[q].person
        OBVIOUS
      <3>1. req[q].row \in 1 .. Len(owners[i])
        BY <1>2 DEF AssignmentHolds
      <3>2. owners'[i][req[q].row].person = owners[i][req[q].row].person
        BY <1>4, <3>1
      <3>3. owners[i][req[q].row].person # req[q].person
        BY DEF AssignmentHolds
      <3> QED BY <3>2, <3>3
    <2> QED BY <2>1, <2>2, <2>3 DEF AssignmentHolds
  <1>7. req[q].version <= version'[i]
    BY <1>1, <1>2 DEF RequestHolds, MovesOn
  <1> QED BY <1>1, <1>3, <1>5, <1>6, <1>7 DEF RequestHolds

\* What a request knows stays true while the others commit.
LEMMA RequestStep == IInv /\ [Next]_vars => RequestInv'
  <1> SUFFICES ASSUME IInv, [Next]_vars,
                      NEW q \in Requests, req'[q].phase # "idle"
               PROVE  RequestHolds(q)'
    BY DEF RequestInv
  <1>0. TypeOK /\ RequestInv /\ TypeOK'
    BY TypeStep DEF IInv
  <1>1. CASE req'[q] = req[q]
    BY <1>0, <1>1, OthersKeepHolding
  <1>2. ASSUME NEW r \in Requests, NEW x, req' = [req EXCEPT ![r] = x], r # q
        PROVE  req'[q] = req[q]
    BY <1>0, <1>2 DEF TypeOK
  <1>3. ASSUME NEW r \in Requests, Finish(r)
        PROVE  req'[q] = req[q]
    BY <1>0, <1>3 DEF TypeOK, Finish, Idle
  <1>4. ASSUME NEW i \in Items, Load(q, i)
        PROVE  RequestHolds(q)'
    <2>1. req'[q] = [Idle EXCEPT !.phase = "loaded", !.item = i, !.version = version[i],
                                 !.state = state[i], !.details = details[i]]
      BY <1>0, <1>4 DEF Load, TypeOK
    <2>2. /\ req'[q].phase = "loaded" /\ req'[q].item = i
          /\ req'[q].version = version[i] /\ req'[q].state = state[i]
          /\ req'[q].details = details[i]
      BY <2>1 DEF Idle
    <2>3. /\ i \in recorded /\ UNCHANGED <<recorded, state, version, details>>
          /\ state[i] # None /\ version[i] \in Nat
      BY <1>0, <1>4, NoneAssumption DEF Load, rows, TypeOK
    <2> QED BY <2>2, <2>3 DEF RequestHolds
  <1>5. ASSUME NEW to \in State, NEW at \in Time, NEW d \in OrNone(Items),
               CheckTransition(q, to, at, d)
        PROVE  RequestHolds(q)'
    <2> DEFINE i == req[q].item
    <2>1. RequestHolds(q) /\ req[q] \in Request /\ i \in Items /\ UNCHANGED <<now, rows>>
      BY <1>0, <1>5 DEF CheckTransition, RequestInv, RequestHolds, TypeOK
    <2>2. /\ req'[q].phase = IF to = "ON_HOLD_PREEMPTED" THEN "walking" ELSE "ready"
          /\ req'[q].item = i /\ req'[q].version = req[q].version
          /\ req'[q].state = req[q].state /\ req'[q].details = req[q].details
          /\ req'[q].to = to /\ req'[q].at = at
          /\ req'[q].displacer = NewDisplacer(to, d)
          /\ req'[q].cursor = IF to = "ON_HOLD_PREEMPTED" THEN d ELSE None
      BY <1>0, <1>5, <2>1 DEF CheckTransition, TypeOK, Request
    <2>3. TransitionAllowed(q, to, at, d)
      BY <1>5 DEF CheckTransition
    <2>4. req[q].version = version[i] => events[i][Len(events[i])].at <= at
      <3>1. events[i] \in Seq(Event) /\ events[i] # <<>> /\ Legal(events[i])
        BY <1>0, <2>1 DEF TypeOK, IInv, StateMirrorsHistory, HistoryIsLegal, RequestHolds
      <3>2. LatestIndex(events[i]) = Len(events[i])
        BY <3>1, LatestIsLast
      <3> QED BY <2>3, <3>2 DEF TransitionAllowed, Latest
    <2>5. to = "IN_PROGRESS" => owners[i] # <<>>
      <3>1. owners[i] \in Seq(Spell)
        BY <1>0, <2>1 DEF TypeOK
      <3>2. CurrentOwner(i) # None => owners[i] # <<>>
        BY <3>1, OpenRowType DEF CurrentOwner
      <3> QED BY <2>3, <3>2 DEF TransitionAllowed
    <2>6. TransitionHolds(q)'
      BY <2>1, <2>2, <2>3, <2>4, <2>5 DEF TransitionHolds, TransitionAllowed,
         NewDisplacer, rows, OrNone
    <2>7. req'[q].phase = "walking" => req'[q].cursor # None
      BY <2>2, <2>3 DEF TransitionAllowed
    <2> QED BY <2>1, <2>2, <2>6, <2>7 DEF RequestHolds, rows
  <1>6. ASSUME WalkOn(q)
        PROVE  RequestHolds(q)'
    <2>1. RequestHolds(q) /\ req[q] \in Request /\ UNCHANGED <<now, rows>>
          /\ req[q].phase = "walking"
      BY <1>0, <1>6 DEF WalkOn, RequestInv, TypeOK
    <2>2. /\ req'[q].phase = IF displacer[req[q].cursor] = None THEN "ready" ELSE "walking"
          /\ req'[q].item = req[q].item /\ req'[q].version = req[q].version
          /\ req'[q].state = req[q].state /\ req'[q].details = req[q].details
          /\ req'[q].to = req[q].to /\ req'[q].at = req[q].at
          /\ req'[q].displacer = req[q].displacer
          /\ req'[q].cursor = displacer[req[q].cursor]
      BY <1>0, <1>6, <2>1 DEF WalkOn, TypeOK, Request
    <2>3. TransitionHolds(q)'
      BY <2>1, <2>2 DEF TransitionHolds, RequestHolds, rows
    <2> QED BY <2>1, <2>2, <2>3 DEF RequestHolds, rows
  <1>7. ASSUME NEW actor \in People, NEW p \in People, NEW at \in Time,
               ReadOwner(q, actor, p, at)
        PROVE  RequestHolds(q)'
    <2> DEFINE i == req[q].item
    <2>1. RequestHolds(q) /\ req[q] \in Request /\ i \in Items /\ UNCHANGED <<now, rows>>
      BY <1>0, <1>7 DEF ReadOwner, RequestInv, RequestHolds, TypeOK
    <2>2. /\ req'[q].phase = "assigning"
          /\ req'[q].item = i /\ req'[q].version = req[q].version
          /\ req'[q].state = req[q].state /\ req'[q].details = req[q].details
          /\ req'[q].person = p /\ req'[q].at = at
          /\ req'[q].row = OpenRow(owners[i])
      BY <1>0, <1>7, <2>1 DEF ReadOwner, TypeOK, Request
    <2>3. owners[i] \in Seq(Spell)
      BY <1>0, <2>1 DEF TypeOK
    <2>4. OpenRow(owners[i]) \in 0 .. Len(owners[i])
      BY <2>3, OpenRowType
    <2>5. OpenRow(owners[i]) # 0 => owners[i][OpenRow(owners[i])].person # p
      BY <1>7 DEF ReadOwner, CurrentOwner
    <2>6. AssignmentHolds(q)'
      BY <1>7, <2>1, <2>2, <2>4, <2>5, NoneAssumption
         DEF AssignmentHolds, ReadOwner, rows
    <2> QED BY <2>1, <2>2, <2>6 DEF RequestHolds, rows
  <1>8. CASE UNCHANGED req
    BY <1>1, <1>8
  <1>9. ASSUME NEW r \in Requests, Proceed(r)
        PROVE  RequestHolds(q)'
    <2>1. CASE r = q
      BY <1>1, <1>3, <1>5, <1>6, <1>7, <1>9, <2>1
         DEF Proceed, Refuse, Transition, Edit, Assign, WalkLoops, CommitTransition,
             AbortTransition, CommitEdit, AbortEdit, CommitAssign, AbortAssign
    <2>2. CASE r # q
      <3>1. \E x : req' = [req EXCEPT ![r] = x]
        BY <1>9 DEF Proceed, Refuse, Transition, Edit, Assign, WalkLoops, CommitTransition,
             AbortTransition, CommitEdit, AbortEdit, CommitAssign, AbortAssign,
             CheckTransition, WalkOn, ReadOwner, Finish
      <3> QED BY <1>1, <1>2, <2>2, <3>1
    <2> QED BY <2>1, <2>2
  <1>10. ASSUME NEW r \in Requests, NEW i \in Items, Load(r, i)
         PROVE  RequestHolds(q)'
    <2>1. CASE r = q
      BY <1>4, <1>10, <2>1
    <2>2. CASE r # q
      BY <1>1, <1>2, <1>10, <2>2 DEF Load
    <2> QED BY <2>1, <2>2
  <1> QED
    BY <1>8, <1>9, <1>10 DEF Next, Tick, Create, CreateUnowned, CreateOwned,
       CreateRefusedOwner, InsertItem, InsertRow, vars

-----------------------------------------------------------------------------
(* Histories *)

\* A later event that starts where the log ends keeps the log legal.
LEMMA AppendKeepsLegal ==
  ASSUME NEW log \in Seq(Event), log # <<>>, Legal(log), NEW e \in Event,
         e.from = log[Len(log)].to, e.to \in ALLOWED[log[Len(log)].to],
         log[Len(log)].at <= e.at
  PROVE  Legal(Append(log, e))
  <1> DEFINE n == Len(log)
             longer == Append(log, e)
  <1>1. /\ n \in Nat /\ n >= 1 /\ DOMAIN log = 1 .. n
        /\ longer \in Seq(Event) /\ Len(longer) = n + 1 /\ DOMAIN longer = 1 .. n + 1
        /\ longer[n + 1] = e /\ \A k \in 1 .. n : longer[k] = log[k]
    OBVIOUS
  <1>2. e.at \in Nat /\ \A k \in 1 .. n : log[k].at \in Nat
    <2>1. \A k \in 1 .. n : log[k] \in Event
      BY <1>1
    <2> QED BY <2>1, BoundAssumption DEF Event, Time
  <1> HIDE DEF longer, n
  <1>3. ASSUME NEW k \in 1 .. Len(longer) - 1
        PROVE  longer[k + 1].from = longer[k].to /\ longer[k + 1].to \in ALLOWED[longer[k].to]
    <2>1. CASE k = n
      BY <1>1, <2>1 DEF n
    <2>2. CASE k # n
      <3>1. k \in 1 .. n - 1 /\ k \in 1 .. n /\ k + 1 \in 1 .. n
        BY <1>1, <2>2
      <3> QED BY <1>1, <3>1 DEF Legal, n
    <2> QED BY <2>1, <2>2
  <1>4. ASSUME NEW j \in DOMAIN longer, NEW k \in DOMAIN longer, j <= k
        PROVE  longer[j].at <= longer[k].at
    <2>1. CASE k \in 1 .. n
      <3>1. j \in 1 .. n
        BY <1>1, <1>4, <2>1
      <3> QED BY <1>1, <1>4, <2>1, <3>1 DEF Legal, n
    <2>2. CASE k = n + 1 /\ j \in 1 .. n
      <3>1. log[j].at <= log[n].at
        BY <1>1, <2>2 DEF Legal
      <3> QED BY <1>1, <1>2, <2>2, <3>1 DEF n
    <2>3. CASE k = n + 1 /\ j = n + 1
      BY <1>1, <1>2, <2>3
    <2> QED BY <1>1, <2>1, <2>2, <2>3
  <1>5. longer[1].from = None /\ longer[1].to = "NEW"
    BY <1>1 DEF Legal
  <1> QED BY <1>3, <1>4, <1>5 DEF Legal, longer

\* The only ways a step can touch the history or the row of an item.
LEMMA HistoryEffects ==
  ASSUME TypeOK, RequestInv, [Next]_vars, NEW j \in recorded'
  PROVE  \/ /\ j \in recorded
            /\ state'[j] = state[j] /\ displacer'[j] = displacer[j]
            /\ events'[j] = events[j]
         \/ /\ j \in Items \ recorded /\ state'[j] = "NEW" /\ displacer'[j] = None
            /\ \E at \in Time : at <= now /\ events'[j] =
                 <<[from |-> None, to |-> "NEW", at |-> at, displacer |-> None]>>
         \/ \E r \in Requests : CommitTransition(r) /\ req[r].item = j
  <1> DEFINE Same == /\ j \in recorded
                     /\ state'[j] = state[j] /\ displacer'[j] = displacer[j]
                     /\ events'[j] = events[j]
             Born == /\ j \in Items \ recorded /\ state'[j] = "NEW" /\ displacer'[j] = None
                     /\ \E at \in Time : at <= now /\ events'[j] =
                          <<[from |-> None, to |-> "NEW", at |-> at, displacer |-> None]>>
             Moved == \E r \in Requests : CommitTransition(r) /\ req[r].item = j
  <1>1. CASE UNCHANGED <<recorded, state, displacer, events>>
    BY <1>1
  <1>2. ASSUME NEW i \in Items, NEW d \in Details, NEW at \in Time, NEW s,
               InsertItem(i, d, at, s)
        PROVE  Same \/ Born
    BY <1>2 DEF InsertItem, InsertRow, TypeOK
  <1>3. ASSUME NEW r \in Requests, CommitTransition(r)
        PROVE  Same \/ Moved
    BY <1>3 DEF CommitTransition, TypeOK
  <1>4. CASE Create
    BY <1>2, <1>4 DEF Create, CreateUnowned, CreateOwned, CreateRefusedOwner
  <1>5. ASSUME NEW r \in Requests, Proceed(r)
        PROVE  Same \/ Moved
    BY <1>1, <1>3, <1>5
       DEF Proceed, Refuse, Transition, Edit, Assign, CheckTransition, WalkOn,
           WalkLoops, AbortTransition, CommitEdit, AbortEdit, ReadOwner,
           CommitAssign, AbortAssign, rows
  <1> QED BY <1>1, <1>4, <1>5 DEF Next, Tick, Load, vars, rows

\* What a committed transition leaves behind.
LEMMA TransitionEffect ==
  ASSUME IInv, NEW r \in Requests, CommitTransition(r)
  PROVE  LET i == req[r].item
             e == [from |-> req[r].state, to |-> req[r].to, at |-> req[r].at,
                   displacer |-> req[r].displacer]
         IN  /\ i \in recorded /\ i \in Items /\ recorded' = recorded
             /\ e \in Event /\ events[i] \in Seq(Event) /\ events[i] # <<>>
             /\ events'[i] = Append(events[i], e)
             /\ e.from = events[i][Len(events[i])].to
             /\ e.from = state[i]
             /\ e.to \in ALLOWED[e.from]
             /\ events[i][Len(events[i])].at <= e.at
             /\ e.at <= now
             /\ state'[i] = e.to /\ displacer'[i] = e.displacer
             /\ owners'[i] = owners[i]
             /\ e.to = "IN_PROGRESS" => owners[i] # <<>>
             /\ IF e.to = "ON_HOLD_PREEMPTED" THEN e.displacer \in recorded \ {i}
                                              ELSE e.displacer = None
  <1> DEFINE i == req[r].item
             e == [from |-> req[r].state, to |-> req[r].to, at |-> req[r].at,
                   displacer |-> req[r].displacer]
  <1>1. /\ req[r] \in Request /\ RequestHolds(r) /\ i \in recorded /\ i \in Items
        /\ TransitionHolds(r) /\ req[r].version = version[i] /\ DisplacerExists(r)
    BY DEF CommitTransition, IInv, TypeOK, RequestInv, RequestHolds, VersionMatches
  <1>2. /\ req[r].state = state[i] /\ events[i][Len(events[i])].at <= req[r].at
        /\ req[r].to \in ALLOWED[req[r].state] /\ req[r].at <= now
        /\ req[r].to = "IN_PROGRESS" => owners[i] # <<>>
    BY <1>1 DEF RequestHolds, TransitionHolds
  <1>3. /\ events[i] \in Seq(Event) /\ events[i] # <<>>
        /\ events[i][Len(events[i])].to = state[i]
    <2>1. events[i] \in Seq(Event) /\ events[i] # <<>> /\ Legal(events[i])
          /\ Latest(i).to = state[i]
      BY <1>1 DEF IInv, TypeOK, StateMirrorsHistory, HistoryIsLegal
    <2>2. LatestIndex(events[i]) = Len(events[i])
      BY <2>1, LatestIsLast
    <2> QED BY <2>1, <2>2 DEF Latest
  <1>4. e \in Event
    <2>1. req[r].to \in State
      BY <1>1, <1>2, AllowedType DEF IInv, TypeOK
    <2> QED BY <1>1, <2>1 DEF Event, Request
  <1>5. /\ recorded' = recorded /\ events'[i] = Append(events[i], e)
        /\ state'[i] = req[r].to /\ displacer'[i] = req[r].displacer
        /\ owners'[i] = owners[i]
    BY <1>1 DEF CommitTransition, IInv, TypeOK
  <1>6. IF req[r].to = "ON_HOLD_PREEMPTED" THEN req[r].displacer \in recorded \ {i}
                                           ELSE req[r].displacer = None
    BY <1>1, NoneAssumption DEF TransitionHolds, DisplacerExists, OrNone
  <1> QED BY <1>1, <1>2, <1>3, <1>4, <1>5, <1>6

\* A commit that passed the version check keeps the history legal, and the
\* cached columns those of its latest event.
LEMMA HistoryStep ==
  IInv /\ [Next]_vars => (StateMirrorsHistory /\ HistoryIsLegal /\ HoldNamesItsCause)'
  <1> SUFFICES ASSUME IInv, [Next]_vars, NEW j \in recorded'
               PROVE  /\ events'[j] # <<>> /\ Latest(j)'.to = state'[j]
                      /\ Latest(j)'.displacer = displacer'[j]
                      /\ Legal(events'[j])
                      /\ IF state'[j] = "ON_HOLD_PREEMPTED"
                         THEN displacer'[j] \in recorded' \ {j}
                         ELSE displacer'[j] = None
    BY DEF StateMirrorsHistory, HistoryIsLegal, HoldNamesItsCause
  <1>0. TypeOK /\ RequestInv /\ TypeOK' /\ recorded \subseteq recorded'
    BY TypeStep, RowsMoveOn DEF IInv
  <1>1. CASE /\ j \in recorded
             /\ state'[j] = state[j] /\ displacer'[j] = displacer[j]
             /\ events'[j] = events[j]
    BY <1>0, <1>1 DEF IInv, StateMirrorsHistory, HistoryIsLegal, HoldNamesItsCause, Latest
  <1>2. CASE /\ j \in Items \ recorded /\ state'[j] = "NEW" /\ displacer'[j] = None
             /\ \E at \in Time : at <= now /\ events'[j] =
                  <<[from |-> None, to |-> "NEW", at |-> at, displacer |-> None]>>
    <2>1. PICK at \in Time : events'[j] =
                  <<[from |-> None, to |-> "NEW", at |-> at, displacer |-> None]>>
      BY <1>2
    <2>2. events'[j] \in Seq(Event) /\ events'[j] # <<>> /\ Len(events'[j]) = 1
          /\ events'[j][1].from = None /\ events'[j][1].to = "NEW" /\ events'[j][1].displacer = None
          /\ events'[j][1].at \in Nat
      <3>1. events'[j] \in Seq(Event)
        BY <1>0, <1>2 DEF TypeOK
      <3>2. at \in Nat
        BY BoundAssumption DEF Time
      <3> QED BY <2>1, <3>1, <3>2
    <2>3. Legal(events'[j])
      BY <2>2 DEF Legal
    <2>4. LatestIndex(events'[j]) = 1
      BY <2>2, <2>3, LatestIsLast
    <2> QED BY <1>2, <2>2, <2>3, <2>4 DEF Latest
  <1>3. CASE \E r \in Requests : CommitTransition(r) /\ req[r].item = j
    <2>1. PICK r \in Requests : CommitTransition(r) /\ req[r].item = j
      BY <1>3
    <2> DEFINE e == [from |-> req[r].state, to |-> req[r].to, at |-> req[r].at,
                     displacer |-> req[r].displacer]
    <2>2. /\ j \in recorded /\ recorded' = recorded
          /\ e \in Event /\ events[j] \in Seq(Event) /\ events[j] # <<>>
          /\ events'[j] = Append(events[j], e)
          /\ e.from = events[j][Len(events[j])].to
          /\ e.to \in ALLOWED[e.from]
          /\ events[j][Len(events[j])].at <= e.at
          /\ state'[j] = e.to /\ displacer'[j] = e.displacer
          /\ IF e.to = "ON_HOLD_PREEMPTED" THEN e.displacer \in recorded \ {j}
                                           ELSE e.displacer = None
      BY <2>1, TransitionEffect
    <2> HIDE DEF e
    <2>3. Legal(events'[j])
      BY <2>2, AppendKeepsLegal DEF IInv, HistoryIsLegal
    <2>4. events'[j] \in Seq(Event) /\ events'[j] # <<>>
          /\ events'[j][Len(events'[j])] = e
      BY <2>2
    <2>5. LatestIndex(events'[j]) = Len(events'[j])
      BY <2>3, <2>4, LatestIsLast
    <2> QED BY <2>2, <2>3, <2>4, <2>5 DEF Latest
  <1> QED BY <1>0, <1>1, <1>2, <1>3, HistoryEffects

-----------------------------------------------------------------------------
(* Ownership *)

\* Ownership rows that tile time have exactly their last row open.
LEMMA TilesOpenRow ==
  ASSUME NEW spells \in Seq(Spell), Tiles(spells)
  PROVE  /\ spells = <<>> => OpenRow(spells) = 0
         /\ spells # <<>> => OpenRow(spells) = Len(spells)
         /\ \A k \in DOMAIN spells : spells[k].to = None => k = Len(spells)
  <1> DEFINE n == Len(spells)
  <1>1. n \in Nat /\ DOMAIN spells = 1 .. n /\ \A k \in 1 .. n : spells[k] \in Spell
    OBVIOUS
  <1>2. ASSUME NEW k \in 1 .. n, spells[k].to = None
        PROVE  k = n
    <2> SUFFICES ASSUME k # n PROVE FALSE
      OBVIOUS
    <2>0. k + 1 \in 1 .. n
      <3>1. n \in Nat /\ k \in 1 .. n /\ k # n
        BY <1>1, <1>2
      <3> HIDE DEF n
      <3> QED BY <3>1
    <2>1. spells[k].to = spells[k + 1].from
      BY <1>1, <1>2 DEF Tiles
    <2>2. spells[k + 1].from \in Nat
      <3>1. spells[k + 1] \in Spell
        BY <1>1, <2>0
      <3> QED BY <3>1, BoundAssumption DEF Spell, Time
    <2> QED BY <1>2, <2>1, <2>2, NoneAssumption
  <1>3. spells # <<>> => n \in 1 .. n /\ spells[n].to = None
    BY <1>1 DEF Tiles
  <1>4. spells = <<>> => OpenRow(spells) = 0
    BY DEF OpenRow
  <1>5. ASSUME spells # <<>> PROVE OpenRow(spells) = n
    <2>1. \E k \in DOMAIN spells : spells[k].to = None
      BY <1>1, <1>3, <1>5
    <2>2. OpenRow(spells) \in DOMAIN spells /\ spells[OpenRow(spells)].to = None
      <3> DEFINE P(k) == k \in DOMAIN spells /\ spells[k].to = None
      <3>1. OpenRow(spells) = CHOOSE k \in DOMAIN spells : spells[k].to = None
        BY <2>1 DEF OpenRow
      <3> QED BY <2>1, <3>1
    <2> QED BY <1>1, <1>2, <2>2
  <1> QED BY <1>1, <1>2, <1>4, <1>5

\* If the constraints accept an assignment, the row it closed was the open one
\* and the rows tile time again.
LEMMA AcceptedAssignmentTiles ==
  ASSUME NEW r, owners[req[r].item] \in Seq(Spell), Tiles(owners[req[r].item]),
         req[r].at \in Nat, req[r].row \in 0 .. Len(owners[req[r].item]),
         OwnerRowsAccepted(Reassigned(r)), Reassigned(r) \in Seq(Spell)
  PROVE  /\ req[r].row = Len(owners[req[r].item])
         /\ Tiles(Reassigned(r))
  <1> DEFINE spells == owners[req[r].item]
             after == Reassigned(r)
             n == Len(spells)
  <1>1. /\ n \in Nat /\ DOMAIN spells = 1 .. n /\ Len(after) = n + 1
        /\ DOMAIN after = 1 .. n + 1
        /\ \A k \in 1 .. n : after[k] = IF k = req[r].row
                                       THEN [spells[k] EXCEPT !.to = req[r].at]
                                       ELSE spells[k]
        /\ after[n + 1] = [person |-> req[r].person, from |-> req[r].at, to |-> None]
    <2>1. n \in Nat /\ DOMAIN spells = 1 .. n
      OBVIOUS
    <2>2. /\ Len(after) = n + 1
          /\ \A k \in DOMAIN spells : after[k] = IF k = req[r].row
                                       THEN [spells[k] EXCEPT !.to = req[r].at]
                                       ELSE spells[k]
          /\ after[Len(after)] = [person |-> req[r].person, from |-> req[r].at, to |-> None]
      BY ReassignedShape
    <2>3. DOMAIN after = 1 .. Len(after)
      OBVIOUS
    <2> HIDE DEF spells, after, n
    <2> QED BY <2>1, <2>2, <2>3
  <1>2. \A k \in 1 .. n : spells[k] \in Spell
    BY <1>1
  <1>3. \A k \in 1 .. n : after[k].from = spells[k].from
    BY <1>1, <1>2 DEF Spell
  <1>4. \A k \in 1 .. n : after[k].to = IF k = req[r].row THEN req[r].at ELSE spells[k].to
    BY <1>1, <1>2 DEF Spell
  <1>5. after[n + 1].from = req[r].at /\ after[n + 1].to = None
    BY <1>1
  <1>6. OneCurrentOwner(after) /\ PeriodsOrdered(after)
    BY DEF OwnerRowsAccepted
  <1>7. \A k \in 1 .. n : spells[k].from \in Nat /\ spells[k].to \in Nat \cup {None}
    <2> SUFFICES ASSUME NEW k \in 1 .. n
                 PROVE  spells[k].from \in Nat /\ spells[k].to \in Nat \cup {None}
      OBVIOUS
    <2>1. spells[k] \in Spell
      BY <1>2
    <2> HIDE DEF spells, n
    <2> QED BY <2>1, BoundAssumption DEF Spell, Time, OrNone
  <1>0. req[r].row \in 0 .. n
    OBVIOUS
  <1> HIDE DEF spells, after, n
  <1>8. req[r].row = n
    <2> SUFFICES ASSUME req[r].row # n PROVE FALSE
      OBVIOUS
    <2>1. n \in 1 .. n /\ n \in 1 .. n + 1 /\ n + 1 \in 1 .. n + 1
      BY <1>0, <1>1
    <2>2. spells[n].to = None
      BY <1>1, <2>1 DEF Tiles, n, spells
    <2>3. after[n].to = None
      BY <1>4, <2>1, <2>2
    <2> QED BY <1>1, <1>5, <1>6, <2>1, <2>3 DEF OneCurrentOwner
  <1>9. ASSUME NEW k \in 1 .. n + 1
        PROVE  IF k = n + 1 THEN after[k].to = None
               ELSE after[k].to = after[k + 1].from /\ after[k].from <= after[k].to
    <2>1. CASE k = n + 1
      BY <1>5, <2>1
    <2>2. CASE k = n
      <3>1. k \in 1 .. n /\ after[k].to = req[r].at
        BY <1>1, <1>4, <1>8, <2>2
      <3>2. after[k].from <= after[k].to
        BY <1>1, <1>6, <3>1, NoneAssumption DEF PeriodsOrdered
      <3> QED BY <1>1, <1>5, <2>2, <3>1, <3>2
    <2>3. CASE k \in 1 .. n - 1
      <3>1. k \in 1 .. n /\ k + 1 \in 1 .. n /\ k # n /\ k # n + 1
        BY <1>1, <2>3
      <3>2. spells[k].to = spells[k + 1].from /\ spells[k].from <= spells[k].to
        BY <1>1, <3>1 DEF Tiles, n, spells
      <3> QED BY <1>3, <1>4, <1>8, <3>1, <3>2
    <2> QED BY <1>1, <2>1, <2>2, <2>3
  <1> QED BY <1>1, <1>8, <1>9 DEF Tiles, n, spells, after

\* The only ways a step can touch the ownership rows of an item.
LEMMA OwnerEffects ==
  ASSUME TypeOK, RequestInv, [Next]_vars, NEW j \in recorded'
  PROVE  \/ j \in recorded /\ owners'[j] = owners[j]
         \/ /\ j \in Items \ recorded
            /\ \/ owners'[j] = <<>>
               \/ \E p \in People, at \in Time :
                     owners'[j] = <<[person |-> p, from |-> at, to |-> None]>>
         \/ \E r \in Requests : CommitAssign(r) /\ req[r].item = j
  <1> DEFINE Same == j \in recorded /\ owners'[j] = owners[j]
             Born == /\ j \in Items \ recorded
                     /\ \/ owners'[j] = <<>>
                        \/ \E p \in People, at \in Time :
                              owners'[j] = <<[person |-> p, from |-> at, to |-> None]>>
             Given == \E r \in Requests : CommitAssign(r) /\ req[r].item = j
  <1>1. CASE UNCHANGED <<recorded, owners>>
    BY <1>1
  <1>2. ASSUME NEW i \in Items, NEW d \in Details, NEW at \in Time, NEW s,
               InsertItem(i, d, at, s),
               \/ s = <<>>
               \/ \E p \in People : s = <<[person |-> p, from |-> at, to |-> None]>>
        PROVE  Same \/ Born
    <2>1. CASE j = i
      BY <1>2, <2>1 DEF InsertItem, InsertRow, TypeOK
    <2>2. CASE j # i
      BY <1>2, <2>2 DEF InsertItem, InsertRow, TypeOK
    <2> QED BY <2>1, <2>2
  <1>3. ASSUME NEW r \in Requests, CommitAssign(r)
        PROVE  Same \/ Given
    BY <1>3 DEF CommitAssign, TypeOK
  <1>4. CASE Create
    BY <1>2, <1>4 DEF Create, CreateUnowned, CreateOwned, CreateRefusedOwner
  <1>5. ASSUME NEW r \in Requests, Proceed(r)
        PROVE  Same \/ Given
    BY <1>1, <1>3, <1>5
       DEF Proceed, Refuse, Transition, Edit, Assign, CheckTransition, WalkOn,
           WalkLoops, CommitTransition, AbortTransition, CommitEdit, AbortEdit,
           ReadOwner, AbortAssign, rows
  <1> QED BY <1>1, <1>4, <1>5 DEF Next, Tick, Load, vars, rows

\* One open spell tiles all the time since it began.
LEMMA SingletonTiles ==
  ASSUME NEW spells, Len(spells) = 1, DOMAIN spells = {1}, spells[1].to = None
  PROVE  Tiles(spells)
  <1> SUFFICES ASSUME NEW k \in DOMAIN spells
               PROVE  k = Len(spells) /\ spells[k].to = None
    BY DEF Tiles
  <1> QED OBVIOUS

\* An assignment that the unique index and the CHECK accept keeps the spells
\* tiling, and no request takes its owner from work that was started.
LEMMA OwnersStep ==
  IInv /\ [Next]_vars => (OwnershipTiles /\ StartedWorkIsOwned)'
  <1> SUFFICES ASSUME IInv, [Next]_vars, NEW j \in recorded'
               PROVE  Tiles(owners'[j]) /\ (state'[j] \in WorkedOn => CurrentOwner(j)' # None)
    BY DEF OwnershipTiles, StartedWorkIsOwned
  <1>0. TypeOK /\ RequestInv /\ TypeOK' /\ j \in Items
    BY TypeStep DEF IInv, TypeOK
  <1>1. j \in recorded => owners[j] \in Seq(Spell) /\ Tiles(owners[j])
    BY <1>0 DEF IInv, TypeOK, OwnershipTiles
  <1>2. ASSUME NEW spells \in Seq(Spell), Tiles(spells), spells # <<>>
        PROVE  spells[OpenRow(spells)].person # None /\ OpenRow(spells) # 0
    <2>1. OpenRow(spells) = Len(spells) /\ Len(spells) \in DOMAIN spells /\ Len(spells) # 0
      BY <1>2, TilesOpenRow
    <2>2. spells[Len(spells)] \in Spell
      BY <1>2, <2>1
    <2> QED BY <2>1, <2>2, NoneAssumption DEF Spell
  <1>3. Tiles(owners'[j]) /\ (j \in recorded /\ owners[j] # <<>> => owners'[j] # <<>>)
    <2>1. CASE j \in recorded /\ owners'[j] = owners[j]
      BY <1>1, <2>1
    <2>2. CASE /\ j \in Items \ recorded
               /\ \/ owners'[j] = <<>>
                  \/ \E p \in People, at \in Time :
                        owners'[j] = <<[person |-> p, from |-> at, to |-> None]>>
      <3>1. CASE owners'[j] = <<>>
        BY <2>2, <3>1 DEF Tiles
      <3>2. CASE \E p \in People, at \in Time :
                    owners'[j] = <<[person |-> p, from |-> at, to |-> None]>>
        <4>1. Len(owners'[j]) = 1 /\ DOMAIN owners'[j] = {1} /\ owners'[j][1].to = None
          BY <3>2
        <4> DEFINE first == owners'[j]
        <4>2. Len(first) = 1 /\ DOMAIN first = {1} /\ first[1].to = None
          BY <4>1
        <4> HIDE DEF first
        <4>3. Tiles(first)
          BY <4>2, SingletonTiles
        <4> QED BY <2>2, <4>3 DEF first
      <3> QED BY <2>2, <3>1, <3>2
    <2>3. CASE \E r \in Requests : CommitAssign(r) /\ req[r].item = j
      <3>1. PICK r \in Requests : CommitAssign(r) /\ req[r].item = j
        BY <2>3
      <3>2. /\ req[r] \in Request /\ j \in recorded /\ AssignmentHolds(r)
            /\ req[r].phase = "assigning" /\ OwnerRowsAccepted(Reassigned(r))
            /\ owners'[j] = Reassigned(r)
        BY <1>0, <3>1 DEF CommitAssign, TypeOK, RequestInv, RequestHolds
      <3>3. req[r].at \in Nat /\ req[r].person \in People
        BY <3>2, BoundAssumption DEF Request, Time, AssignmentHolds, OrNone
      <3>3b. req[r].row \in 0 .. Len(owners[j])
        BY <3>1, <3>2 DEF AssignmentHolds
      <3>4. Reassigned(r) \in Seq(Spell)
        BY <1>0, <3>1, <3>2, <3>3, ReassignedType
      <3>5. Tiles(Reassigned(r))
        <4>1. /\ owners[req[r].item] \in Seq(Spell) /\ Tiles(owners[req[r].item])
              /\ req[r].row \in 0 .. Len(owners[req[r].item])
          BY <1>1, <3>1, <3>2, <3>3b
        <4> QED BY <3>2, <3>3, <3>4, <4>1, AcceptedAssignmentTiles
      <3>6. Reassigned(r) # <<>>
        <4>1. owners[req[r].item] \in Seq(Spell)
          BY <1>1, <3>1, <3>2
        <4>2. Len(Reassigned(r)) = Len(owners[req[r].item]) + 1
          BY <4>1, ReassignedShape, Zenon
        <4>3. Len(owners[req[r].item]) \in Nat
          BY <4>1
        <4> QED BY <3>4, <4>2, <4>3
      <3> QED BY <3>2, <3>5, <3>6
    <2> QED BY <1>0, <2>1, <2>2, <2>3, OwnerEffects
  <1>4. ASSUME j \in recorded, owners[j] # <<>>
        PROVE  CurrentOwner(j)' # None
    <2>1. owners'[j] \in Seq(Spell) /\ owners'[j] # <<>> /\ Tiles(owners'[j])
      BY <1>0, <1>3, <1>4 DEF TypeOK
    <2> QED BY <2>1, <1>2 DEF CurrentOwner
  <1>5. ASSUME j \in recorded, state[j] \in WorkedOn
        PROVE  owners[j] # <<>>
    <2>1. CurrentOwner(j) # None
      BY <1>5 DEF IInv, StartedWorkIsOwned
    <2> QED BY <1>1, <1>5, <2>1, TilesOpenRow DEF CurrentOwner
  <1>6. state'[j] \in WorkedOn => CurrentOwner(j)' # None
    <2>1. CASE j \in recorded /\ state'[j] = state[j]
      BY <1>4, <1>5, <2>1
    <2>2. CASE state'[j] = "NEW"
      BY <2>2 DEF WorkedOn
    <2>3. CASE \E r \in Requests : CommitTransition(r) /\ req[r].item = j
      <3>1. PICK r \in Requests : CommitTransition(r) /\ req[r].item = j
        BY <2>3
      <3>2. /\ j \in recorded /\ state'[j] = req[r].to /\ req[r].to \in ALLOWED[state[j]]
            /\ req[r].to = "IN_PROGRESS" => owners[j] # <<>>
        BY <3>1, TransitionEffect
      <3>3. state[j] \in State
        BY <1>0 DEF TypeOK
      <3>4. req[r].to \in WorkedOn /\ req[r].to # "IN_PROGRESS" => state[j] \in WorkedOn
        BY <3>2, <3>3, WorkIsStartedFirst
      <3> QED BY <1>4, <1>5, <3>2, <3>4
    <2> QED BY <1>0, <2>1, <2>2, <2>3, HistoryEffects
  <1> QED BY <1>3, <1>6

-----------------------------------------------------------------------------
(* Theorems *)

\* The inductive invariant holds in every reachable state.
THEOREM Inductive == Spec => []IInv
  <1>1. IInv /\ [Next]_vars => IInv'
    BY TypeStep, RequestStep, HistoryStep, OwnersStep DEF IInv
  <1> QED BY InitIInv, <1>1, PTL DEF Spec

\* Every variable keeps its type, whatever requests overlap.
THEOREM TypeCorrect == Spec => []TypeOK
  <1>1. IInv => TypeOK
    BY DEF IInv
  <1> QED BY <1>1, Inductive, PTL

\* INV-7 for any number of overlapping requests: the cached state of an item
\* and the reason it is on hold are those of its latest event.
THEOREM StateIsTrustworthy == Spec => []StateMirrorsHistory
  <1>1. IInv => StateMirrorsHistory
    BY DEF IInv
  <1> QED BY <1>1, Inductive, PTL

\* INV-8 and INV-9: every item's history is one legal walk, never dated back
\* behind itself.
THEOREM HistoriesAreLegal == Spec => []HistoryIsLegal
  <1>1. IInv => HistoryIsLegal
    BY DEF IInv
  <1> QED BY <1>1, Inductive, PTL

\* Periods that tile time begin one after the other.
LEMMA TilesInOrder ==
  ASSUME NEW spells \in Seq(Spell), Tiles(spells)
  PROVE  \A j, k \in DOMAIN spells : j <= k => spells[j].from <= spells[k].from
  <1> DEFINE n == Len(spells)
             G == {d \in Nat : \A j \in 1 .. n : j + d \in 1 .. n =>
                                    spells[j].from <= spells[j + d].from}
  <1>1. /\ n \in Nat /\ DOMAIN spells = 1 .. n
        /\ \A k \in 1 .. n : spells[k].from \in Int
        /\ \A k \in 1 .. n : k + 1 \in 1 .. n => spells[k].from <= spells[k + 1].from
    <2>0. \A k \in 1 .. n : spells[k] \in Spell
      OBVIOUS
    <2>1. \A k \in 1 .. n : spells[k].from \in Int
      BY <2>0, BoundAssumption DEF Spell, Time
    <2>2. ASSUME NEW k \in 1 .. n, k + 1 \in 1 .. n
          PROVE  spells[k].from <= spells[k + 1].from
      <3>1. k # n /\ k \in DOMAIN spells
        BY <2>2
      <3>2. spells[k].to = spells[k + 1].from /\ spells[k].from <= spells[k].to
        BY <3>1 DEF Tiles
      <3> QED BY <3>2
    <2> QED BY <2>1, <2>2
  <1> HIDE DEF n
  <1>2. 0 \in G
    BY <1>1
  <1>3. ASSUME NEW d \in Nat, d \in G
        PROVE  d + 1 \in G
    <2>1. ASSUME NEW j \in 1 .. n, j + (d + 1) \in 1 .. n
          PROVE  spells[j].from <= spells[j + (d + 1)].from
      <3>1. j + d \in 1 .. n /\ (j + d) + 1 = j + (d + 1)
        BY <1>1, <2>1
      <3>2. spells[j].from <= spells[j + d].from /\ spells[j + d].from <= spells[j + (d + 1)].from
        BY <1>1, <1>3, <2>1, <3>1
      <3> QED BY <1>1, <2>1, <3>1, <3>2
    <2> QED BY <2>1
  <1>4. Nat \subseteq G
    <2> HIDE DEF G
    <2> QED BY <1>2, <1>3, CountingUp
  <1>5. ASSUME NEW j \in 1 .. n, NEW k \in 1 .. n, j <= k
        PROVE  spells[j].from <= spells[k].from
    <2>1. k - j \in Nat /\ j + (k - j) = k
      BY <1>1, <1>5
    <2> QED BY <1>4, <1>5, <2>1
  <1> QED BY <1>1, <1>5

\* A moment since the first period falls into exactly one that tile time.
LEMMA TilesCoverOnce ==
  ASSUME NEW spells \in Seq(Spell), Tiles(spells), spells # <<>>,
         NEW at \in Int, spells[1].from <= at
  PROVE  \E k \in DOMAIN spells : Covering(spells, at) = {k}
  <1> DEFINE n == Len(spells)
             \* the last of the first d + 1 periods to have begun
             Found(d, k) == /\ k \in 1 .. d + 1 /\ spells[k].from <= at
                            /\ k # d + 1 => at < spells[k + 1].from
             G == {d \in Nat : d + 1 \in 1 .. n => \E k \in 1 .. n : Found(d, k)}
  <1>1. /\ n \in Nat /\ n >= 1 /\ DOMAIN spells = 1 .. n
        /\ \A k \in 1 .. n : spells[k].from \in Nat /\ spells[k].from # None
    <2>1. \A k \in 1 .. n : spells[k] \in Spell
      OBVIOUS
    <2>2. \A k \in 1 .. n : spells[k].from \in Nat
      BY <2>1, BoundAssumption DEF Spell, Time
    <2>3. n \in Nat /\ n >= 1 /\ DOMAIN spells = 1 .. n
      OBVIOUS
    <2> QED BY <2>2, <2>3, NoneAssumption
  <1>2. \A k \in 1 .. n : IF k = n THEN spells[k].to = None
                                   ELSE spells[k].to = spells[k + 1].from
    BY <1>1 DEF Tiles
  <1> HIDE DEF n
  <1>3. 0 \in G
    BY <1>1
  <1>4. ASSUME NEW d \in Nat, d \in G
        PROVE  d + 1 \in G
    <2> SUFFICES ASSUME (d + 1) + 1 \in 1 .. n
                 PROVE  \E k \in 1 .. n : Found(d + 1, k)
      OBVIOUS
    <2>1. PICK k \in 1 .. n : Found(d, k)
      BY <1>1, <1>4
    <2>2. CASE k = d + 1 /\ spells[(d + 1) + 1].from <= at
      <3>1. Found(d + 1, (d + 1) + 1)
        BY <2>2
      <3> QED BY <3>1
    <2>3. CASE ~ (k = d + 1 /\ spells[(d + 1) + 1].from <= at)
      <3>1. Found(d + 1, k)
        BY <1>1, <2>1, <2>3
      <3> QED BY <3>1
    <2> QED BY <2>2, <2>3
  <1>5. Nat \subseteq G
    <2> HIDE DEF G
    <2> QED BY <1>3, <1>4, CountingUp
  <1>6. PICK k \in 1 .. n : Found(n - 1, k)
    <2>1. n - 1 \in Nat /\ (n - 1) + 1 \in 1 .. n
      BY <1>1
    <2> QED BY <1>5, <2>1
  <1>7. k \in Covering(spells, at)
    BY <1>1, <1>2, <1>6 DEF Covering
  <1>8. ASSUME NEW j \in Covering(spells, at), NEW l \in Covering(spells, at), j < l
        PROVE  FALSE
    <2>1. j \in 1 .. n /\ l \in 1 .. n /\ spells[l].from <= at
      BY <1>1 DEF Covering
    <2>2. j # n /\ j + 1 \in 1 .. n /\ j + 1 <= l
      BY <1>1, <1>8, <2>1
    <2>3. at < spells[j + 1].from
      BY <1>1, <1>2, <2>1, <2>2 DEF Covering
    <2>4. spells[j + 1].from <= spells[l].from
      BY <1>1, <2>1, <2>2, TilesInOrder
    <2> QED BY <1>1, <2>1, <2>2, <2>3, <2>4
  <1>9. \A j \in Covering(spells, at) : j = k
    <2>1. Covering(spells, at) \subseteq Int
      BY <1>1 DEF Covering
    <2> QED BY <1>7, <1>8, <2>1
  <1> QED BY <1>1, <1>7, <1>9

\* INV-1: ownership rows tile time, so that at every moment since the first
\* assignment exactly one person was accountable (service.py assign).
THEOREM OneAccountablePerson == Spec => []OneWasAccountable
  <1>1. IInv => OneWasAccountable
    <2> SUFFICES ASSUME IInv, NEW i \in recorded, owners[i] # <<>>,
                        NEW at \in Time, owners[i][1].from <= at
                 PROVE  \E k \in DOMAIN owners[i] : Covering(owners[i], at) = {k}
      BY DEF OneWasAccountable
    <2>1. /\ owners[i] \in Seq(Spell) /\ Tiles(owners[i])
          /\ at \in Int
      BY BoundAssumption DEF IInv, TypeOK, OwnershipTiles, Time
    <2> QED BY <2>1, TilesCoverOnce
  <1> QED BY <1>1, Inductive, PTL

\* INV-6 as coded: work that was started is owned, although a transition and
\* an assignment write different rows and share no version.
THEOREM StartedWorkStaysOwned == Spec => []StartedWorkIsOwned
  <1>1. IInv => StartedWorkIsOwned
    BY DEF IInv
  <1> QED BY <1>1, Inductive, PTL

\* A request that read an item before others committed writes only what is
\* still true: its row, its event and its ownership row.
THEOREM RequestsStayInformed == Spec => []RequestInv
  <1>1. IInv => RequestInv
    BY DEF IInv
  <1> QED BY <1>1, Inductive, PTL

\* INV-3: an item on hold names a recorded item other than itself, and no
\* item that is not on hold names one.
THEOREM HoldsAreExplained == Spec => []HoldNamesItsCause
  <1>1. IInv => HoldNamesItsCause
    BY DEF IInv
  <1> QED BY <1>1, Inductive, PTL

\* INV-9: no request, however early it loaded the item, writes to the history
\* or the state of an item that is done or cancelled.
THEOREM ClosedStaysClosed == Spec => ClosedIsFinal
  <1>1. ASSUME IInv, [Next]_vars, NEW j \in recorded, state[j] \in TERMINAL
        PROVE  events'[j] = events[j] /\ state'[j] = state[j]
    <2>1. TypeOK /\ RequestInv /\ j \in recorded'
      BY <1>1, RowsMoveOn DEF IInv
    <2>2. ASSUME NEW r \in Requests, CommitTransition(r), req[r].item = j
          PROVE  FALSE
      <3>1. req[r].to \in ALLOWED[state[j]]
        BY <1>1, <2>2, TransitionEffect
      <3>2. ALLOWED[state[j]] = {}
        BY <1>1 DEF ALLOWED, TERMINAL
      <3> QED BY <3>1, <3>2
    <2> QED BY <1>1, <2>1, <2>2, HistoryEffects
  <1>2. IInv /\ [Next]_vars =>
          [\A i \in recorded : state[i] \in TERMINAL =>
             events'[i] = events[i] /\ state'[i] = state[i]]_vars
    BY <1>1
  <1> QED BY <1>2, Inductive, PTL DEF Spec, ClosedIsFinal

\* D-013: whatever a request writes to a row, it had read the row as it was
\* just before the write.
THEOREM NoUpdateIsLost == Spec => NoLostUpdate
  <1>1. ASSUME IInv, [Next]_vars, NEW r \in Requests, NEW i \in Items,
               req[r].item = i, req'[r] # req[r], version'[i] # version[i]
        PROVE  req[r].state = state[i] /\ req[r].details = details[i]
    <2>1. TypeOK /\ RequestInv
      BY <1>1 DEF IInv
    <2>2. req[r].phase # "idle" /\ VersionMatches(r) =>
            req[r].state = state[i] /\ req[r].details = details[i]
      BY <1>1, <2>1 DEF VersionMatches, RequestInv, RequestHolds
    <2>3. ASSUME NEW q \in Requests, CommitTransition(q) \/ \E d \in Details : CommitEdit(q, d)
          PROVE  req[r].phase # "idle" /\ VersionMatches(r)
      <3>1. q = r
        BY <1>1, <2>1, <2>3 DEF CommitTransition, CommitEdit, Finish, TypeOK
      <3> QED BY <2>3, <3>1 DEF CommitTransition, CommitEdit
    <2>4. ASSUME Create
          PROVE  FALSE
      BY <1>1, <2>4 DEF Create, CreateUnowned, CreateOwned, CreateRefusedOwner,
                        InsertItem
    <2>5. ASSUME NEW q \in Requests, Proceed(q)
          PROVE  CommitTransition(q) \/ \E d \in Details : CommitEdit(q, d)
      BY <1>1, <2>5
         DEF Proceed, Refuse, Transition, Edit, Assign, CheckTransition, WalkOn,
             WalkLoops, AbortTransition, AbortEdit, ReadOwner, CommitAssign,
             AbortAssign, rows
    <2> QED BY <1>1, <2>2, <2>3, <2>4, <2>5 DEF Next, Tick, Load, vars, rows
  <1>2. IInv /\ [Next]_vars =>
          [\A r \in Requests, i \in Items :
             /\ req[r].item = i
             /\ req'[r] # req[r]
             /\ version'[i] # version[i]
             => req[r].state = state[i] /\ req[r].details = details[i]]_vars
    BY <1>1
  <1> QED BY <1>2, Inductive, PTL DEF Spec, NoLostUpdate

-----------------------------------------------------------------------------
(* The audit trail *)

\* The first k rows of a trail are finitely many, and so are those of them
\* that tell of a change of state.
LEMMA StateChangesFinite ==
  ASSUME NEW trail, NEW k \in Nat
  PROVE  IsFiniteSet({j \in 1 .. k : trail[j].field = "state"})
  <1>1. IsFiniteSet(1 .. k)
    BY FS_Interval
  <1> QED BY <1>1, FS_Subset

\* So they can be counted.
LEMMA StateChangesType ==
  ASSUME NEW trail, NEW k \in Nat
  PROVE  StateChanges(trail, k) \in Nat
  BY StateChangesFinite, FS_CardinalityType DEF StateChanges

\* One row more is one change of state more if it tells of one.
LEMMA StateChangesNext ==
  ASSUME NEW trail, NEW k \in Nat
  PROVE  StateChanges(trail, k + 1) =
            StateChanges(trail, k) + IF trail[k + 1].field = "state" THEN 1 ELSE 0
  <1> DEFINE S == {j \in 1 .. k : trail[j].field = "state"}
             T == {j \in 1 .. k + 1 : trail[j].field = "state"}
  <1>1. IsFiniteSet(S) /\ Cardinality(S) \in Nat
    BY StateChangesFinite, StateChangesType DEF StateChanges
  <1>2. T = IF trail[k + 1].field = "state" THEN S \cup {k + 1} ELSE S
    OBVIOUS
  <1>3. k + 1 \notin S
    OBVIOUS
  <1> HIDE DEF S, T
  <1>4. Cardinality(T) = Cardinality(S) + IF trail[k + 1].field = "state" THEN 1 ELSE 0
    <2>1. Cardinality(S \cup {k + 1}) = Cardinality(S) + 1 /\ Cardinality(S) \in Nat
      BY <1>1, <1>3, FS_AddElement, FS_CardinalityType
    <2> QED BY <1>2, <2>1
  <1> QED BY <1>4 DEF StateChanges, S, T

\* A part of a trail tells of no more changes than the whole.
LEMMA StateChangesGrow ==
  ASSUME NEW trail, NEW k \in Nat, NEW n \in Nat, k <= n
  PROVE  StateChanges(trail, k) <= StateChanges(trail, n)
  <1> DEFINE S == {j \in 1 .. k : trail[j].field = "state"}
             T == {j \in 1 .. n : trail[j].field = "state"}
  <1>1. IsFiniteSet(T) /\ S \in SUBSET T
    BY StateChangesFinite
  <1> HIDE DEF S, T
  <1>2. Cardinality(S) <= Cardinality(T)
    BY <1>1, FS_Subset
  <1> QED BY <1>2 DEF StateChanges, S, T

\* The count depends on the rows counted only.
LEMMA StateChangesLocal ==
  ASSUME NEW trail, NEW other, NEW k \in Nat, \A j \in 1 .. k : trail[j] = other[j]
  PROVE  StateChanges(trail, k) = StateChanges(other, k)
  <1>1. {j \in 1 .. k : trail[j].field = "state"} = {j \in 1 .. k : other[j].field = "state"}
    OBVIOUS
  <1> QED BY <1>1 DEF StateChanges

\* What an audit trail says of an item, and that it says nothing of an item
\* that does not exist.
AuditMatches(trail, log) ==
    /\ Len(log) = StateChanges(trail, Len(trail)) + 1
    /\ \A k \in DOMAIN trail : trail[k].field = "state" =>
          LET e == log[StateChanges(trail, k) + 1] IN
          trail[k].old = e.from /\ trail[k].new = e.to

AuditInv == /\ \A i \in Items \ recorded : audit[i] = <<>>
            /\ AuditAgreesWithHistory

\* A change of state and its event, written together, agree.
LEMMA AuditOfTransition ==
  ASSUME NEW trail \in Seq(Change), NEW log \in Seq(Event), log # <<>>,
         AuditMatches(trail, log),
         NEW c \in Change, NEW e \in Event,
         c.field = "state", c.old = e.from, c.new = e.to
  PROVE  AuditMatches(Append(trail, c), Append(log, e))
  <1> DEFINE n == Len(trail)
             m == Len(log)
             after == Append(trail, c)
             longer == Append(log, e)
  <1>1. /\ n \in Nat /\ DOMAIN trail = 1 .. n
        /\ Len(after) = n + 1 /\ DOMAIN after = 1 .. n + 1
        /\ after[n + 1] = c /\ \A k \in 1 .. n : after[k] = trail[k]
    OBVIOUS
  <1>2. /\ m \in Nat
        /\ Len(longer) = m + 1 /\ longer[m + 1] = e
        /\ \A k \in 1 .. m : longer[k] = log[k]
    OBVIOUS
  <1> HIDE DEF n, m, after, longer
  <1>3. m = StateChanges(trail, n) + 1
    BY DEF AuditMatches, n, m
  <1>4. \A k \in 1 .. n : StateChanges(after, k) = StateChanges(trail, k)
    BY <1>1, StateChangesLocal
  <1>4b. StateChanges(after, n) = StateChanges(trail, n)
    BY <1>1, StateChangesLocal
  <1>5. StateChanges(after, n + 1) = m
    <2>1. StateChanges(after, n + 1) =
            StateChanges(after, n) + IF after[n + 1].field = "state" THEN 1 ELSE 0
      BY <1>1, StateChangesNext
    <2>2. StateChanges(trail, n) \in Nat
      BY <1>1, StateChangesType
    <2> QED BY <1>1, <1>3, <1>4b, <2>1, <2>2
  <1>6. ASSUME NEW k \in 1 .. n + 1, after[k].field = "state"
        PROVE  /\ after[k].old = longer[StateChanges(after, k) + 1].from
               /\ after[k].new = longer[StateChanges(after, k) + 1].to
    <2>1. CASE k = n + 1
      BY <1>1, <1>2, <1>5, <2>1
    <2>2. CASE k \in 1 .. n
      <3>1. StateChanges(trail, k) + 1 \in 1 .. m
        <4>1. StateChanges(trail, k) <= StateChanges(trail, n)
          BY <1>1, <2>2, StateChangesGrow
        <4>2. StateChanges(trail, k) \in Nat /\ StateChanges(trail, n) \in Nat
          BY <1>1, <2>2, StateChangesType
        <4> QED BY <1>2, <1>3, <4>1, <4>2
      <3>2. /\ trail[k].old = log[StateChanges(trail, k) + 1].from
            /\ trail[k].new = log[StateChanges(trail, k) + 1].to
        BY <1>1, <1>6, <2>2 DEF AuditMatches
      <3> QED BY <1>1, <1>2, <1>4, <2>2, <3>1, <3>2
    <2> QED BY <1>1, <2>1, <2>2
  <1> QED BY <1>1, <1>2, <1>5, <1>6 DEF AuditMatches, after, longer

\* An edit adds to the audit trail and to no history.
LEMMA AuditOfEdit ==
  ASSUME NEW trail \in Seq(Change), NEW log,
         AuditMatches(trail, log),
         NEW c \in Change, c.field # "state"
  PROVE  AuditMatches(Append(trail, c), log)
  <1> DEFINE n == Len(trail)
             after == Append(trail, c)
  <1>1. /\ n \in Nat /\ DOMAIN trail = 1 .. n
        /\ Len(after) = n + 1 /\ DOMAIN after = 1 .. n + 1
        /\ after[n + 1] = c /\ \A k \in 1 .. n : after[k] = trail[k]
    OBVIOUS
  <1> HIDE DEF n, after
  <1>2. \A k \in 1 .. n : StateChanges(after, k) = StateChanges(trail, k)
    BY <1>1, StateChangesLocal
  <1>3. StateChanges(after, n + 1) = StateChanges(trail, n)
    <2>1. StateChanges(after, n + 1) =
            StateChanges(after, n) + IF after[n + 1].field = "state" THEN 1 ELSE 0
      BY <1>1, StateChangesNext
    <2>2. StateChanges(after, n) = StateChanges(trail, n) /\ StateChanges(trail, n) \in Nat
      BY <1>1, StateChangesLocal, StateChangesType
    <2> QED BY <1>1, <2>1, <2>2
  <1>4. \A k \in 1 .. n + 1 : after[k].field = "state" => k \in 1 .. n
    BY <1>1
  <1>5. Len(log) = StateChanges(after, n + 1) + 1
    BY <1>3 DEF AuditMatches, n
  <1>6. ASSUME NEW k \in 1 .. n + 1, after[k].field = "state"
        PROVE  /\ after[k].old = log[StateChanges(after, k) + 1].from
               /\ after[k].new = log[StateChanges(after, k) + 1].to
    <2>1. k \in 1 .. n
      BY <1>4, <1>6
    <2>2. trail[k] = after[k] /\ StateChanges(after, k) = StateChanges(trail, k)
      BY <1>1, <1>2, <2>1
    <2> QED BY <1>1, <1>6, <2>1, <2>2 DEF AuditMatches
  <1> QED BY <1>1, <1>5, <1>6 DEF AuditMatches, after

\* The only ways a step can touch the audit trail of an item.
LEMMA AuditEffects ==
  ASSUME TypeOK, RequestInv, [Next]_vars, NEW j \in Items
  PROVE  \/ audit'[j] = audit[j] /\ events'[j] = events[j] /\ (j \in recorded' <=> j \in recorded)
         \/ /\ j \notin recorded /\ audit'[j] = audit[j]
            /\ \E e : events'[j] = <<e>>
         \/ \E r \in Requests : CommitTransition(r) /\ req[r].item = j
         \/ \E r \in Requests, d \in Details : CommitEdit(r, d) /\ req[r].item = j
  <1> DEFINE Same == audit'[j] = audit[j] /\ events'[j] = events[j] /\ (j \in recorded' <=> j \in recorded)
             Born == j \notin recorded /\ audit'[j] = audit[j] /\ \E e : events'[j] = <<e>>
             Moved == \E r \in Requests : CommitTransition(r) /\ req[r].item = j
             Edited == \E r \in Requests, d \in Details : CommitEdit(r, d) /\ req[r].item = j
  <1>1. CASE UNCHANGED <<recorded, events, audit>>
    BY <1>1
  <1>2. ASSUME NEW i \in Items, NEW d \in Details, NEW at \in Time, NEW s,
               InsertItem(i, d, at, s)
        PROVE  Same \/ Born
    BY <1>2 DEF InsertItem, InsertRow, TypeOK
  <1>3. ASSUME NEW r \in Requests, CommitTransition(r)
        PROVE  Same \/ Moved
    BY <1>3 DEF CommitTransition, TypeOK
  <1>4. ASSUME NEW r \in Requests, NEW d \in Details, CommitEdit(r, d)
        PROVE  Same \/ Edited
    BY <1>4 DEF CommitEdit, TypeOK
  <1>5. CASE Create
    BY <1>2, <1>5 DEF Create, CreateUnowned, CreateOwned, CreateRefusedOwner
  <1>6. ASSUME NEW r \in Requests, Proceed(r)
        PROVE  Same \/ Moved \/ Edited
    BY <1>1, <1>3, <1>4, <1>6
       DEF Proceed, Refuse, Transition, Edit, Assign, CheckTransition, WalkOn,
           WalkLoops, AbortTransition, AbortEdit, ReadOwner,
           CommitAssign, AbortAssign, rows
  <1> QED BY <1>1, <1>5, <1>6 DEF Next, Tick, Load, vars, rows

\* The trigger's rows and the application's events are written in one
\* transaction, under one version check.
LEMMA AuditStep == IInv /\ AuditInv /\ [Next]_vars => AuditInv'
  <1> SUFFICES ASSUME IInv, AuditInv, [Next]_vars
               PROVE  \A j \in Items : IF j \in recorded' THEN AuditMatches(audit'[j], events'[j])
                                                        ELSE audit'[j] = <<>>
    BY TypeStep DEF AuditInv, AuditAgreesWithHistory, AuditMatches, TypeOK
  <1> TAKE j \in Items
  <1>0. /\ TypeOK /\ RequestInv /\ recorded \subseteq recorded'
        /\ audit[j] \in Seq(Change) /\ events[j] \in Seq(Event)
        /\ j \in recorded => AuditMatches(audit[j], events[j])
        /\ j \notin recorded => audit[j] = <<>>
    BY RowsMoveOn DEF IInv, AuditInv, AuditAgreesWithHistory, AuditMatches, TypeOK
  <1>1. CASE audit'[j] = audit[j] /\ events'[j] = events[j] /\ (j \in recorded' <=> j \in recorded)
    BY <1>0, <1>1
  <1>2. CASE j \notin recorded /\ audit'[j] = audit[j] /\ \E e : events'[j] = <<e>>
    <2>1. audit'[j] = <<>> /\ Len(audit'[j]) = 0 /\ Len(events'[j]) = 1 /\ DOMAIN audit'[j] = {}
      BY <1>0, <1>2
    <2>2. StateChanges(audit'[j], 0) = 0
      BY FS_EmptySet DEF StateChanges
    <2> QED BY <2>1, <2>2 DEF AuditMatches
  <1>3. CASE \E r \in Requests : CommitTransition(r) /\ req[r].item = j
    <2>1. PICK r \in Requests : CommitTransition(r) /\ req[r].item = j
      BY <1>3
    <2> DEFINE e == [from |-> req[r].state, to |-> req[r].to, at |-> req[r].at,
                     displacer |-> req[r].displacer]
               c == [field |-> "state", old |-> state[j], new |-> req[r].to]
    <2>2. /\ j \in recorded /\ recorded' = recorded /\ e \in Event
          /\ events[j] # <<>> /\ events'[j] = Append(events[j], e)
          /\ e.from = state[j]
      BY <2>1, TransitionEffect
    <2>3. audit'[j] = Append(audit[j], c)
      BY <1>0, <2>1 DEF CommitTransition, TypeOK
    <2>4. c \in Change /\ c.field = "state" /\ c.old = e.from /\ c.new = e.to
      BY <1>0, <2>2 DEF Change, Event, TypeOK
    <2> HIDE DEF e, c
    <2>5. AuditMatches(Append(audit[j], c), Append(events[j], e))
      BY <1>0, <2>2, <2>4, AuditOfTransition
    <2> QED BY <2>2, <2>3, <2>5
  <1>4. CASE \E r \in Requests, d \in Details : CommitEdit(r, d) /\ req[r].item = j
    <2>1. PICK r \in Requests, d \in Details : CommitEdit(r, d) /\ req[r].item = j
      BY <1>4
    <2> DEFINE c == [field |-> "details", old |-> details[j], new |-> d]
    <2>2. /\ j \in recorded /\ recorded' = recorded /\ events'[j] = events[j]
          /\ audit'[j] = Append(audit[j], c) /\ details[j] \in Details
      BY <1>0, <2>1 DEF CommitEdit, RequestInv, RequestHolds, TypeOK
    <2>3. c \in Change /\ c.field # "state"
      BY <2>2 DEF Change
    <2> HIDE DEF c
    <2> QED BY <1>0, <2>2, <2>3, AuditOfEdit
  <1> QED BY <1>0, <1>1, <1>2, <1>3, <1>4, AuditEffects

\* ADR-003 for any number of overlapping requests: the trigger's audit trail
\* and the application's history tell the same story of an item's states.
THEOREM AuditTellsTheHistory == Spec => []AuditAgreesWithHistory
  <1>1. Init => AuditInv
    BY DEF Init, AuditInv, AuditAgreesWithHistory
  <1>2. AuditInv => AuditAgreesWithHistory
    BY DEF AuditInv
  <1> QED BY <1>1, <1>2, AuditStep, Inductive, PTL DEF Spec

-----------------------------------------------------------------------------
(* Displacement *)

\* A set of items that every one of its members leads back into.
Closed(S) == S # {} /\ \A i \in S : displacer[i] \in S

\* If the items that a walk has passed are closed, then a hold that names one
\* of them closes no loop that was not there before.
LEMMA HoldClosesNoLoop ==
  ASSUME TypeOK, NoDisplacementLoop,
         NEW i \in recorded, NEW W \in SUBSET Items, NEW d \in W, i \notin W,
         \A c \in W : displacer[c] \in W \cup {None},
         NEW S \in SUBSET recorded, S # {},
         \A j \in S : (IF j = i THEN d ELSE displacer[j]) \in S
  PROVE  FALSE
  <1>1. CASE i \notin S
    BY <1>1 DEF NoDisplacementLoop
  <1>2. CASE i \in S
    <2>1. d \in S \cap W
      BY <1>2
    <2>2. \A j \in S \cap W : displacer[j] \in S \cap W
      <3> SUFFICES ASSUME NEW j \in S \cap W PROVE displacer[j] \in S \cap W
        OBVIOUS
      <3>1. displacer[j] \in S
        OBVIOUS
      <3>2. displacer[j] # None
        BY <3>1, NoneAssumption DEF TypeOK
      <3> QED BY <3>1, <3>2
    <2>3. S \cap W \in SUBSET recorded /\ S \cap W # {}
      BY <2>1
    <2> QED BY <2>2, <2>3 DEF NoDisplacementLoop
  <1> QED BY <1>1, <1>2

\* The only ways a step can touch what displaces an item.
LEMMA DisplacerEffects ==
  ASSUME TypeOK, RequestInv, [Next]_vars
  PROVE  \/ displacer' = displacer /\ recorded' = recorded
         \/ \E i \in Items \ recorded : /\ recorded' = recorded \cup {i}
                                        /\ displacer' = [displacer EXCEPT ![i] = None]
                                        /\ req' = req
         \/ \E r \in Requests : CommitTransition(r)
  <1> DEFINE Same == displacer' = displacer /\ recorded' = recorded
             Born == \E i \in Items \ recorded : /\ recorded' = recorded \cup {i}
                                                 /\ displacer' = [displacer EXCEPT ![i] = None]
                                                 /\ req' = req
             Moved == \E r \in Requests : CommitTransition(r)
  <1>1. CASE UNCHANGED <<recorded, displacer>>
    BY <1>1
  <1>2. ASSUME NEW i \in Items, NEW d \in Details, NEW at \in Time, NEW s,
               InsertItem(i, d, at, s)
        PROVE  Born
    BY <1>2 DEF InsertItem, InsertRow
  <1>3. CASE Create
    BY <1>2, <1>3 DEF Create, CreateUnowned, CreateOwned, CreateRefusedOwner
  <1>4. ASSUME NEW r \in Requests, Proceed(r)
        PROVE  Same \/ Moved
    BY <1>1, <1>4
       DEF Proceed, Refuse, Transition, Edit, Assign, CheckTransition, WalkOn,
           WalkLoops, AbortTransition, CommitEdit, AbortEdit, ReadOwner,
           CommitAssign, AbortAssign, rows
  <1> QED BY <1>1, <1>3, <1>4 DEF Next, Tick, Load, vars, rows

\* A hold that is committed has walked to an end, and closes no loop.
LEMMA NoLoopStep ==
  ASSUME IInv, NoDisplacementLoop, WalkInv, [Next]_vars
  PROVE  NoDisplacementLoop'
  <1> SUFFICES ASSUME NEW S \in SUBSET recorded', S # {}, \A j \in S : displacer'[j] \in S
               PROVE  FALSE
    BY DEF NoDisplacementLoop
  <1>0. TypeOK /\ RequestInv /\ recorded \subseteq Items /\ None \notin S
    BY TypeStep, NoneAssumption DEF IInv, TypeOK
  <1>1. CASE displacer' = displacer /\ recorded' = recorded
    BY <1>1 DEF NoDisplacementLoop
  <1>2. ASSUME NEW i \in Items \ recorded, recorded' = recorded \cup {i},
               displacer' = [displacer EXCEPT ![i] = None]
        PROVE  FALSE
    <2>1. displacer'[i] = None /\ \A j \in recorded : displacer'[j] = displacer[j]
      BY <1>0, <1>2 DEF TypeOK
    <2>2. S \in SUBSET recorded /\ \A j \in S : displacer[j] \in S
      BY <1>0, <1>2, <2>1
    <2> QED BY <2>2 DEF NoDisplacementLoop
  <1>3. ASSUME NEW r \in Requests, CommitTransition(r)
        PROVE  FALSE
    <2> DEFINE i == req[r].item
               d == req[r].displacer
    <2>1. /\ i \in recorded /\ i \in Items /\ recorded' = recorded
          /\ IF req[r].to = "ON_HOLD_PREEMPTED" THEN d \in recorded \ {i} ELSE d = None
      BY <1>3, TransitionEffect
    <2>2. displacer' = [displacer EXCEPT ![i] = d] /\ req[r].phase = "ready"
      BY <1>3 DEF CommitTransition
    <2>3. \A j \in S : (IF j = i THEN d ELSE displacer[j]) \in S
      BY <1>0, <2>1, <2>2 DEF TypeOK
    <2>4. CASE req[r].to = "ON_HOLD_PREEMPTED"
      <3>1. /\ i \in req[r].seen /\ req[r].cursor = None
            /\ d \in Walked(r) \cup {None}
            /\ \A c \in Walked(r) : displacer[c] \in Walked(r) \cup {None}
        BY <2>2, <2>4 DEF WalkInv, WalkHolds, Holding
      <3>2. d # None
        BY <1>0, <2>1, <2>4, NoneAssumption
      <3>3. Walked(r) \in SUBSET Items /\ i \notin Walked(r)
        BY <1>0 DEF Walked, TypeOK, Request
      <3> HIDE DEF i, d
      <3> QED BY <1>0, <2>1, <2>3, <3>1, <3>2, <3>3, HoldClosesNoLoop
    <2>5. CASE req[r].to # "ON_HOLD_PREEMPTED"
      <3>1. i \notin S
        BY <1>0, <2>1, <2>3, <2>5
      <3> QED BY <2>1, <2>3, <3>1 DEF NoDisplacementLoop
    <2> QED BY <2>4, <2>5
  <1> QED BY <1>0, <1>1, <1>2, <1>3, DisplacerEffects

\* What can happen around a hold on its way, as long as nobody else puts an
\* item on hold: others clear displacers at most, the request's check passes,
\* or its walk goes on.
LEMMA AroundAHold ==
  ASSUME IInv, HoldsTakeTurns, [Next]_vars, NEW q \in Requests, Holding(q)'
  PROVE  \/ req'[q] = req[q] /\ \A c \in Items : displacer'[c] \in {displacer[c], None}
         \/ \E at \in Time, d \in OrNone(Items) : CheckTransition(q, "ON_HOLD_PREEMPTED", at, d)
         \/ WalkOn(q)
  <1> DEFINE Around == req'[q] = req[q] /\ \A c \in Items : displacer'[c] \in {displacer[c], None}
             Checked == \E at \in Time, d \in OrNone(Items) :
                            CheckTransition(q, "ON_HOLD_PREEMPTED", at, d)
  <1>0. TypeOK /\ RequestInv /\ req[q] \in Request
    BY DEF IInv, TypeOK
  <1>2. ASSUME NEW i \in Items \ recorded, displacer' = [displacer EXCEPT ![i] = None], req' = req
        PROVE  Around
    BY <1>0, <1>2 DEF TypeOK
  <1>3. ASSUME NEW r \in Requests, CommitTransition(r)
        PROVE  Around
    <2>1. r # q /\ req'[q] = req[q]
      BY <1>0, <1>3 DEF CommitTransition, Finish, TypeOK, Holding, Idle
    <2>2. ~ Holding(r)
      BY <2>1 DEF HoldsTakeTurns, Holding
    <2>3. req[r].displacer = None
      BY <1>3, <2>2, TransitionEffect DEF Holding, CommitTransition
    <2> QED BY <1>0, <1>3, <2>1, <2>3 DEF CommitTransition, TypeOK
  <1>4. ASSUME NEW to \in State, NEW at \in Time, NEW d \in OrNone(Items),
               CheckTransition(q, to, at, d)
        PROVE  Checked
    <2>1. req'[q].to = to
      BY <1>0, <1>4 DEF CheckTransition, TypeOK, Request
    <2> QED BY <1>4, <2>1 DEF Holding
  <1>6. CASE UNCHANGED <<displacer, req>>
    BY <1>6
  <1>7. ASSUME NEW r \in Requests, NEW x, req' = [req EXCEPT ![r] = x], r # q,
               UNCHANGED displacer
        PROVE  Around
    BY <1>0, <1>7 DEF TypeOK
  <1>8. ASSUME NEW r \in Requests, NEW i \in Items, Load(r, i)
        PROVE  Around
    <2>1. r # q
      BY <1>0, <1>8 DEF Load, TypeOK, Holding, Idle
    <2> QED BY <1>7, <1>8, <2>1 DEF Load, rows
  <1>9. ASSUME NEW r \in Requests, Proceed(r)
        PROVE  Around \/ Checked \/ WalkOn(q)
    <2>1. ASSUME NEW actor \in People, NEW p \in People, NEW at \in Time,
                 ReadOwner(q, actor, p, at)
          PROVE  FALSE
      BY <1>0, <2>1 DEF ReadOwner, TypeOK, Holding
    <2>2. ASSUME Finish(q)
          PROVE  FALSE
      BY <1>0, <2>2 DEF Finish, TypeOK, Holding, Idle
    <2>3. CASE r = q
      <3> HIDE DEF Around, Checked
      <3> QED
        BY <1>3, <1>4, <1>9, <2>1, <2>2, <2>3
           DEF Proceed, Refuse, Transition, Edit, Assign, WalkLoops,
               AbortTransition, CommitEdit, AbortEdit, CommitAssign, AbortAssign
    <2>4. CASE r # q /\ ~ CommitTransition(r)
      <3>1. UNCHANGED displacer /\ \E x : req' = [req EXCEPT ![r] = x]
        BY <1>9, <2>4 DEF Proceed, Refuse, Transition, Edit, Assign, WalkLoops,
             AbortTransition, CommitEdit, AbortEdit, CommitAssign, AbortAssign,
             CheckTransition, WalkOn, ReadOwner, Finish, rows
      <3> QED BY <1>7, <2>4, <3>1
    <2> QED BY <1>3, <2>3, <2>4
  <1>10. CASE Create
    <2>1. ASSUME NEW i \in Items, NEW d \in Details, NEW at \in Time, NEW s,
                 InsertItem(i, d, at, s)
          PROVE  Around
      BY <1>2, <2>1 DEF InsertItem, InsertRow
    <2> QED BY <1>10, <2>1 DEF Create, CreateUnowned, CreateOwned, CreateRefusedOwner
  <1> QED BY <1>6, <1>8, <1>9, <1>10 DEF Next, Tick, vars, rows

\* A hold whose check passes has walked nothing yet, and stands at its displacer.
LEMMA HoldChecked ==
  ASSUME TypeOK, NEW q \in Requests, NEW at \in Time, NEW d \in OrNone(Items),
         CheckTransition(q, "ON_HOLD_PREEMPTED", at, d)
  PROVE  /\ req'[q].phase = "walking" /\ req'[q].item = req[q].item
         /\ req'[q].displacer = d /\ req'[q].cursor = d /\ req'[q].seen = {req[q].item}
         /\ displacer' = displacer
  BY DEF CheckTransition, TypeOK, Request, NewDisplacer, rows

\* One turn of the walk.
LEMMA WalkTurn ==
  ASSUME IInv, NEW q \in Requests, WalkOn(q)
  PROVE  LET c == req[q].cursor IN
         /\ c \in Items \ req[q].seen /\ displacer' = displacer
         /\ req[q].phase = "walking"
         /\ req'[q].phase = IF displacer[c] = None THEN "ready" ELSE "walking"
         /\ req'[q].item = req[q].item /\ req'[q].to = req[q].to
         /\ req'[q].displacer = req[q].displacer
         /\ req'[q].cursor = displacer[c]
         /\ req'[q].seen = req[q].seen \cup {c}
         /\ req[q].seen \in SUBSET Items
  <1>1. TypeOK /\ RequestInv /\ req[q] \in Request
    BY DEF IInv, TypeOK
  <1>2. req[q].phase = "walking" /\ req[q].cursor # None
    BY <1>1 DEF WalkOn, RequestInv, RequestHolds
  <1>3. req[q].cursor \in Items \ req[q].seen
    BY <1>1, <1>2 DEF WalkOn, LoopFound, Request, OrNone
  <1> QED BY <1>1, <1>2, <1>3 DEF WalkOn, TypeOK, Request, SeenAfter, rows

\* What a walk has found out stays true as long as nobody else puts an item
\* on hold: an item that is resumed or recorded meanwhile ends a chain.
LEMMA WalkStep ==
  ASSUME IInv, WalkInv, HoldsTakeTurns, [Next]_vars
  PROVE  WalkInv'
  <1> SUFFICES ASSUME NEW q \in Requests, Holding(q)'
               PROVE  WalkHolds(q)'
    BY DEF WalkInv
  <1>0. TypeOK /\ req[q] \in Request
    BY DEF IInv, TypeOK
  <1>1. CASE req'[q] = req[q] /\ \A c \in Items : displacer'[c] \in {displacer[c], None}
    BY <1>0, <1>1 DEF WalkInv, WalkHolds, Walked, Holding, Request
  <1>2. ASSUME NEW at \in Time, NEW d \in OrNone(Items),
               CheckTransition(q, "ON_HOLD_PREEMPTED", at, d)
        PROVE  WalkHolds(q)'
    BY <1>0, <1>2, HoldChecked DEF WalkHolds, Walked
  <1>3. CASE WalkOn(q)
    <2> DEFINE c == req[q].cursor
    <2>1. WalkHolds(q)
      BY <1>3, WalkTurn DEF WalkInv, Holding
    <2>2. Walked(q)' = Walked(q) \cup {c}
      BY <1>3, WalkTurn, <2>1 DEF Walked, WalkHolds
    <2> QED BY <1>3, WalkTurn, <2>1, <2>2 DEF WalkHolds
  <1> QED BY <1>1, <1>2, <1>3, AroundAHold

\* Only commits fill in a displacer, and only for items that are recorded.
LEMMA FreeStep ==
  ASSUME IInv, UnrecordedIsFree, [Next]_vars
  PROVE  UnrecordedIsFree'
  <1> SUFFICES ASSUME NEW c \in Items \ recorded' PROVE displacer'[c] = None
    BY DEF UnrecordedIsFree
  <1>0. TypeOK /\ RequestInv
    BY DEF IInv
  <1>1. CASE displacer' = displacer /\ recorded' = recorded
    BY <1>1 DEF UnrecordedIsFree
  <1>2. ASSUME NEW i \in Items \ recorded, recorded' = recorded \cup {i},
               displacer' = [displacer EXCEPT ![i] = None]
        PROVE  displacer'[c] = None
    BY <1>0, <1>2 DEF UnrecordedIsFree, TypeOK
  <1>3. ASSUME NEW r \in Requests, CommitTransition(r)
        PROVE  displacer'[c] = None
    <2>1. req[r].item \in recorded /\ recorded' = recorded
      BY <1>3, TransitionEffect
    <2> QED BY <1>0, <1>3, <2>1 DEF CommitTransition, UnrecordedIsFree, TypeOK
  <1> QED BY <1>0, <1>1, <1>2, <1>3, DisplacerEffects

\* A table without loops over the recorded items leads out of every set.
LEMMA TableLeadsOut ==
  IInv /\ NoDisplacementLoop /\ UnrecordedIsFree => LeadsOut(displacer)
  <1> SUFFICES ASSUME IInv, NoDisplacementLoop, UnrecordedIsFree,
                      NEW S \in SUBSET Items, S # {}
               PROVE  \E i \in S : displacer[i] \notin S
    BY DEF LeadsOut
  <1>0. None \notin S
    BY NoneAssumption
  <1>1. CASE S \cap recorded = {}
    BY <1>0, <1>1 DEF UnrecordedIsFree
  <1>2. CASE S \cap recorded # {}
    <2>1. PICK i \in S \cap recorded : displacer[i] \notin S \cap recorded
      BY <1>2 DEF NoDisplacementLoop
    <2>2. displacer[i] \in recorded \cup {None}
      BY <2>1 DEF IInv, HoldNamesItsCause
    <2> QED BY <1>0, <2>1, <2>2
  <1> QED BY <1>1, <1>2

\* A walk begins on the table as it is, with nothing walked yet.
LEMMA WalkBegins ==
  ASSUME IInv, NoDisplacementLoop, UnrecordedIsFree, NEW q \in Requests,
         displacer' = displacer, req'[q].seen = {req'[q].item}
  PROVE  req'[q].item \in req'[q].seen /\ WalkedChain(q)'
  <1>1. displacer \in [Items -> OrNone(Items)]
    BY DEF IInv, TypeOK
  <1>2. ChainHolds(q, displacer)'
    BY TableLeadsOut DEF ChainHolds, Walked, LeadsOut
  <1> QED BY <1>1, <1>2 DEF WalkedChain

\* A walk that reads a displacer goes on where the table led when it began:
\* a row that was cleared since ends it.
LEMMA WalkGoesOn ==
  ASSUME IInv, NEW q \in Requests, WalkOn(q), req[q].item \in req[q].seen,
         WalkedChain(q), req'[q].phase = "walking"
  PROVE  req'[q].item \in req'[q].seen /\ WalkedChain(q)'
  <1> DEFINE c == req[q].cursor
  <1>1. PICK chain \in [Items -> OrNone(Items)] : ChainHolds(q, chain)
    BY DEF WalkedChain
  <1>2. Walked(q)' = Walked(q) \cup {c} /\ Walked(q) \subseteq Items
    BY WalkTurn DEF Walked
  <1>3. chain[c] = displacer[c]
    BY <1>1, WalkTurn DEF ChainHolds
  <1>4. ChainHolds(q, chain)'
    BY <1>1, <1>2, <1>3, WalkTurn DEF ChainHolds, LeadsOut
  <1> QED BY <1>1, <1>4, WalkTurn DEF WalkedChain

\* What a walk may rely on survives whatever clears a row.
LEMMA ChainSurvives ==
  ASSUME NEW q \in Requests, req'[q] = req[q], WalkedChain(q),
         \A c \in Items : displacer'[c] \in {displacer[c], None}
  PROVE  WalkedChain(q)'
  <1>1. PICK chain \in [Items -> OrNone(Items)] : ChainHolds(q, chain)
    BY DEF WalkedChain
  <1>2. ChainHolds(q, chain)'
    BY <1>1 DEF ChainHolds, LeadsOut, Walked
  <1> QED BY <1>1, <1>2 DEF WalkedChain

LEMMA ChainStep ==
  ASSUME IInv, NoDisplacementLoop, UnrecordedIsFree, ChainInv, HoldsTakeTurns, [Next]_vars
  PROVE  ChainInv'
  <1> SUFFICES ASSUME NEW q \in Requests, req'[q].phase = "walking"
               PROVE  req'[q].item \in req'[q].seen /\ WalkedChain(q)'
    BY DEF ChainInv
  <1>0. TypeOK /\ Holding(q)'
    BY RequestStep DEF IInv, RequestInv, RequestHolds, Holding
  <1>1. CASE req'[q] = req[q] /\ \A c \in Items : displacer'[c] \in {displacer[c], None}
    <2>1. req[q].item \in req[q].seen /\ WalkedChain(q)
      BY <1>1 DEF ChainInv
    <2> QED BY <1>1, <2>1, ChainSurvives
  <1>2. ASSUME NEW at \in Time, NEW d \in OrNone(Items),
               CheckTransition(q, "ON_HOLD_PREEMPTED", at, d)
        PROVE  req'[q].item \in req'[q].seen /\ WalkedChain(q)'
    BY <1>0, <1>2, HoldChecked, WalkBegins
  <1>3. CASE WalkOn(q)
    <2>1. req[q].item \in req[q].seen /\ WalkedChain(q)
      BY <1>3, WalkTurn DEF ChainInv
    <2> QED BY <1>0, <1>3, <2>1, WalkGoesOn
  <1> QED BY <1>0, <1>1, <1>2, <1>3, AroundAHold

\* Items walked, none of them the item itself, that the walk comes back to
\* would be a loop that was there before.
LEMMA ChainMeansReal ==
  IInv /\ ChainInv => OnlyRealLoopsAreRefused
  <1> SUFFICES ASSUME IInv, ChainInv, NEW r \in Requests,
                      req[r].phase = "walking", LoopFound(r), req[r].cursor # req[r].item
               PROVE  FALSE
    BY DEF OnlyRealLoopsAreRefused
  <1>1. req[r] \in Request
    BY DEF IInv, TypeOK
  <1>3. PICK chain \in [Items -> OrNone(Items)] : ChainHolds(r, chain)
    BY DEF ChainInv, WalkedChain
  <1>4. req[r].cursor \in Walked(r) /\ Walked(r) \in SUBSET Items
    BY <1>1 DEF LoopFound, Walked, Request
  <1>5. \A c \in Walked(r) : chain[c] \in Walked(r)
    BY <1>3, <1>4 DEF ChainHolds
  <1> QED BY <1>3, <1>4, <1>5 DEF ChainHolds, LeadsOut

\* What the two halves of _would_cycle rest on.
LoopInv == NoDisplacementLoop /\ WalkInv /\ UnrecordedIsFree /\ ChainInv

LEMMA LoopInvHolds == Spec /\ []HoldsTakeTurns => []LoopInv
  <1>1. Init => LoopInv
    BY DEF Init, LoopInv, NoDisplacementLoop, WalkInv, Holding, Idle, UnrecordedIsFree, ChainInv
  <1>2. LoopInv /\ IInv /\ HoldsTakeTurns /\ [Next]_vars => LoopInv'
    BY NoLoopStep, WalkStep, FreeStep, ChainStep DEF LoopInv
  <1> QED BY <1>1, <1>2, Inductive, PTL DEF Spec

\* INV-4, as far as the code keeps it (_would_cycle): no loop of displacement
\* arises while no two requests put items on hold at the same time, however
\* many items there are, however long the chains, and whatever else overlaps.
THEOREM LoopsNeedTwoHolds == Spec /\ []HoldsTakeTurns => []NoDisplacementLoop
  <1>1. LoopInv => NoDisplacementLoop
    BY DEF LoopInv
  <1> QED BY <1>1, LoopInvHolds, PTL

\* The other half of _would_cycle: under the same condition no honest hold is
\* refused.  A walk that finds a loop has come back to its own item, whatever
\* was resumed or recorded while it read one row after the other.
THEOREM NoHonestHoldIsRefused == Spec /\ []HoldsTakeTurns => []OnlyRealLoopsAreRefused
  <1>1. IInv /\ LoopInv => OnlyRealLoopsAreRefused
    BY ChainMeansReal DEF LoopInv
  <1> QED BY <1>1, LoopInvHolds, Inductive, PTL

\* In particular one request at a time leaves none behind.
COROLLARY OneRequestLeavesNoLoop ==
  ASSUME \A r, s \in Requests : r = s
  PROVE  Spec => []NoDisplacementLoop
  <1>1. TypeOK => HoldsTakeTurns
    BY DEF HoldsTakeTurns
  <1> QED BY <1>1, TypeCorrect, LoopsNeedTwoHolds, PTL

\* A step that leaves a walk walking and changes it is a turn of it.
LEMMA OnlyTurnsMoveWalks ==
  ASSUME IInv, [Next]_vars, NEW q \in Requests,
         req[q].phase = "walking", req'[q].phase = "walking", req'[q] # req[q]
  PROVE  WalkOn(q)
  <1>0. TypeOK
    BY DEF IInv
  <1>1. ASSUME NEW r \in Requests, NEW x, req' = [req EXCEPT ![r] = x]
        PROVE  r = q /\ x.phase = "walking"
    BY <1>0, <1>1 DEF TypeOK
  <1>2. req' # req /\ Idle.phase # "walking"
    BY DEF Idle
  <1>3. PICK r \in Requests : (\E i \in Items : Load(r, i)) \/ Proceed(r)
    BY <1>2 DEF Next, Tick, Create, CreateUnowned, CreateOwned, CreateRefusedOwner,
                InsertItem, vars
  <1>4. r = q
    <2>1. \E x : req' = [req EXCEPT ![r] = x]
      BY <1>2, <1>3 DEF Load, Proceed, Refuse, Transition, Edit, Assign, WalkLoops,
         AbortTransition, CommitTransition, CommitEdit, AbortEdit, CommitAssign,
         AbortAssign, CheckTransition, WalkOn, ReadOwner, Finish
    <2> QED BY <1>1, <2>1
  <1>5. ~ Finish(q)
    BY <1>1, <1>2 DEF Finish
  <1> QED BY <1>3, <1>4, <1>5
     DEF Load, Proceed, Refuse, Transition, Edit, Assign, WalkLoops, AbortTransition,
         CommitTransition, CommitEdit, AbortEdit, CommitAssign, AbortAssign,
         CheckTransition, ReadOwner

\* _would_cycle ends whatever the table holds, loops included, and whatever
\* the others write meanwhile: each turn sees one item it had not seen.  With
\* the fairness TLC needs for RequestsAreAnswered, a walk takes no more turns
\* than there are items.
THEOREM WalksEnd ==
  ASSUME IsFiniteSet(Items)
  PROVE  Spec => WalksRunOut
  <1>1. ASSUME IInv, [Next]_vars, NEW r \in Requests,
               req[r].phase = "walking", req'[r].phase = "walking", req'[r] # req[r]
        PROVE  Unseen(r)' < Unseen(r)
    <2> DEFINE c == req[r].cursor
               before == Items \ req[r].seen
               after == Items \ req'[r].seen
    <2>1. WalkOn(r)
      BY <1>1, OnlyTurnsMoveWalks
    <2>2. c \in before /\ after = before \ {c}
      BY <1>1, <2>1, WalkTurn
    <2>3. IsFiniteSet(before)
      BY FS_Subset
    <2> HIDE DEF before, after, c
    <2>4. Cardinality(after) = Cardinality(before) - 1 /\ Cardinality(before) \in Nat
      BY <2>2, <2>3, FS_RemoveElement, FS_CardinalityType
    <2>5. Cardinality(after) < Cardinality(before)
      BY <2>4
    <2> QED BY <2>5 DEF Unseen, before, after
  <1>2. IInv /\ [Next]_vars =>
          [\A r \in Requests :
             /\ req[r].phase = "walking" /\ req'[r].phase = "walking"
             /\ req'[r] # req[r]
             => Unseen(r)' < Unseen(r)]_vars
    BY <1>1
  <1> QED BY <1>2, Inductive, PTL DEF Spec, WalksRunOut

-----------------------------------------------------------------------------
(* Every commit of the concurrent register is one operation of the abstract *)
(* one.                                                                    *)

\* Both registers speak of the same lifecycle and the same clock.
LEMMA SameLifecycle ==
  WH!ALLOWED = ALLOWED /\ WH!State = State /\ WH!Time = Time
  BY DEF WH!ALLOWED, ALLOWED, WH!State, State, WH!Time, Time

\* An item is recorded, with or without an owner, as the promise has it.
LEMMA InsertIsRecord ==
  ASSUME TypeOK, NEW i \in Items, NEW d \in Details, NEW at \in Time, NEW s,
         InsertItem(i, d, at, s)
  PROVE  WH!Record(i, at, s)
  BY DEF InsertItem, InsertRow, TypeOK, WH!Record

\* A transition that passed the version check is a legal move of the history.
LEMMA CommitIsMove ==
  ASSUME IInv, NEW r \in Requests, CommitTransition(r)
  PROVE  WH!Move(req[r].item, req[r].to, req[r].at, req[r].displacer)
  <1> DEFINE i == req[r].item
             e == [from |-> req[r].state, to |-> req[r].to, at |-> req[r].at,
                   displacer |-> req[r].displacer]
             log == events[i]
  <1>1. /\ i \in recorded /\ i \in Items /\ e \in Event
        /\ log \in Seq(Event) /\ log # <<>>
        /\ e.from = log[Len(log)].to
        /\ e.to \in ALLOWED[e.from] /\ log[Len(log)].at <= e.at /\ e.at <= now
        /\ e.to = "IN_PROGRESS" => owners[i] # <<>>
        /\ IF e.to = "ON_HOLD_PREEMPTED" THEN e.displacer \in recorded \ {i}
                                         ELSE e.displacer = None
    BY TransitionEffect
  <1>2. events' = [events EXCEPT ![i] = Append(@, e)] /\ UNCHANGED <<now, owners>>
    BY DEF CommitTransition
  <1>3. recorded \subseteq Items /\ \A j \in recorded : events[j] # <<>>
    BY DEF IInv, TypeOK, StateMirrorsHistory
  <1>4. events' = [events EXCEPT ![i] = Append(@,
                     [from |-> WH!LastOf(@).to, to |-> req[r].to, at |-> req[r].at,
                      displacer |-> req[r].displacer])]
    BY <1>1, <1>2 DEF WH!LastOf
  <1>5. /\ log # <<>> /\ req[r].to \in WH!ALLOWED[WH!LastOf(log).to]
        /\ WH!LastOf(log).at <= req[r].at /\ req[r].at <= now
    BY <1>1, SameLifecycle DEF WH!LastOf
  <1>6. IF req[r].to = "ON_HOLD_PREEMPTED"
        THEN req[r].displacer \in Items \ {i} /\ events[req[r].displacer] # <<>>
        ELSE req[r].displacer = None
    BY <1>1, <1>3
  <1> QED BY <1>1, <1>2, <1>4, <1>5, <1>6 DEF WH!Move

\* An assignment the constraints accept takes the item from its last owner.
LEMMA AssignIsGive ==
  ASSUME IInv, TypeOK', NEW r \in Requests, CommitAssign(r)
  PROVE  WH!Give(req[r].item, req[r].person, req[r].at)
  <1> DEFINE i == req[r].item
             spells == owners[i]
  <1>1. /\ req[r] \in Request /\ AssignmentHolds(r) /\ i \in recorded /\ i \in Items
        /\ spells \in Seq(Spell) /\ Tiles(spells) /\ OwnerRowsAccepted(Reassigned(r))
        /\ owners' = [owners EXCEPT ![i] = Reassigned(r)]
        /\ UNCHANGED <<now, events>>
    BY DEF CommitAssign, IInv, TypeOK, RequestInv, RequestHolds, OwnershipTiles
  <1>2. req[r].at \in Nat /\ req[r].person \in People /\ req[r].at <= now
        /\ req[r].row \in 0 .. Len(spells)
    BY <1>1, BoundAssumption DEF Request, Time, AssignmentHolds, OrNone
  <1>3. Reassigned(r) \in Seq(Spell)
    <2>1. TypeOK /\ req[r].phase = "assigning" /\ req[r].item \in Items
      BY <1>1 DEF IInv, CommitAssign
    <2> QED BY <1>2, <2>1, ReassignedType
  <1>4. req[r].row = Len(spells) /\ Tiles(Reassigned(r))
    BY <1>1, <1>2, <1>3, AcceptedAssignmentTiles
  <1>5. Reassigned(r) =
          Append([k \in DOMAIN spells |->
                    IF k = Len(spells) THEN [spells[k] EXCEPT !.to = req[r].at]
                                       ELSE spells[k]],
                 [person |-> req[r].person, from |-> req[r].at, to |-> None])
    BY <1>4 DEF Reassigned
  <1>6. ASSUME spells # <<>>
        PROVE  /\ spells[Len(spells)].person # req[r].person
               /\ spells[Len(spells)].from <= req[r].at
    <2>1. Len(spells) \in DOMAIN spells /\ Len(spells) # 0 /\ Len(spells) \in Nat
      BY <1>1, <1>6
    <2>2. spells[Len(spells)].person # req[r].person
      BY <1>1, <1>4, <2>1 DEF AssignmentHolds
    <2>3. Reassigned(r)[Len(spells)] = [spells[Len(spells)] EXCEPT !.to = req[r].at]
          /\ Len(Reassigned(r)) = Len(spells) + 1
      BY <1>1, <1>4, <2>1, ReassignedShape
    <2>4. Len(spells) \in DOMAIN Reassigned(r) /\ Len(spells) # Len(Reassigned(r))
      BY <1>3, <2>1, <2>3
    <2>5. Reassigned(r)[Len(spells)].from <= Reassigned(r)[Len(spells)].to
      BY <1>4, <2>4 DEF Tiles
    <2>6. spells[Len(spells)] \in Spell
      BY <1>1, <2>1
    <2> QED BY <2>2, <2>3, <2>5, <2>6 DEF Spell
  <1>7. owners' = [owners EXCEPT ![i] =
          Append([k \in DOMAIN @ |->
                    IF k = Len(@) THEN [@[k] EXCEPT !.to = req[r].at] ELSE @[k]],
                 [person |-> req[r].person, from |-> req[r].at, to |-> None])]
    BY <1>1, <1>5
  <1>8. events[i] # <<>>
    BY <1>1 DEF IInv, StateMirrorsHistory
  <1> QED BY <1>1, <1>2, <1>6, <1>7, <1>8 DEF WH!Give, WH!LastOf

\* A step of the register is a step of the promise, or invisible to it.
LEMMA StepIsPromised ==
  ASSUME IInv, [Next]_vars
  PROVE  [WH!Next]_(WH!vars)
  <1>0. TypeOK /\ TypeOK'
    BY TypeStep DEF IInv
  <1>1. CASE UNCHANGED <<now, events, owners>>
    BY <1>1 DEF WH!vars
  <1>2. CASE Tick
    BY <1>2 DEF Tick, rows, WH!Next, WH!Tick
  <1>3. ASSUME NEW i \in Items, NEW d \in Details, NEW at \in Time, NEW s,
               InsertItem(i, d, at, s),
               \/ s = <<>>
               \/ \E p \in People : s = <<[person |-> p, from |-> at, to |-> None]>>
        PROVE  WH!Next
    <2>1. WH!Record(i, at, s)
      BY <1>0, <1>3, InsertIsRecord
    <2> QED BY <1>3, <2>1, SameLifecycle DEF WH!Next
  <1>4. CASE Create
    BY <1>3, <1>4 DEF Create, CreateUnowned, CreateOwned, CreateRefusedOwner
  <1>5. ASSUME NEW r \in Requests, CommitTransition(r)
        PROVE  WH!Next
    <2>1. WH!Move(req[r].item, req[r].to, req[r].at, req[r].displacer)
      BY <1>5, CommitIsMove
    <2>2. /\ req[r].item \in Items /\ req[r].at \in Time /\ req[r].to \in State
          /\ req[r].displacer \in Items \cup {None}
      <3>1. req[r] \in Request /\ req[r].item \in recorded /\ recorded \subseteq Items
        BY <1>5 DEF CommitTransition, IInv, TypeOK, RequestInv, RequestHolds
      <3>2. req[r].to \in State
        BY <1>5, TransitionEffect DEF Event
      <3> QED BY <3>1, <3>2 DEF Request, OrNone
    <2> QED BY <2>1, <2>2, SameLifecycle DEF WH!Next
  <1>6. ASSUME NEW r \in Requests, CommitAssign(r)
        PROVE  WH!Next
    <2>1. WH!Give(req[r].item, req[r].person, req[r].at)
      BY <1>0, <1>6, AssignIsGive
    <2>2. req[r].item \in Items /\ req[r].at \in Time /\ req[r].person \in People
      BY <1>6 DEF CommitAssign, IInv, TypeOK, RequestInv, RequestHolds,
                  AssignmentHolds, Request, OrNone
    <2> QED BY <2>1, <2>2, SameLifecycle DEF WH!Next
  <1>7. ASSUME NEW r \in Requests, Proceed(r)
        PROVE  [WH!Next]_(WH!vars)
    BY <1>1, <1>5, <1>6, <1>7
       DEF Proceed, Refuse, Transition, Edit, Assign, CheckTransition, WalkOn,
           WalkLoops, AbortTransition, CommitEdit, AbortEdit, ReadOwner,
           AbortAssign, rows
  <1> QED BY <1>1, <1>2, <1>4, <1>7 DEF Next, Load, vars, rows

\* Requests that overlap in any way have the effect of the abstract
\* operations, one at a time.
THEOREM RequestsImplementHistory == Spec => ImplementsHistory
  <1>1. Init => WH!Init
    BY DEF Init, WH!Init
  <1>2. IInv /\ [Next]_vars => [WH!Next]_(WH!vars)
    BY StepIsPromised
  <1> QED BY <1>1, <1>2, Inductive, PTL DEF Spec, ImplementsHistory, WH!Spec


-----------------------------------------------------------------------------
(* What the figures take from the promise holds of the register itself. *)

\* No event is dated ahead of the clock, however late it is committed.
LEMMA AheadStep == IInv /\ NothingIsAhead /\ [Next]_vars => NothingIsAhead'
  <1> SUFFICES ASSUME IInv, NothingIsAhead, [Next]_vars, NEW j \in recorded'
               PROVE  events'[j][Len(events'[j])].at <= now'
    BY DEF NothingIsAhead
  <1>0. TypeOK /\ TypeOK' /\ RequestInv /\ now \in Nat /\ now' \in Nat /\ now <= now'
    <2>1. TypeOK /\ TypeOK' /\ RequestInv
      BY TypeStep DEF IInv
    <2>2. now \in Nat /\ now' \in Nat
      BY <2>1, BoundAssumption DEF TypeOK, Time
    <2> QED BY <2>1, <2>2, RowsMoveOn
  <1>1. CASE j \in recorded /\ events'[j] = events[j]
    <2>1. events[j] \in Seq(Event) /\ events[j] # <<>>
      BY <1>0, <1>1 DEF IInv, TypeOK, StateMirrorsHistory
    <2>2. events[j][Len(events[j])] \in Event
      BY <2>1
    <2>3. events[j][Len(events[j])].at \in Nat
      BY <2>2, BoundAssumption DEF Event, Time
    <2> QED BY <1>0, <1>1, <2>3 DEF NothingIsAhead
  <1>2. CASE j \in Items \ recorded /\ \E at \in Time : at <= now /\ events'[j] =
                  <<[from |-> None, to |-> "NEW", at |-> at, displacer |-> None]>>
    <2>2. PICK at \in Time : at <= now /\ events'[j] =
                  <<[from |-> None, to |-> "NEW", at |-> at, displacer |-> None]>>
      BY <1>2
    <2>3. at \in Nat
      BY BoundAssumption DEF Time
    <2> QED BY <1>0, <2>2, <2>3
  <1>3. CASE \E r \in Requests : CommitTransition(r) /\ req[r].item = j
    <2>1. PICK r \in Requests : CommitTransition(r) /\ req[r].item = j
      BY <1>3
    <2> DEFINE e == [from |-> req[r].state, to |-> req[r].to, at |-> req[r].at,
                     displacer |-> req[r].displacer]
    <2>2. /\ e \in Event /\ events[j] \in Seq(Event) /\ e.at <= now
          /\ events'[j] = Append(events[j], e)
      BY <2>1, TransitionEffect
    <2> HIDE DEF e
    <2>3. events'[j][Len(events'[j])] = e /\ e.at \in Nat
      BY <2>2, BoundAssumption DEF Event, Time
    <2> QED BY <1>0, <2>2, <2>3
  <1> QED BY <1>0, <1>1, <1>2, <1>3, HistoryEffects

\* The invariant that every theorem about waiting, working and elapsed time
\* assumes of histories (Figures, Forecast) holds of the register's events,
\* whatever requests overlapped.
THEOREM RegisterKeepsHistories == Spec => []WH!HistoryInv
  <1>1. Init => NothingIsAhead
    BY DEF Init, NothingIsAhead
  <1>2. IInv /\ NothingIsAhead => WH!HistoryInv
    <2> SUFFICES ASSUME IInv, NothingIsAhead PROVE WH!HistoryInv
      OBVIOUS
    <2>0. TypeOK /\ now \in WH!Time /\ Event = WH!Event
      BY SameLifecycle DEF IInv, TypeOK, Time, WH!Time, Event, WH!Event, OrNone
    <2>1. ASSUME NEW i \in recorded
          PROVE  WH!IsHistory(events[i]) /\ WH!LastOf(events[i]).at <= now
      <3> DEFINE log == events[i]
      <3>1. /\ log \in Seq(Event) /\ log # <<>> /\ Legal(log)
            /\ log[Len(log)].at <= now
        BY <2>0 DEF IInv, TypeOK, StateMirrorsHistory, HistoryIsLegal, NothingIsAhead
      <3> HIDE DEF log
      <3>2. ASSUME NEW k \in 1 .. Len(log) - 1
            PROVE  /\ log[k + 1].to \in WH!ALLOWED[log[k].to]
                   /\ log[k + 1].from = log[k].to /\ log[k].at <= log[k + 1].at
        <4>1. k \in DOMAIN log /\ k + 1 \in DOMAIN log /\ k <= k + 1
          BY <3>1
        <4> QED BY <3>1, <3>2, <4>1, SameLifecycle DEF Legal
      <3>3. log \in Seq(WH!Event) /\ log[1].to = "NEW"
        BY <2>0, <3>1 DEF Legal
      <3>4. WH!IsHistory(log)
        BY <3>2, <3>3 DEF WH!IsHistory
      <3> QED BY <3>1, <3>4 DEF WH!LastOf, log
    <2>2. ASSUME NEW i \in Items \ recorded
          PROVE  WH!IsHistory(events[i]) /\ events[i] = <<>>
      BY <2>0, <2>2 DEF WH!IsHistory, TypeOK
    <2> QED BY <2>0, <2>1, <2>2 DEF WH!HistoryInv, TypeOK
  <1> QED BY <1>1, <1>2, AheadStep, Inductive, PTL DEF Spec

==============================================================================
