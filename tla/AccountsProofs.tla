---------------------------- MODULE AccountsProofs ----------------------------
(***************************************************************************)
(* Proofs about Accounts, for any number of people, passwords, tokens and  *)
(* requests in flight.                                                     *)
(*                                                                         *)
(* The states of the tables alone are not inductive: what keeps the        *)
(* properties is what a request in flight still holds.  Sound says it of   *)
(* every request, Alone of one that shares its person with no other.       *)
(***************************************************************************)
EXTENDS Accounts, TLAPS

\* What holds of every request in flight, whatever commits meanwhile: its
\* session was drawn, what it will write has a password where a session needs
\* one, nobody deactivates themselves, and who is not signed in takes nobody's
\* role and no lock that was seen running.
Sound(q) ==
    /\ q.token # None => q.token \in Drawn
    /\ q.cut \subseteq Drawn
    /\ q.target = None => q.last = "nothing"
    /\ q.target # None =>
          /\ q.new # None
          /\ Opens(q) => q.new.cred # None
          /\ q.was = None => \/ q.token # None
                             \/ q.new.role = "ADMIN" /\ q.new.active /\ q.new.cred # None
          /\ q.was # None =>
                /\ person[q.target] # None
                /\ q.was.cred # None => q.new.cred # None /\ person[q.target].cred # None
                /\ \/ q.new.active = q.was.active \/ q.new.active
                   \/ q.token # None /\ session[q.token].person # q.target
                /\ q.token = None => /\ q.new.role \in {q.was.role, "ADMIN"}
                                     /\ q.was.lock # "running" \/ q.new.lock = q.was.lock

\* What holds besides of a request that is the only one about its person: its
\* copy is the row, a lock that ran out apart.
Alone(q) ==
    LET p == q.target IN
    /\ q.was = None <=> person[p] = None
    /\ Opens(q) => q.new.active
    /\ q.new.cred \in Issued => q.new.must
    /\ q.was # None =>
          /\ q.was.cred = person[p].cred
          /\ q.was.active = person[p].active
          /\ q.was.must = person[p].must
          /\ q.was.lock = person[p].lock \/ (q.was.lock = "running" /\ person[p].lock = "over")
          /\ q.was.active /\ ~ q.new.active => SessionsOf(p) \subseteq q.cut
          /\ \/ q.new.cred = q.was.cred
             \/ q.last \in {"revoke", "reopen"}
             \/ SessionsOf(p) = {}

SessionsAreOfPeople ==
    \A t \in Drawn : person[session[t].person] # None /\ person[session[t].person].cred # None

OverlapsAreSeen ==
    \A r, s \in Requests : req[r].target # None /\ req[r].target = req[s].target /\ r # s =>
        req[r].target \in overlapped

RequestsAreSound == \A r \in Requests : Sound(req[r])

RequestsAreAlone ==
    \A r \in Requests : req[r].target # None /\ req[r].target \notin overlapped => Alone(req[r])

Inv ==
    /\ TypeOK
    /\ SessionsAreOfPeople
    /\ OverlapsAreSeen
    /\ RequestsAreSound
    /\ RequestsAreAlone
    /\ SessionsFollowPassword
    /\ InactiveHoldNoSession
    /\ IssuedMustBeChanged

-----------------------------------------------------------------------------
(* Rows and requests *)

\* NULL is none of the things a column or a variable can hold.
LEMMA NullIsNothing ==
    /\ None \notin People /\ None \notin Tokens /\ None \notin Row /\ None \notin Session
    /\ None \notin Own \cup Issued
BY NoneAssumption, NullAssumption

\* The columns of a row.
LEMMA RowFields ==
    ASSUME NEW row \in Row
    PROVE  /\ row.role \in {"ADMIN", "MEMBER"} /\ row.active \in BOOLEAN
           /\ row.cred \in OrNone(Own \cup Issued) /\ row.must \in BOOLEAN
           /\ row.failed \in 0 .. MaxFailed - 1 /\ row.lock \in {"none", "running", "over"}
BY DEF Row

\* What the handlers make of a row is a row.
LEMMA RowsMade ==
    ASSUME NEW row \in Row
    PROVE  /\ Missed(row) \in Row
           /\ Missed(row).lock \in {row.lock, "running"}
           /\ Missed(row).role = row.role /\ Missed(row).active = row.active
           /\ Missed(row).cred = row.cred /\ Missed(row).must = row.must
<1>1. row.failed \in 0 .. MaxFailed - 1 /\ MaxFailed \in Nat \ {0}
  BY FailedAssumption DEF Row
<1>2. CASE row.failed + 1 >= MaxFailed
  <2>1. 0 \in 0 .. MaxFailed - 1
    BY <1>1
  <2>2. Missed(row) = [row EXCEPT !.failed = 0, !.lock = "running"]
    BY <1>2 DEF Missed
  <2> QED BY <2>1, <2>2 DEF Row
<1>3. CASE ~ (row.failed + 1 >= MaxFailed)
  <2>1. row.failed + 1 \in 0 .. MaxFailed - 1
    BY <1>1, <1>3
  <2>2. Missed(row) = [row EXCEPT !.failed = row.failed + 1]
    BY <1>3 DEF Missed
  <2> QED BY <2>1, <2>2 DEF Row
<1> QED BY <1>2, <1>3

LEMMA RowUnlocked ==
    ASSUME NEW row \in Row
    PROVE  LET new == [row EXCEPT !.failed = 0, !.lock = "none"] IN
           /\ new \in Row /\ new.role = row.role /\ new.active = row.active
           /\ new.cred = row.cred /\ new.must = row.must
<1>1. 0 \in 0 .. MaxFailed - 1
  BY FailedAssumption
<1> QED BY <1>1 DEF Row

LEMMA RowForced ==
    ASSUME NEW row \in Row
    PROVE  LET new == [row EXCEPT !.must = TRUE] IN
           /\ new \in Row /\ new.role = row.role /\ new.active = row.active
           /\ new.cred = row.cred /\ new.must /\ new.lock = row.lock
BY DEF Row

LEMMA RowNew ==
    ASSUME NEW role \in {"ADMIN", "MEMBER"}, NEW w \in OrNone(Own \cup Issued), NEW must \in BOOLEAN
    PROVE  LET new == NewRow(role, w, must) IN
           new \in Row /\ new.role = role /\ new.active /\ new.cred = w /\ new.must = must
<1>1. 0 \in 0 .. MaxFailed - 1
  BY FailedAssumption
<1> QED BY <1>1 DEF Row, NewRow

LEMMA RowPromoted ==
    ASSUME NEW row \in Row, NEW w \in Own
    PROVE  LET new == [row EXCEPT !.role = "ADMIN", !.active = TRUE, !.cred = w, !.must = FALSE] IN
           /\ new \in Row /\ new.role = "ADMIN" /\ new.active
           /\ new.cred = w /\ new.lock = row.lock
BY DEF Row, OrNone

LEMMA RowWithPassword ==
    ASSUME NEW row \in Row, NEW w \in Own \cup Issued, NEW must \in BOOLEAN
    PROVE  LET new == SetPassword(row, w, must) IN
           /\ new \in Row /\ new.role = row.role /\ new.active = row.active
           /\ new.cred = w /\ new.must = must /\ new.lock = row.lock
BY DEF Row, SetPassword, OrNone

\* What a commit writes is a row, column by column the new value or the one
\* that is there.
LEMMA WrittenIsRow ==
    ASSUME NEW q, q.new \in Row, q.was \in Row, person[q.target] \in Row
    PROVE  LET old == person[q.target] IN
           /\ Written(q) \in Row
           /\ Written(q).role = IF q.new.role # q.was.role THEN q.new.role ELSE old.role
           /\ Written(q).active = IF q.new.active # q.was.active THEN q.new.active ELSE old.active
           /\ Written(q).cred = IF q.new.cred # q.was.cred THEN q.new.cred ELSE old.cred
           /\ Written(q).must = IF q.new.must # q.was.must THEN q.new.must ELSE old.must
           /\ Written(q).lock = IF q.new.lock # q.was.lock THEN q.new.lock ELSE old.lock
BY DEF Row, Columns, Written

LEMMA RequestFields ==
    ASSUME TypeOK, NEW r \in Requests
    PROVE  /\ req[r] \in Request
           /\ req[r].token \in OrNone(Tokens) /\ req[r].target \in OrNone(People)
           /\ req[r].was \in OrNone(Row) /\ req[r].new \in OrNone(Row)
           /\ req[r].cut \subseteq Tokens
           /\ req[r].last \in {"nothing", "open", "revoke", "reopen"}
BY DEF TypeOK, Request

\* An idle request is sound, and about nobody.
LEMMA IdleIsSound == Idle \in Request /\ Idle.target = None /\ Sound(Idle)
BY DEF Idle, Request, OrNone, Sound, Opens

-----------------------------------------------------------------------------
(* Starting a request *)

\* What a handler hands to Start.
Fit(token, p, new, cut, last) ==
    /\ token \in OrNone(Tokens) /\ p \in OrNone(People) /\ new \in OrNone(Row)
    /\ cut \subseteq Tokens /\ last \in {"nothing", "open", "revoke", "reopen"}
    /\ LET was == IF p = None THEN None ELSE person[p]
           q == [token |-> token, target |-> p, was |-> was, new |-> new, cut |-> cut, last |-> last]
       IN Sound(q) /\ (p # None /\ p \notin overlapped => Alone(q))

LEMMA StartFit ==
    ASSUME Inv, NEW r \in Requests, NEW token, NEW p, NEW new, NEW cut, NEW last,
           Fit(token, p, new, cut, last), Start(r, token, p, new, cut, last)
    PROVE  Inv'
<1> DEFINE was == IF p = None THEN None ELSE person[p]
           q == [token |-> token, target |-> p, was |-> was, new |-> new, cut |-> cut, last |-> last]
<1>1. /\ req' = [req EXCEPT ![r] = q] /\ req[r] = Idle
      /\ overlapped' = overlapped \cup (IF About(p) = {} THEN {} ELSE {p})
      /\ person' = person /\ session' = session
  BY DEF Start
<1>2. q \in Request
  <2>1. was \in OrNone(Row)
    BY DEF Inv, TypeOK, Fit, OrNone
  <2> QED BY <2>1 DEF Request, Fit
<1>3. Sound(q) /\ (p # None /\ p \notin overlapped => Alone(q))
  BY DEF Fit
<1>4. TypeOK /\ req'[r] = q /\ \A s \in Requests : s # r => req'[s] = req[s]
  BY <1>1 DEF Inv, TypeOK
<1>5. TypeOK'
  <2>1. req' \in [Requests -> Request]
    BY <1>1, <1>2, <1>4 DEF TypeOK
  <2>2. overlapped' \subseteq People
    <3>1. p = None => About(p) = {}
      BY DEF About
    <3> QED BY <1>1, <1>4, <3>1 DEF TypeOK, Fit, OrNone
  <2>3. \A s \in Requests : req'[s].target # None => req'[s].new # None
    BY <1>3, <1>4 DEF TypeOK, Sound
  <2> QED BY <1>1, <1>4, <2>1, <2>2, <2>3 DEF TypeOK
<1>6. /\ SessionsAreOfPeople' /\ SessionsFollowPassword' /\ InactiveHoldNoSession'
      /\ IssuedMustBeChanged'
  BY <1>1 DEF Inv, SessionsAreOfPeople, SessionsFollowPassword, InactiveHoldNoSession,
     IssuedMustBeChanged, Known, Drawn, Live
<1>7. OverlapsAreSeen'
  <2>1. Idle.target = None
    BY IdleIsSound
  <2>2. ASSUME NEW s \in Requests, p # None, req[s].target = p
        PROVE  p \in overlapped'
    BY <1>1, <2>2 DEF About
  <2>3. ASSUME NEW s \in Requests, NEW u \in Requests,
               req'[s].target # None, req'[s].target = req'[u].target, s # u
        PROVE  req'[s].target \in overlapped'
    <3>1. CASE s # r /\ u # r
      BY <1>1, <1>4, <2>3, <3>1 DEF Inv, OverlapsAreSeen
    <3>2. CASE s = r
      BY <1>4, <2>2, <2>3, <3>2
    <3>3. CASE u = r
      BY <1>4, <2>2, <2>3, <3>3
    <3> QED BY <3>1, <3>2, <3>3
  <2> QED BY <2>3 DEF OverlapsAreSeen
<1>8. Drawn' = Drawn /\ \A x \in People : SessionsOf(x)' = SessionsOf(x)
  BY <1>1 DEF Drawn, SessionsOf
<1>9. RequestsAreSound'
  <2>1. ASSUME NEW s \in Requests, Sound(req'[s])
        PROVE  Sound(req[s])'
    BY <1>1, <1>8, <2>1 DEF Sound, Opens
  <2>2. ASSUME NEW s \in Requests
        PROVE  Sound(req'[s])
    BY <1>3, <1>4 DEF Inv, RequestsAreSound
  <2> QED BY <2>1, <2>2 DEF RequestsAreSound
<1>10. RequestsAreAlone'
  <2>1. ASSUME NEW s \in Requests, req'[s].target \in People, Alone(req'[s])
        PROVE  Alone(req[s])'
    BY <1>1, <1>8, <2>1 DEF Alone, Opens
  <2>2. ASSUME NEW s \in Requests, req'[s].target # None, req'[s].target \notin overlapped'
        PROVE  req'[s].target \in People /\ Alone(req'[s])
    <3>1. req'[s].target \notin overlapped
      BY <1>1, <2>2
    <3>2. CASE s = r
      BY <1>3, <1>4, <2>2, <3>1, <3>2 DEF Fit, OrNone
    <3>3. CASE s # r
      BY <1>4, <2>2, <3>1, <3>3, RequestFields DEF Inv, RequestsAreAlone, OrNone
    <3> QED BY <3>2, <3>3
  <2> QED BY <2>1, <2>2 DEF RequestsAreAlone
<1> QED BY <1>5, <1>6, <1>7, <1>9, <1>10 DEF Inv

\* Each handler hands Start what fits.

LEMMA KnownRows ==
    ASSUME Inv
    PROVE  /\ \A p \in Known : p \in People /\ person[p] \in Row
           /\ \A p \in Known : p \notin overlapped /\ person[p].cred \in Issued => person[p].must
           /\ \A t \in Drawn : /\ t \in Tokens /\ session[t] \in Session
                               /\ session[t].person \in Known
                               /\ person[session[t].person].cred # None
BY NullIsNothing DEF Inv, TypeOK, Known, Drawn, OrNone, IssuedMustBeChanged, SessionsAreOfPeople,
   Session

\* A change of a person that leaves the role, the active flag and the password.
LEMMA KeepsFit ==
    ASSUME Inv, NEW token \in OrNone(Drawn), NEW p \in Known, NEW new \in Row,
           NEW last \in {"nothing", "open"},
           new.role = person[p].role, new.active = person[p].active, new.cred = person[p].cred,
           person[p].must => new.must,
           token = None => person[p].lock # "running" \/ new.lock = person[p].lock,
           last = "open" => new.active /\ new.cred # None
    PROVE  Fit(token, p, new, {}, last)
<1>1. p \in People /\ person[p] \in Row /\ person[p] # None /\ p # None /\ new # None
  BY KnownRows, NullIsNothing
<1>2. p \notin overlapped /\ new.cred \in Issued => new.must
  BY KnownRows
<1> QED BY <1>1, <1>2 DEF Fit, Sound, Alone, OrNone, Opens, Drawn

LEMMA SignInStep ==
    ASSUME Inv, NEW r \in Requests, NEW p \in People, SignIn(r, p)
    PROVE  Inv'
<1>1. p \in Known /\ person[p] \in Row /\ person[p].lock # "running" /\ person[p].active
  BY KnownRows DEF SignIn, SignInAllowed
<1>2. CASE /\ person[p].cred # None
           /\ Start(r, None, p, [person[p] EXCEPT !.failed = 0, !.lock = "none"], {}, "open")
  <2> DEFINE new == [person[p] EXCEPT !.failed = 0, !.lock = "none"]
  <2>1. /\ new \in Row /\ new.role = person[p].role /\ new.active = person[p].active
        /\ new.cred = person[p].cred /\ new.must = person[p].must
    BY <1>1, RowUnlocked
  <2>2. Fit(None, p, new, {}, "open")
    <3> HIDE DEF new
    <3> QED BY <1>1, <1>2, <2>1, KeepsFit DEF OrNone
  <2> QED BY <1>2, <2>2, StartFit
<1>3. CASE Start(r, None, p, Missed(person[p]), {}, "nothing")
  <2>1. Fit(None, p, Missed(person[p]), {}, "nothing")
    BY <1>1, RowsMade, KeepsFit DEF OrNone
  <2> QED BY <1>3, <2>1, StartFit
<1> QED BY <1>2, <1>3 DEF SignIn

LEMMA UnlockStep ==
    ASSUME Inv, NEW r \in Requests, NEW t \in Drawn, NEW p \in People, Unlock(r, t, p)
    PROVE  Inv'
<1> DEFINE new == [person[p] EXCEPT !.failed = 0, !.lock = "none"]
<1>1. p \in Known /\ person[p] \in Row /\ t # None
  BY KnownRows, NullIsNothing DEF Unlock
<1>2. /\ new \in Row /\ new.role = person[p].role /\ new.active = person[p].active
      /\ new.cred = person[p].cred /\ new.must = person[p].must
  BY <1>1, RowUnlocked
<1>3. Fit(t, p, new, {}, "nothing")
  <2> HIDE DEF new
  <2> QED BY <1>1, <1>2, KeepsFit DEF OrNone
<1> QED BY <1>3, StartFit DEF Unlock

LEMMA ForceChangeStep ==
    ASSUME Inv, NEW r \in Requests, NEW t \in Drawn, NEW p \in People, ForceChange(r, t, p)
    PROVE  Inv'
<1> DEFINE new == [person[p] EXCEPT !.must = TRUE]
<1>1. p \in Known /\ person[p] \in Row /\ t # None
  BY KnownRows, NullIsNothing DEF ForceChange
<1>2. /\ new \in Row /\ new.role = person[p].role /\ new.active = person[p].active
      /\ new.cred = person[p].cred /\ new.must /\ new.lock = person[p].lock
  BY <1>1, RowForced
<1>3. Fit(t, p, new, {}, "nothing")
  <2> HIDE DEF new
  <2> QED BY <1>1, <1>2, KeepsFit DEF OrNone
<1> QED BY <1>3, StartFit DEF ForceChange

LEMMA AddStep ==
    ASSUME Inv, NEW r \in Requests, NEW t \in Drawn, NEW p \in People,
           NEW role \in {"ADMIN", "MEMBER"}, NEW w \in OrNone(Issued), Add(r, t, p, role, w)
    PROVE  Inv'
<1> DEFINE new == NewRow(role, w, w # None)
<1>1. person[p] = None /\ p # None /\ t # None /\ t \in Tokens
  BY KnownRows, NullIsNothing DEF Add, Known
<1>2. new \in Row /\ new.cred = w /\ new.must = (w # None) /\ new.active
  <2>1. w \in OrNone(Own \cup Issued)
    BY DEF OrNone
  <2>2. 0 \in 0 .. MaxFailed - 1
    BY FailedAssumption
  <2> QED BY <2>1, <2>2 DEF NewRow, Row
<1>3. Fit(t, p, new, {}, "nothing")
  <2> HIDE DEF new
  <2> QED BY <1>1, <1>2, NullIsNothing DEF Fit, Sound, Alone, OrNone, Opens
<1> QED BY <1>3, StartFit DEF Add

LEMMA EditStep ==
    ASSUME Inv, NEW r \in Requests, NEW t \in Drawn, NEW p \in People,
           NEW role \in {"ADMIN", "MEMBER"}, NEW active \in BOOLEAN, Edit(r, t, p, role, active)
    PROVE  Inv'
<1> DEFINE new == [person[p] EXCEPT !.role = role, !.active = active]
<1>1. p \in Known /\ person[p] \in Row /\ person[p] # None /\ p # None /\ t # None /\ t \in Tokens
  BY KnownRows, NullIsNothing DEF Edit
<1>2. /\ new \in Row /\ new.active = active /\ new.cred = person[p].cred
      /\ new.must = person[p].must /\ new.lock = person[p].lock
  BY <1>1 DEF Row
<1>3. session[t].person # p \/ active
  BY DEF Edit, MayEdit
<1>4. RevokedFirst(p, active) \subseteq Drawn /\ Drawn \subseteq Tokens
  BY DEF RevokedFirst, SessionsOf, Drawn
<1>5. person[p].active /\ ~ active => SessionsOf(p) \subseteq RevokedFirst(p, active)
  BY DEF RevokedFirst
<1>6. p \notin overlapped /\ new.cred \in Issued => new.must
  BY <1>1, <1>2, KnownRows
<1>7. Fit(t, p, new, RevokedFirst(p, active), "nothing")
  <2> HIDE DEF new
  <2> QED BY <1>1, <1>2, <1>3, <1>4, <1>5, <1>6, NullIsNothing DEF Fit, Sound, Alone, OrNone, Opens
<1> QED BY <1>7, StartFit DEF Edit

LEMMA SetUpStep ==
    ASSUME Inv, NEW r \in Requests, NEW p \in People, NEW w \in Own, SetUp(r, p, w)
    PROVE  Inv'
<1>1. w \in OrNone(Own \cup Issued) /\ w # None /\ w \notin Issued /\ p # None
  BY NullIsNothing, PasswordAssumption DEF OrNone
<1>2. CASE p \in Known
  <2> DEFINE new == [person[p] EXCEPT !.role = "ADMIN", !.active = TRUE, !.cred = w, !.must = FALSE]
  <2>1. person[p] \in Row /\ person[p] # None
    BY <1>2, KnownRows, NullIsNothing
  <2>2. /\ new \in Row /\ new.role = "ADMIN" /\ new.active
        /\ new.cred = w /\ new.lock = person[p].lock
    BY <2>1, RowPromoted
  <2>3. p \notin overlapped => SessionsOf(p) = {}
    <3>1. \A t \in SessionsOf(p) : t \in Drawn /\ session[t].person = p /\ Live(t) /\ t \in Tokens
      BY DEF SessionsOf, Live, Drawn
    <3>2. ASSUME NEW t \in SessionsOf(p), p \notin overlapped
          PROVE  FALSE
      <4>1. person[p].active
        BY <3>1, <3>2 DEF Inv, InactiveHoldNoSession
      <4>2. person[p].cred # None
        BY <3>1 DEF Inv, SessionsAreOfPeople
      <4> QED BY <1>2, <4>1, <4>2 DEF SetUp, AnyoneCanSignIn
    <3> QED BY <3>2
  <2>4. Fit(None, p, new, {}, "open")
    <3> HIDE DEF new
    <3> QED BY <1>1, <2>1, <2>2, <2>3, NullIsNothing DEF Fit, Sound, Alone, OrNone, Opens
  <2> QED BY <1>2, <2>4, StartFit DEF SetUp
<1>3. CASE p \notin Known
  <2> DEFINE new == NewRow("ADMIN", w, FALSE)
  <2>1. person[p] = None
    BY <1>3 DEF Known
  <2>2. /\ new \in Row /\ new.role = "ADMIN" /\ new.active /\ new.cred = w /\ ~ new.must
    BY <1>1, RowNew
  <2>3. Fit(None, p, new, {}, "open")
    <3> HIDE DEF new
    <3> QED BY <1>1, <2>1, <2>2, NullIsNothing DEF Fit, Sound, Alone, OrNone, Opens
  <2> QED BY <1>3, <2>3, StartFit DEF SetUp
<1> QED BY <1>2, <1>3

LEMMA ChangeStep ==
    ASSUME Inv, NEW r \in Requests, NEW t \in Drawn, NEW w \in Own, Change(r, t, w)
    PROVE  Inv'
<1> DEFINE p == session[t].person
           new == SetPassword(person[p], w, FALSE)
<1>1. /\ p \in Known /\ p \in People /\ person[p] \in Row /\ person[p] # None /\ p # None
      /\ t # None /\ t \in Tokens /\ person[p].active
  BY KnownRows, NullIsNothing DEF Change, SignedIn
<1>2. w # None /\ w \notin Issued
  BY NullIsNothing, PasswordAssumption
<1>3. /\ new \in Row /\ new # None /\ new.role = person[p].role /\ new.active = person[p].active
      /\ new.cred = w /\ new.lock = person[p].lock
  BY <1>1, RowWithPassword, NullIsNothing
<1>4. Fit(t, p, new, {}, "reopen")
  <2> HIDE DEF new, p
  <2> QED BY <1>1, <1>2, <1>3 DEF Fit, Sound, Alone, OrNone, Opens
<1> QED BY <1>4, StartFit DEF Change

LEMMA ResetStep ==
    ASSUME Inv, NEW r \in Requests, NEW t \in Drawn, NEW p \in People, NEW w \in Issued,
           Reset(r, t, p, w)
    PROVE  Inv'
<1> DEFINE new == SetPassword(person[p], w, TRUE)
<1>1. p \in Known /\ person[p] \in Row /\ person[p] # None /\ p # None /\ t # None /\ t \in Tokens
  BY KnownRows, NullIsNothing DEF Reset
<1>2. /\ new \in Row /\ new.role = person[p].role /\ new.active = person[p].active
      /\ new.cred = w /\ new.must /\ new.lock = person[p].lock
  BY <1>1 DEF SetPassword, Row, OrNone
<1>3. Fit(t, p, new, {}, "revoke")
  <2> HIDE DEF new
  <2> QED BY <1>1, <1>2, NullIsNothing DEF Fit, Sound, Alone, OrNone, Opens
<1> QED BY <1>3, StartFit DEF Reset

LEMMA VisitStep ==
    ASSUME Inv, NEW r \in Requests, NEW t \in Drawn, Visit(r, t)
    PROVE  Inv'
<1>1. t # None /\ t \in Tokens
  BY NullIsNothing DEF Drawn
<1>2. Fit(t, None, None, {}, "nothing")
  BY <1>1 DEF Fit, Sound, OrNone
<1> QED BY <1>2, StartFit DEF Visit

-----------------------------------------------------------------------------
(* The end of a request *)

\* What a step does to the sessions that were drawn, whoever takes it.
Continues ==
    \A t \in Drawn : /\ t \in Drawn'
                     /\ session'[t].person = session[t].person
                     /\ session'[t].pw = session[t].pw
                     /\ session[t].revoked => session'[t].revoked

\* A commit writes one row, ends the sessions it has to, and opens at most one.
LEMMA CommitEffect ==
    ASSUME Inv, NEW r \in Requests, Commit(r)
    PROVE  LET q == req[r]
               p == q.target
           IN /\ session' \in [Tokens -> OrNone(Session)]
              /\ person' \in [People -> OrNone(Row)]
              /\ \A x \in People : x # p => person'[x] = person[x]
              /\ p # None => /\ p \in People /\ person'[p] \in Row
                             /\ person'[p] = IF q.was = None THEN q.new ELSE Written(q)
                             /\ q.new \in Row
                             /\ q.was = None => person[p] = None
                             /\ q.was # None => q.was \in Row /\ person[p] \in Row
              /\ Continues
              /\ \A t \in Drawn : t \in Ended(q) => session'[t].revoked
              /\ \A t \in Drawn' \ Drawn :
                    /\ Opens(q) /\ p # None
                    /\ session'[t] = [person |-> p, pw |-> q.new.cred, revoked |-> FALSE]
<1> DEFINE q == req[r]
           p == q.target
<1>1. /\ q \in Request /\ q.token \in OrNone(Tokens) /\ p \in OrNone(People)
      /\ q.was \in OrNone(Row) /\ q.new \in OrNone(Row) /\ Sound(q) /\ TypeOK
  BY RequestFields DEF Inv, RequestsAreSound
<1>2. p # None => /\ p \in People /\ q.new \in Row
                  /\ q.was = None => person[p] = None
                  /\ q.was # None => q.was \in Row /\ person[p] \in Row
  BY <1>1, NullIsNothing DEF Commit, CanWrite, Sound, OrNone, TypeOK
<1>3. /\ person' \in [People -> OrNone(Row)]
      /\ \A x \in People : x # p => person'[x] = person[x]
      /\ p # None => /\ person'[p] \in Row
                     /\ person'[p] = IF q.was = None THEN q.new ELSE Written(q)
  <2>1. CASE p = None
    BY <1>1, <2>1 DEF Commit, TypeOK
  <2>2. CASE p # None
    <3> DEFINE row == IF q.was = None THEN q.new ELSE Written(q)
    <3>1. row \in Row
      BY <1>2, <2>2, WrittenIsRow
    <3>2. person' = [person EXCEPT ![p] = row]
      BY <2>2 DEF Commit
    <3> QED BY <1>1, <1>2, <2>2, <3>1, <3>2 DEF TypeOK, OrNone
  <2> QED BY <2>1, <2>2
<1>4. PICK drawn \in SUBSET Unused : /\ session' = SessionsAfter(q, drawn)
                                     /\ drawn # {} => Opens(q)
  <2>1. CASE Opens(q)
    <3>1. PICK t \in Unused : session' = SessionsAfter(q, {t})
      BY <2>1 DEF Commit
    <3> QED BY <2>1, <3>1
  <2>2. CASE ~ Opens(q)
    BY <2>2 DEF Commit
  <2> QED BY <2>1, <2>2
<1>5. Ended(q) \subseteq Drawn /\ Drawn \cap drawn = {} /\ Drawn \subseteq Tokens /\ drawn \subseteq Tokens
  BY <1>1, <1>4 DEF Ended, SessionsOf, Sound, Drawn, Unused
<1>6. \A t \in Drawn : session[t] \in Session
  BY <1>1 DEF Drawn, TypeOK, OrNone
<1>7. ASSUME NEW t \in Drawn
      PROVE  /\ session'[t] \in Session
             /\ session'[t].person = session[t].person
             /\ session'[t].pw = session[t].pw
             /\ session[t].revoked => session'[t].revoked
             /\ t \in Ended(q) => session'[t].revoked
  <2>1. session'[t] = IF t \in Ended(q) THEN [session[t] EXCEPT !.revoked = TRUE] ELSE session[t]
    BY <1>4, <1>5 DEF SessionsAfter, Slid
  <2> QED BY <1>6, <2>1 DEF Session
<1>8. ASSUME NEW t \in drawn
      PROVE  /\ session'[t] = [person |-> p, pw |-> q.new.cred, revoked |-> FALSE]
             /\ session'[t] \in Session /\ Opens(q) /\ p # None
  <2>1. session'[t] = [person |-> p, pw |-> q.new.cred, revoked |-> FALSE]
    <3>1. t # q.token
      BY <1>1, <1>5, NullIsNothing DEF Sound
    <3> QED BY <1>4, <1>5, <3>1 DEF SessionsAfter
  <2>2. Opens(q) /\ p # None /\ q.new.cred # None
    BY <1>1, <1>4 DEF Sound, Opens
  <2>3. q.new.cred \in Own \cup Issued
    BY <1>2, <2>2, RowFields DEF OrNone
  <2> QED BY <1>2, <2>1, <2>2, <2>3 DEF Session
<1>9. \A t \in Tokens : t \notin Drawn /\ t \notin drawn => session'[t] = None
  <2> SUFFICES ASSUME NEW t \in Tokens, t \notin Drawn, t \notin drawn
               PROVE  session'[t] = None
    OBVIOUS
  <2>1. session[t] = None
    BY DEF Drawn
  <2>2. t \notin Ended(q)
    BY <1>5
  <2> QED BY <1>4, <2>1, <2>2 DEF SessionsAfter, Slid
<1>10. session' \in [Tokens -> OrNone(Session)]
  <2>1. \A t \in Tokens : session'[t] \in OrNone(Session)
    BY <1>7, <1>8, <1>9 DEF OrNone
  <2>2. session' = [t \in Tokens |-> session'[t]]
    BY <1>4 DEF SessionsAfter
  <2> QED BY <2>1, <2>2
<1>11. Continues
  BY <1>5, <1>7, NullIsNothing DEF Continues, Drawn
<1>12. Drawn' \ Drawn \subseteq drawn
  BY <1>9 DEF Drawn
<1> QED BY <1>2, <1>3, <1>7, <1>8, <1>10, <1>11, <1>12

LEMMA CommitStep ==
    ASSUME Inv, NEW r \in Requests, Commit(r)
    PROVE  Inv'
<1> DEFINE q == req[r]
           p == q.target
<1>1. /\ session' \in [Tokens -> OrNone(Session)]
      /\ person' \in [People -> OrNone(Row)]
      /\ \A x \in People : x # p => person'[x] = person[x]
      /\ p # None => /\ p \in People /\ person'[p] \in Row
                     /\ person'[p] = IF q.was = None THEN q.new ELSE Written(q)
                     /\ q.new \in Row
                     /\ q.was = None => person[p] = None
                     /\ q.was # None => q.was \in Row /\ person[p] \in Row
      /\ Continues
      /\ \A t \in Drawn : t \in Ended(q) => session'[t].revoked
      /\ \A t \in Drawn' \ Drawn :
            /\ Opens(q) /\ p # None
            /\ session'[t] = [person |-> p, pw |-> q.new.cred, revoked |-> FALSE]
  BY CommitEffect
<1>2. /\ req' = [req EXCEPT ![r] = Idle] /\ overlapped' = overlapped
      /\ TypeOK /\ Sound(q)
  BY DEF Commit, Inv, RequestsAreSound, TypeOK
<1>3. req'[r] = Idle /\ \A s \in Requests : s # r => req'[s] = req[s]
  BY <1>2 DEF TypeOK
\* The row of p, column by column.
<1>4. ASSUME p # None, q.was # None
      PROVE  LET old == person[p] IN
             /\ person'[p].role = IF q.new.role # q.was.role THEN q.new.role ELSE old.role
             /\ person'[p].active = IF q.new.active # q.was.active THEN q.new.active ELSE old.active
             /\ person'[p].cred = IF q.new.cred # q.was.cred THEN q.new.cred ELSE old.cred
             /\ person'[p].must = IF q.new.must # q.was.must THEN q.new.must ELSE old.must
             /\ person'[p].lock = IF q.new.lock # q.was.lock THEN q.new.lock ELSE old.lock
  BY <1>1, <1>4, WrittenIsRow
<1>0. ASSUME p # None, q.was = None
      PROVE  person'[p] = q.new /\ q.new # None /\ person[p] = None /\ p \in People
  BY <1>0, <1>1, NullIsNothing
\* Unless they met somebody, what is written is what was meant.
<1>5. ASSUME p # None, p \notin overlapped
      PROVE  /\ Alone(q)
             /\ person'[p].cred = q.new.cred /\ person'[p].active = q.new.active
             /\ person'[p].must = q.new.must
  <2>1. Alone(q)
    BY <1>5 DEF Inv, RequestsAreAlone
  <2>2. CASE q.was = None
    BY <1>1, <1>5, <2>1, <2>2
  <2>3. CASE q.was # None
    BY <1>4, <1>5, <2>1, <2>3 DEF Alone
  <2> QED BY <2>1, <2>2, <2>3
<1>6. TypeOK'
  <2>1. req' \in [Requests -> Request]
    BY <1>2, IdleIsSound DEF TypeOK
  <2>2. \A s \in Requests : req'[s].target # None => req'[s].new # None
    BY <1>2, <1>3, IdleIsSound DEF TypeOK
  <2> QED BY <1>1, <1>2, <2>1, <2>2 DEF TypeOK
<1>7. \A x \in People : /\ person[x] # None => person'[x] # None
                        /\ person[x] # None /\ person[x].cred # None => person'[x].cred # None
  <2>1. p # None => person'[p] # None
    BY <1>1, NullIsNothing
  <2>2. ASSUME p # None, person[p] # None, person[p].cred # None
        PROVE  person'[p].cred # None
    <3>1. q.was # None
      BY <1>0, <2>2
    <3>2. q.was.cred # None => q.new.cred # None
      BY <1>2, <2>2, <3>1 DEF Sound
    <3> QED BY <1>4, <2>2, <3>1, <3>2
  <2>3. ASSUME NEW x \in People
        PROVE  /\ person[x] # None => person'[x] # None
               /\ person[x] # None /\ person[x].cred # None => person'[x].cred # None
    <3>1. CASE x = p
      BY <2>1, <2>2, <3>1, NullIsNothing
    <3>2. CASE x # p
      BY <1>1, <3>2
    <3> QED BY <3>1, <3>2
  <2> QED BY <2>3
<1>8. \A t \in Drawn : session[t].person \in People
  BY <1>2 DEF TypeOK, Drawn, OrNone, Session
<1>9. SessionsAreOfPeople'
  <2>1. ASSUME NEW t \in Drawn
        PROVE  /\ person'[session'[t].person] # None
               /\ person'[session'[t].person].cred # None
    BY <1>1, <1>7, <1>8 DEF Continues, Inv, SessionsAreOfPeople
  <2>2. ASSUME NEW t \in Drawn' \ Drawn
        PROVE  /\ person'[session'[t].person] # None
               /\ person'[session'[t].person].cred # None
    <3>1. p # None /\ session'[t].person = p /\ q.new.cred # None
      BY <1>1, <1>2 DEF Sound
    <3>2. CASE q.was = None
      BY <1>0, <3>1, <3>2
    <3>3. CASE q.was # None
      <4>1. q.was.cred # q.new.cred => person'[p].cred = q.new.cred
        BY <1>4, <3>1, <3>3
      <4>2. q.was.cred = q.new.cred => person'[p].cred = person[p].cred /\ person[p].cred # None
        BY <1>2, <1>4, <3>1, <3>3 DEF Sound
      <4>3. person'[p] # None
        BY <1>1, <3>1, NullIsNothing
      <4> QED BY <3>1, <4>1, <4>2, <4>3
    <3> QED BY <3>1, <3>2, <3>3
  <2> QED BY <2>1, <2>2 DEF SessionsAreOfPeople
<1>10. OverlapsAreSeen'
  BY <1>2, <1>3, IdleIsSound DEF Inv, OverlapsAreSeen
<1>11. RequestsAreSound'
  <2>1. ASSUME NEW s \in Requests, s # r
        PROVE  Sound(req[s])'
    <3>1. Sound(req[s]) /\ req'[s] = req[s] /\ req[s].target \in OrNone(People)
      BY <1>2, <1>3, <2>1, RequestFields DEF Inv, RequestsAreSound
    <3> QED BY <1>1, <1>2, <1>7, <3>1 DEF Sound, Opens, Continues, OrNone
  <2>2. Sound(req[r])'
    BY <1>3 DEF Idle, Sound, Opens
  <2> QED BY <2>1, <2>2 DEF RequestsAreSound
<1>12. ASSUME NEW x \in People, x # p
       PROVE  SessionsOf(x)' \subseteq SessionsOf(x)
  BY <1>1, <1>12 DEF SessionsOf, Continues
<1>13. RequestsAreAlone'
  <2>1. ASSUME NEW s \in Requests, s # r, req[s].target # None, req[s].target \notin overlapped
        PROVE  Alone(req[s])'
    <3>1. Alone(req[s]) /\ req'[s] = req[s] /\ req[s].target \in People
      BY <1>3, <2>1, RequestFields DEF Inv, RequestsAreAlone, OrNone
    <3>2. req[s].target # p
      BY <2>1 DEF Inv, OverlapsAreSeen
    <3> QED BY <1>1, <1>12, <3>1, <3>2 DEF Alone, Opens
  <2> QED BY <1>2, <1>3, <2>1, IdleIsSound DEF RequestsAreAlone
<1>14. SessionsFollowPassword'
  <2>1. ASSUME NEW t \in Tokens, Live(t)', session'[t].person \notin overlapped'
        PROVE  session'[t].pw = person'[session'[t].person].cred
    <3>1. CASE t \notin Drawn
      <4>1. /\ p # None /\ session'[t] = [person |-> p, pw |-> q.new.cred, revoked |-> FALSE]
        BY <1>1, <2>1, <3>1 DEF Live
      <4> QED BY <1>2, <1>5, <2>1, <4>1
    <3>2. CASE t \in Drawn
      <4>1. /\ session'[t].person = session[t].person /\ session'[t].pw = session[t].pw
            /\ Live(t) /\ session[t].pw = person[session[t].person].cred
            /\ t \notin Ended(q) /\ session[t].person \notin overlapped
        BY <1>1, <1>2, <2>1, <3>2 DEF Live, Continues, Inv, SessionsFollowPassword
      <4>2. CASE session[t].person # p
        BY <1>1, <1>8, <3>2, <4>1, <4>2
      <4>3. CASE session[t].person = p
        <5>1. p \in People /\ p # None /\ t \in SessionsOf(p)
          BY <1>8, <3>2, <4>1, <4>3, NullIsNothing DEF SessionsOf, Live
        <5>2. Alone(q) /\ person'[p].cred = q.new.cred
          BY <1>5, <4>1, <4>3, <5>1
        <5>3. q.was # None
          BY <3>2, <4>3, <5>2 DEF Alone, Inv, SessionsAreOfPeople
        <5>4. q.last \notin {"revoke", "reopen"}
          BY <4>1, <5>1 DEF Ended
        <5> QED BY <4>1, <4>3, <5>1, <5>2, <5>3, <5>4 DEF Alone
      <4> QED BY <4>2, <4>3
    <3> QED BY <3>1, <3>2
  <2> QED BY <2>1 DEF SessionsFollowPassword
<1>15. InactiveHoldNoSession'
  <2>1. ASSUME NEW t \in Tokens, Live(t)', session'[t].person \notin overlapped'
        PROVE  person'[session'[t].person].active
    <3>1. CASE t \notin Drawn
      <4>1. /\ p # None /\ Opens(q) /\ session'[t].person = p
        BY <1>1, <2>1, <3>1 DEF Live
      <4> QED BY <1>2, <1>5, <2>1, <4>1 DEF Alone
    <3>2. CASE t \in Drawn
      <4>1. /\ session'[t].person = session[t].person
            /\ Live(t) /\ person[session[t].person].active
            /\ t \notin Ended(q) /\ session[t].person \notin overlapped
        BY <1>1, <1>2, <2>1, <3>2 DEF Live, Continues, Inv, InactiveHoldNoSession
      <4>2. CASE session[t].person # p
        BY <1>1, <1>8, <3>2, <4>1, <4>2
      <4>3. CASE session[t].person = p
        <5>1. p \in People /\ p # None /\ t \in SessionsOf(p) /\ t \notin q.cut
          BY <1>8, <3>2, <4>1, <4>3, NullIsNothing DEF SessionsOf, Live, Ended
        <5>2. Alone(q) /\ person'[p].active = q.new.active
          BY <1>5, <4>1, <4>3, <5>1
        <5>3. q.was # None
          BY <3>2, <4>3, <5>2 DEF Alone, Inv, SessionsAreOfPeople
        <5> QED BY <4>1, <4>3, <5>1, <5>2, <5>3 DEF Alone
      <4> QED BY <4>2, <4>3
    <3> QED BY <3>1, <3>2
  <2> QED BY <2>1 DEF InactiveHoldNoSession
<1>16. IssuedMustBeChanged'
  <2>1. ASSUME NEW x \in People, person'[x] # None, x \notin overlapped, person'[x].cred \in Issued
        PROVE  person'[x].must
    <3>1. CASE x # p
      BY <1>1, <2>1, <3>1 DEF Inv, IssuedMustBeChanged, Known
    <3>2. CASE x = p
      <4>1. p # None
        BY <3>2, NullIsNothing
      <4> QED BY <1>5, <2>1, <3>2, <4>1 DEF Alone
    <3> QED BY <3>1, <3>2
  <2> QED BY <1>2, <2>1 DEF IssuedMustBeChanged, Known
<1> QED BY <1>6, <1>9, <1>10, <1>11, <1>13, <1>14, <1>15, <1>16 DEF Inv

-----------------------------------------------------------------------------
(* Everything else *)

LEMMA AbortStep ==
    ASSUME Inv, NEW r \in Requests, Abort(r)
    PROVE  Inv'
<1>1. /\ req' = [req EXCEPT ![r] = Idle] /\ person' = person /\ session' = session
      /\ overlapped' = overlapped /\ TypeOK
  BY DEF Abort, Inv
<1>2. req'[r] = Idle /\ \A s \in Requests : s # r => req'[s] = req[s]
  BY <1>1 DEF TypeOK
<1>3. TypeOK'
  <2>1. req' \in [Requests -> Request]
    BY <1>1, IdleIsSound DEF TypeOK
  <2>2. \A s \in Requests : req'[s].target # None => req'[s].new # None
    BY <1>1, <1>2, IdleIsSound DEF TypeOK
  <2> QED BY <1>1, <2>1, <2>2 DEF TypeOK
<1>4. /\ SessionsAreOfPeople' /\ SessionsFollowPassword' /\ InactiveHoldNoSession'
      /\ IssuedMustBeChanged'
  BY <1>1 DEF Inv, SessionsAreOfPeople, SessionsFollowPassword, InactiveHoldNoSession,
     IssuedMustBeChanged, Known, Drawn, Live
<1>5. OverlapsAreSeen'
  BY <1>1, <1>2, IdleIsSound DEF Inv, OverlapsAreSeen
<1>6. Drawn' = Drawn /\ \A x \in People : SessionsOf(x)' = SessionsOf(x)
  BY <1>1 DEF Drawn, SessionsOf
<1>7. RequestsAreSound'
  <2>1. Sound(req[r])'
    BY <1>2 DEF Idle, Sound, Opens
  <2>2. ASSUME NEW s \in Requests, s # r
        PROVE  Sound(req[s])'
    <3>1. Sound(req[s]) /\ req'[s] = req[s]
      BY <1>2, <2>2 DEF Inv, RequestsAreSound
    <3> QED BY <1>1, <1>6, <3>1 DEF Sound, Opens
  <2> QED BY <2>1, <2>2 DEF RequestsAreSound
<1>8. RequestsAreAlone'
  <2>1. ASSUME NEW s \in Requests, s # r, req[s].target # None, req[s].target \notin overlapped
        PROVE  Alone(req[s])'
    <3>1. Alone(req[s]) /\ req'[s] = req[s] /\ req[s].target \in People
      BY <1>1, <1>2, <2>1, RequestFields DEF Inv, RequestsAreAlone, OrNone
    <3> QED BY <1>1, <1>6, <3>1 DEF Alone, Opens
  <2> QED BY <1>1, <1>2, <2>1, IdleIsSound DEF RequestsAreAlone
<1> QED BY <1>3, <1>4, <1>5, <1>7, <1>8 DEF Inv

\* Sessions are ended, and nothing else happens.
LEMMA RevokeStep ==
    ASSUME Inv, NEW S \in SUBSET Drawn, Revoke(S),
           person' = person, req' = req, overlapped' = overlapped
    PROVE  Inv' /\ Continues
<1>1. TypeOK
  BY DEF Inv
<1>2. ASSUME NEW t \in Drawn
      PROVE  /\ session'[t] \in Session
             /\ session'[t].person = session[t].person
             /\ session'[t].pw = session[t].pw
             /\ session[t].revoked => session'[t].revoked
  <2>1. session[t] \in Session /\ t \in Tokens
    BY <1>1 DEF TypeOK, OrNone, Drawn
  <2>2. session'[t] = IF t \in S THEN [session[t] EXCEPT !.revoked = TRUE] ELSE session[t]
    BY <2>1 DEF Revoke
  <2> QED BY <2>1, <2>2 DEF Session
<1>3. ASSUME NEW t \in Tokens, t \notin Drawn
      PROVE  session'[t] = None
  BY <1>3 DEF Revoke, Drawn
<1>4. session' \in [Tokens -> OrNone(Session)]
  <2>1. \A t \in Tokens : session'[t] \in OrNone(Session)
    BY <1>2, <1>3 DEF OrNone
  <2>2. session' = [t \in Tokens |-> session'[t]]
    BY DEF Revoke
  <2> QED BY <2>1, <2>2
<1>5. Drawn' = Drawn
  BY <1>2, <1>3, NullIsNothing DEF Drawn
<1>6. Continues
  BY <1>2, <1>5 DEF Continues
<1>7. \A x \in People : SessionsOf(x)' \subseteq SessionsOf(x)
  BY <1>2, <1>5 DEF SessionsOf
<1>8. \A t \in Tokens : Live(t)' => Live(t)
  BY <1>2, <1>5 DEF Live
<1>9. TypeOK'
  BY <1>1, <1>4 DEF TypeOK
<1>10. SessionsAreOfPeople'
  BY <1>2, <1>5 DEF Inv, SessionsAreOfPeople
<1>11. SessionsFollowPassword' /\ InactiveHoldNoSession'
  <2>1. \A t \in Tokens : Live(t)' => /\ session'[t].person = session[t].person
                                      /\ session'[t].pw = session[t].pw
    BY <1>2, <1>5 DEF Live
  <2> QED BY <1>8, <2>1 DEF Inv, SessionsFollowPassword, InactiveHoldNoSession
<1>12. IssuedMustBeChanged' /\ OverlapsAreSeen'
  BY DEF Inv, IssuedMustBeChanged, OverlapsAreSeen, Known
<1>13. RequestsAreSound'
  <2>1. ASSUME NEW s \in Requests
        PROVE  Sound(req[s])'
    <3>1. Sound(req[s])
      BY DEF Inv, RequestsAreSound
    <3> QED BY <1>5, <1>6, <3>1 DEF Sound, Opens, Continues
  <2> QED BY <2>1 DEF RequestsAreSound
<1>14. RequestsAreAlone'
  <2>1. ASSUME NEW s \in Requests, req[s].target # None, req[s].target \notin overlapped
        PROVE  Alone(req[s])'
    <3>1. Alone(req[s]) /\ req[s].target \in People
      BY <1>1, <2>1, RequestFields DEF Inv, RequestsAreAlone, OrNone
    <3> QED BY <1>7, <3>1 DEF Alone, Opens
  <2> QED BY <2>1 DEF RequestsAreAlone
<1> QED BY <1>6, <1>9, <1>10, <1>11, <1>12, <1>13, <1>14 DEF Inv

LEMMA LockRunsOutStep ==
    ASSUME Inv, NEW p \in People, LockRunsOut(p)
    PROVE  Inv'
<1>1. /\ session' = session /\ req' = req /\ overlapped' = overlapped /\ TypeOK
      /\ \A x \in People : x # p => person'[x] = person[x]
  BY DEF LockRunsOut, Inv, TypeOK
<1>2. person[p] \in Row /\ person[p].lock = "running"
  BY KnownRows DEF LockRunsOut
<1>3. person'[p] = [person[p] EXCEPT !.lock = "over"]
  BY <1>1 DEF LockRunsOut, TypeOK
<1>4. /\ person'[p] \in Row /\ person'[p].lock = "over"
      /\ person'[p].role = person[p].role /\ person'[p].active = person[p].active
      /\ person'[p].cred = person[p].cred /\ person'[p].must = person[p].must
  BY <1>2, <1>3 DEF Row
<1>5. person' \in [People -> OrNone(Row)]
  BY <1>1, <1>4 DEF LockRunsOut, TypeOK, OrNone
<1>6. ASSUME NEW x \in People
      PROVE  /\ person'[x] = None <=> person[x] = None
             /\ person'[x].role = person[x].role /\ person'[x].active = person[x].active
             /\ person'[x].cred = person[x].cred /\ person'[x].must = person[x].must
             /\ \/ person'[x].lock = person[x].lock
                \/ person[x].lock = "running" /\ person'[x].lock = "over"
  <2>1. CASE x = p
    <3>1. person'[p] # None /\ person[p] # None
      BY <1>2, <1>4, NullIsNothing
    <3> QED BY <1>2, <1>4, <2>1, <3>1
  <2>2. CASE x # p
    BY <1>1, <2>2
  <2> QED BY <2>1, <2>2
<1>7. TypeOK'
  BY <1>1, <1>5 DEF TypeOK
<1>8. Drawn' = Drawn /\ Drawn \subseteq Tokens /\ \A t \in Drawn : session[t].person \in People
  BY <1>1 DEF TypeOK, Drawn, OrNone, Session
<1>9. SessionsAreOfPeople'
  BY <1>1, <1>6, <1>8 DEF Inv, SessionsAreOfPeople
<1>10. SessionsFollowPassword' /\ InactiveHoldNoSession'
  BY <1>1, <1>6, <1>8 DEF Inv, SessionsFollowPassword, InactiveHoldNoSession, Live
<1>11. IssuedMustBeChanged' /\ OverlapsAreSeen'
  BY <1>1, <1>6 DEF Inv, IssuedMustBeChanged, OverlapsAreSeen, Known
<1>12. RequestsAreSound'
  <2>1. ASSUME NEW s \in Requests
        PROVE  Sound(req[s])'
    <3>1. Sound(req[s]) /\ req[s].target \in OrNone(People)
      BY <1>1, RequestFields DEF Inv, RequestsAreSound
    <3> QED BY <1>1, <1>6, <1>8, <3>1 DEF Sound, Opens, OrNone
  <2> QED BY <2>1 DEF RequestsAreSound
<1>13. RequestsAreAlone'
  <2>1. ASSUME NEW s \in Requests, req[s].target # None, req[s].target \notin overlapped
        PROVE  Alone(req[s])'
    <3>1. Alone(req[s]) /\ req[s].target \in People
      BY <1>1, <2>1, RequestFields DEF Inv, RequestsAreAlone, OrNone
    <3>2. SessionsOf(req[s].target)' = SessionsOf(req[s].target)
      BY <1>1 DEF SessionsOf, Drawn
    <3> QED BY <1>1, <1>6, <3>1, <3>2 DEF Alone, Opens
  <2> QED BY <1>1, <2>1 DEF RequestsAreAlone
<1> QED BY <1>7, <1>9, <1>10, <1>11, <1>12, <1>13 DEF Inv

-----------------------------------------------------------------------------
(* The invariant *)

LEMMA InitInv == Init => Inv
<1> SUFFICES ASSUME Init
             PROVE  Inv
  OBVIOUS
<1>1. Drawn = {} /\ Known = {} /\ \A t \in Tokens : ~ Live(t)
  BY DEF Init, Drawn, Known, Live
<1>2. TypeOK
  BY IdleIsSound DEF Init, TypeOK, OrNone
<1>3. RequestsAreSound /\ RequestsAreAlone /\ OverlapsAreSeen
  BY IdleIsSound DEF Init, RequestsAreSound, RequestsAreAlone, OverlapsAreSeen
<1> QED BY <1>1, <1>2, <1>3 DEF Inv, SessionsAreOfPeople, SessionsFollowPassword,
           InactiveHoldNoSession, IssuedMustBeChanged

LEMMA ManageStep ==
    ASSUME Inv, NEW r \in Requests, NEW t \in Drawn, NEW p \in People, Manage(r, t, p)
    PROVE  Inv'
BY AddStep, EditStep, ResetStep, UnlockStep, ForceChangeStep DEF Manage

LEMMA LogOutStep ==
    ASSUME Inv, NEW t \in Drawn, LogOut(t)
    PROVE  Inv'
<1>1. {t} \in SUBSET Drawn
  OBVIOUS
<1> QED BY <1>1, RevokeStep DEF LogOut

LEMMA SignOutEverywhereStep ==
    ASSUME Inv, NEW t \in Drawn, NEW p \in People, SignOutEverywhere(t, p)
    PROVE  Inv'
<1>1. SessionsOf(p) \in SUBSET Drawn
  BY DEF SessionsOf
<1> QED BY <1>1, RevokeStep DEF SignOutEverywhere

LEMMA NextInv == Inv /\ [Next]_vars => Inv'
<1> SUFFICES ASSUME Inv, [Next]_vars
             PROVE  Inv'
  OBVIOUS
<1>1. CASE UNCHANGED vars
  BY <1>1 DEF vars, Inv, TypeOK, SessionsAreOfPeople, OverlapsAreSeen, RequestsAreSound,
     RequestsAreAlone, SessionsFollowPassword, InactiveHoldNoSession, IssuedMustBeChanged,
     Sound, Alone, Opens, Live, Drawn, Known, SessionsOf
<1>2. ASSUME NEW r \in Requests, Commit(r) \/ Abort(r)
      PROVE  Inv'
  BY <1>2, CommitStep, AbortStep
<1>3. ASSUME NEW r \in Requests, NEW p \in People,
             SignIn(r, p) \/ \E w \in Own : SetUp(r, p, w)
      PROVE  Inv'
  BY <1>3, SignInStep, SetUpStep
<1>4. ASSUME NEW r \in Requests, NEW t \in Drawn,
             \/ Visit(r, t)
             \/ \E w \in Own : Change(r, t, w)
             \/ \E p \in People : Manage(r, t, p)
      PROVE  Inv'
  BY <1>4, VisitStep, ChangeStep, ManageStep
<1>5. ASSUME NEW t \in Drawn, LogOut(t) \/ \E p \in People : SignOutEverywhere(t, p)
      PROVE  Inv'
  BY <1>5, LogOutStep, SignOutEverywhereStep
<1>6. ASSUME NEW p \in People, LockRunsOut(p)
      PROVE  Inv'
  BY <1>6, LockRunsOutStep
<1> QED BY <1>1, <1>2, <1>3, <1>4, <1>5, <1>6 DEF Next

LEMMA SpecInv == Spec => []Inv
BY InitInv, NextInv, PTL DEF Spec

-----------------------------------------------------------------------------
(* Theorems *)

\* The columns, sessions and requests have their types (auth.py, migration 004).
THEOREM Typing == Spec => []TypeOK
<1>1. Inv => TypeOK
  BY DEF Inv
<1> QED BY <1>1, SpecInv, PTL

\* A live session was opened with the password its person has, as long as no
\* two requests about the person overlapped (do_change_password,
\* do_reset_password, revoke_all_for).
THEOREM PasswordsEndSessions == Spec => []SessionsFollowPassword
<1>1. Inv => SessionsFollowPassword
  BY DEF Inv
<1> QED BY <1>1, SpecInv, PTL

\* Who was deactivated has no live session, under the same condition
\* (do_edit_person).
THEOREM DeactivationEndsSessions == Spec => []InactiveHoldNoSession
<1>1. Inv => InactiveHoldNoSession
  BY DEF Inv
<1> QED BY <1>1, SpecInv, PTL

\* A password that somebody else chose has to be changed, under the same
\* condition (do_add_person, do_reset_password).
THEOREM IssuedPasswordsExpire == Spec => []IssuedMustBeChanged
<1>1. Inv => IssuedMustBeChanged
  BY DEF Inv
<1> QED BY <1>1, SpecInv, PTL

\* What any step leaves of people and sessions.
LEMMA Shapes ==
    ASSUME Next
    PROVE  \/ \E r \in Requests : Commit(r)
           \/ \E p \in People : LockRunsOut(p)
           \/ person' = person /\ session' = session
           \/ /\ person' = person
              /\ \E S \in SUBSET Drawn :
                    Revoke(S) /\ req' = req /\ overlapped' = overlapped
<1>1. ASSUME NEW t \in Drawn, LogOut(t) \/ \E p \in People : SignOutEverywhere(t, p)
      PROVE  /\ person' = person
             /\ \E S \in SUBSET Drawn :
                   Revoke(S) /\ req' = req /\ overlapped' = overlapped
  <2>1. {t} \in SUBSET Drawn /\ \A p \in People : SessionsOf(p) \in SUBSET Drawn
    BY DEF SessionsOf
  <2> QED BY <1>1, <2>1 DEF LogOut, SignOutEverywhere
<1>2. ASSUME NEW r \in Requests, NEW p \in People,
             SignIn(r, p) \/ \E w \in Own : SetUp(r, p, w)
      PROVE  person' = person /\ session' = session
  BY <1>2 DEF SignIn, SetUp, Start
<1>3. ASSUME NEW r \in Requests, NEW t \in Drawn,
             \/ Visit(r, t)
             \/ \E w \in Own : Change(r, t, w)
             \/ \E p \in People : Manage(r, t, p)
      PROVE  person' = person /\ session' = session
  <2>1. ASSUME NEW p \in People, Manage(r, t, p)
        PROVE  person' = person /\ session' = session
    BY <2>1 DEF Manage, Add, Edit, Reset, Unlock, ForceChange, Start
  <2> QED BY <1>3, <2>1 DEF Visit, Change, Start
<1>4. ASSUME NEW r \in Requests, Abort(r)
      PROVE  person' = person /\ session' = session
  BY <1>4 DEF Abort
<1> QED BY <1>1, <1>2, <1>3, <1>4 DEF Next

\* A revoked session stays revoked (person_for_token, revoke_session).
THEOREM RevocationIsFinal == Spec => RevokedIsFinal
<1>1. ASSUME Inv, [Next]_vars
      PROVE  [\A t \in Drawn : session[t].revoked => session[t]'.revoked]_vars
  <2>1. ASSUME session' = session
        PROVE  \A t \in Drawn : session[t].revoked => session[t]'.revoked
    BY <2>1
  <2>2. ASSUME Continues
        PROVE  \A t \in Drawn : session[t].revoked => session[t]'.revoked
    BY <2>2 DEF Continues
  <2>3. ASSUME NEW r \in Requests, Commit(r)
        PROVE  Continues
    BY <1>1, <2>3, CommitEffect
  <2>4. ASSUME NEW p \in People, LockRunsOut(p)
        PROVE  session' = session
    BY <2>4 DEF LockRunsOut
  <2>5. ASSUME NEW S \in SUBSET Drawn, Revoke(S), person' = person,
               req' = req, overlapped' = overlapped
        PROVE  Continues
    BY <1>1, <2>5, RevokeStep
  <2> QED BY <1>1, <2>1, <2>2, <2>3, <2>4, <2>5, Shapes DEF vars
<1> QED BY <1>1, SpecInv, PTL DEF Spec, RevokedIsFinal

\* A running lock goes only by time, by the commit of a request that has a
\* session, or by that of a sign-in which had found an older lock to be over
\* (do_login, do_setup, do_unlock): never by one that saw it running.
THEOREM LocksLiftTwoWays == Spec => LockLifts
<1> DEFINE A == \A p \in Known : person[p].lock = "running" /\ person[p]'.lock = "none" =>
                    \E r \in Requests :
                        /\ LiftsLock(req[r], p) /\ req'[r] = Idle
                        /\ req[r].token # None \/ req[r].was.lock = "over"
<1>1. ASSUME Inv, [Next]_vars
      PROVE  [A]_vars
  <2>1. ASSUME person' = person
        PROVE  A
    BY <2>1
  <2>2. ASSUME NEW p \in People, LockRunsOut(p)
        PROVE  A
    <3>1. \A x \in Known : x # p => person'[x] = person[x]
      BY <1>1, <2>2 DEF LockRunsOut, Inv, TypeOK, Known
    <3>2. person[p] \in Row /\ person' = [person EXCEPT ![p].lock = "over"]
      BY <1>1, <2>2, KnownRows DEF LockRunsOut
    <3>3. person'[p].lock = "over"
      BY <1>1, <3>2 DEF Inv, TypeOK, Row
    <3> QED BY <3>1, <3>3
  <2>3. ASSUME NEW r \in Requests, Commit(r)
        PROVE  A
    <3> SUFFICES ASSUME NEW p \in Known, person[p].lock = "running", person'[p].lock = "none"
                 PROVE  /\ LiftsLock(req[r], p) /\ req'[r] = Idle
                        /\ req[r].token # None \/ req[r].was.lock = "over"
      OBVIOUS
    <3>1. p \in People /\ person[p] # None /\ p # None
      BY NullIsNothing DEF Known
    <3>2. req[r].target = p /\ req'[r] = Idle
      BY <1>1, <2>3, <3>1, CommitEffect DEF Commit, Inv, TypeOK
    <3>3. /\ req[r].was # None /\ req[r].was \in Row /\ req[r].new \in Row /\ person[p] \in Row
          /\ person'[p] = Written(req[r])
      BY <1>1, <2>3, <3>1, <3>2, CommitEffect
    <3>4. person'[p].lock = IF req[r].new.lock # req[r].was.lock THEN req[r].new.lock
                            ELSE person[p].lock
      BY <3>2, <3>3, WrittenIsRow
    <3>5. req[r].new.lock = "none" /\ req[r].was.lock \in {"running", "over"}
      BY <3>3, <3>4, RowFields
    <3>6. req[r].token = None => req[r].was.lock # "running"
      BY <1>1, <3>1, <3>2, <3>3, <3>5 DEF Inv, RequestsAreSound, Sound
    <3> QED BY <3>2, <3>3, <3>5, <3>6 DEF LiftsLock
  <2> QED BY <1>1, <2>1, <2>2, <2>3, Shapes DEF vars
<1> QED BY <1>1, SpecInv, PTL DEF Spec, LockLifts

\* What a commit leaves of an administrator's role, unless it deals with
\* somebody else, or the administrator gives it up.
LEMMA OwnWritesKeepRoles ==
    ASSUME Inv, NEW r \in Requests, Commit(r), ~ Managing(req[r]), ~ StepsDown(req[r]),
           NEW a \in People, Administers(a)
    PROVE  Administers(a)'
<1> DEFINE q == req[r]
           p == q.target
<1>1. a \in People /\ person[a] # None /\ person[a].active /\ person[a].role = "ADMIN"
  BY DEF Administers, Known
<1>2. CASE a # p
  <2>1. person'[a] = person[a]
    BY <1>2, CommitEffect
  <2> QED BY <1>1, <2>1 DEF Administers, Known
<1>3. CASE a = p
  <2>1. /\ p # None /\ q.was # None /\ person'[p] = Written(q)
        /\ q.was \in Row /\ q.new \in Row /\ person[p] \in Row
    BY <1>1, <1>3, NullIsNothing, CommitEffect
  <2>2. q.new.active = q.was.active \/ q.new.active
    BY <1>3, <2>1 DEF Inv, RequestsAreSound, Sound, Managing
  <2>3. q.new.role = q.was.role \/ q.new.role = "ADMIN"
    <3>1. CASE q.token = None
      BY <2>1, <3>1 DEF Inv, RequestsAreSound, Sound
    <3>2. CASE q.token # None
      <4>1. p = session[q.token].person
        BY <2>1, <3>2 DEF Managing
      <4>2. ~ (q.was.role = "ADMIN" /\ q.new.role # "ADMIN")
        BY <3>2, <4>1 DEF StepsDown
      <4> QED BY <2>1, <4>2, RowFields
    <3> QED BY <3>1, <3>2
  <2>4. person'[a].role = "ADMIN" /\ person'[a].active
    <3>1. /\ person'[p].role = IF q.new.role # q.was.role THEN q.new.role ELSE person[p].role
          /\ person'[p].active = IF q.new.active # q.was.active THEN q.new.active
                                 ELSE person[p].active
      BY <2>1, WrittenIsRow
    <3> QED BY <1>1, <1>3, <2>2, <2>3, <3>1
  <2>5. person'[a] # None
    BY <1>3, <2>1, CommitEffect, NullIsNothing
  <2> QED BY <1>1, <2>4, <2>5 DEF Administers, Known
<1> QED BY <1>2, <1>3

\* Who has a password keeps one.
LEMMA PasswordsStay ==
    ASSUME Inv, NEW r \in Requests, Commit(r), NEW a \in People,
           person[a] # None, person[a].cred # None
    PROVE  person'[a].cred # None
<1> DEFINE q == req[r]
<1>1. CASE a # q.target
  BY <1>1, CommitEffect
<1>2. CASE a = q.target
  <2>1. /\ q.target # None /\ q.was # None /\ person'[a] = Written(q)
        /\ q.was \in Row /\ q.new \in Row /\ person[a] \in Row
    BY <1>2, NullIsNothing, CommitEffect
  <2>2. q.was.cred # None => q.new.cred # None
    BY <2>1 DEF Inv, RequestsAreSound, Sound
  <2>3. person'[a].cred = IF q.new.cred # q.was.cred THEN q.new.cred ELSE person[a].cred
    BY <1>2, <2>1, WrittenIsRow
  <2> QED BY <2>2, <2>3
<1> QED BY <1>1, <1>2

\* Only a commit takes people or administrators away.
LEMMA PeopleStay ==
    ASSUME Inv, [Next]_vars, \A r \in Requests : ~ Commit(r)
    PROVE  Known' = Known /\ \A a \in People : CanAdminister(a)' = CanAdminister(a)
<1>1. ASSUME person' = person
      PROVE  Known' = Known /\ \A a \in People : CanAdminister(a)' = CanAdminister(a)
  BY <1>1 DEF CanAdminister, Administers, Known
<1>2. ASSUME NEW p \in People, LockRunsOut(p)
      PROVE  Known' = Known /\ \A a \in People : CanAdminister(a)' = CanAdminister(a)
  <2>1. person[p] \in Row /\ person' = [person EXCEPT ![p].lock = "over"]
    BY <1>2, KnownRows DEF LockRunsOut
  <2>2. /\ person'[p] = [person[p] EXCEPT !.lock = "over"]
        /\ \A x \in People : x # p => person'[x] = person[x]
    BY <2>1 DEF Inv, TypeOK
  <2>3. /\ person'[p] \in Row /\ person'[p].role = person[p].role
        /\ person'[p].active = person[p].active /\ person'[p].cred = person[p].cred
    BY <2>1, <2>2 DEF Row
  <2>4. ASSUME NEW a \in People
        PROVE  /\ person'[a] # None <=> person[a] # None
               /\ person'[a].role = person[a].role /\ person'[a].active = person[a].active
               /\ person'[a].cred = person[a].cred
    BY <2>1, <2>2, <2>3, NullIsNothing
  <2> QED BY <2>4 DEF CanAdminister, Administers, Known
<1> QED BY <1>1, <1>2, Shapes DEF vars

\* The last administrator goes by stepping down, or by the hand of somebody who
\* is none any more.
LEMMA LastGoes ==
    Inv /\ [Next]_vars /\ SomebodyAdministers /\ ~ SomebodyAdministers' =>
        \E r \in Requests :
            /\ req[r] # Idle /\ req'[r] = Idle
            /\ \/ StepsDown(req[r])
               \/ Managing(req[r]) /\ ~ Administers(session[req[r].token].person)
<1> SUFFICES ASSUME Inv, [Next]_vars, SomebodyAdministers, ~ SomebodyAdministers'
             PROVE  \E r \in Requests :
                       /\ req[r] # Idle /\ req'[r] = Idle
                       /\ \/ StepsDown(req[r])
                          \/ Managing(req[r]) /\ ~ Administers(session[req[r].token].person)
  OBVIOUS
<1>1. PICK x \in People : CanAdminister(x)
  BY DEF SomebodyAdministers, Known
<1>2. \A y \in People : ~ CanAdminister(y)'
  BY DEF SomebodyAdministers, CanAdminister, Administers
<1>3. PICK r \in Requests : Commit(r)
  BY <1>1, <1>2, PeopleStay
<1>4. req[r] # Idle /\ req'[r] = Idle
  BY <1>3 DEF Commit, Inv, TypeOK
<1>5. ASSUME NEW y \in People, person[y] # None, person[y].cred # None, Administers(y)'
      PROVE  FALSE
  BY <1>2, <1>3, <1>5, PasswordsStay DEF CanAdminister
<1>6. /\ person[x] # None /\ person[x].cred # None /\ Administers(x) /\ ~ Administers(x)'
  BY <1>1, <1>5 DEF CanAdminister, Administers, Known
<1>7. CASE ~ Managing(req[r])
  BY <1>3, <1>4, <1>6, <1>7, OwnWritesKeepRoles
<1>8. CASE Managing(req[r])
  <2>1. PICK actor \in People : /\ actor = session[req[r].token].person
                                /\ person[actor] # None /\ person[actor].cred # None
    BY <1>8, KnownRows DEF Managing, Inv, RequestsAreSound, Sound, Known
  <2>2. actor # req[r].target
    BY <1>8, <2>1 DEF Managing
  <2>3. ASSUME Administers(actor)
        PROVE  FALSE
    <3>1. person'[actor] = person[actor]
      BY <1>3, <2>1, <2>2, CommitEffect
    <3>2. Administers(actor)'
      BY <2>3, <3>1 DEF Administers, Known
    <3> QED BY <1>5, <2>1, <3>2
  <2> QED BY <1>4, <1>8, <2>1, <2>3
<1> QED BY <1>7, <1>8

\* The last administrator who can sign in goes in two ways only: by a request of
\* their own that gives up the role, or by that of somebody who has ceased to be an
\* administrator since (do_edit_person).
THEOREM TheLastGoesTwoWays == Spec => LastAdministratorGoes
<1>1. Inv /\ [Next]_vars =>
        [SomebodyAdministers /\ ~ SomebodyAdministers' =>
            \E r \in Requests :
                /\ req[r] # Idle /\ req'[r] = Idle
                /\ \/ StepsDown(req[r])
                   \/ Managing(req[r]) /\ ~ Administers(session[req[r].token].person)]_vars
  BY LastGoes
<1> QED BY <1>1, SpecInv, PTL DEF Spec, LastAdministratorGoes

-----------------------------------------------------------------------------
(* What one request at a time would give *)

\* Requests about one person come one after the other.
OneRequestAPerson ==
    \A r, s \in Requests : req[r].target # None /\ req[r].target = req[s].target => r = s

\* Administrators deal with others one after the other.
OneManagesAtATime ==
    \A r, s \in Requests : Managing(req[r]) /\ Managing(req[s]) => r = s

\* Who deals with somebody else is an administrator, still.
ManagersAdminister ==
    \A r \in Requests : Managing(req[r]) => Administers(session[req[r].token].person)

\* A request begins; it is about somebody else only if its session is an
\* administrator's.
Begins(r) ==
    \E token, p, new, cut, last :
        /\ Start(r, token, p, new, cut, last)
        /\ token # None /\ p # None /\ p # session[token].person =>
              Administers(session[token].person)

LEMMA StepsOf ==
    ASSUME Next
    PROVE  \/ \E r \in Requests : Commit(r) \/ Abort(r) \/ Begins(r)
           \/ \E p \in People : LockRunsOut(p)
           \/ \E S \in SUBSET Drawn :
                 Revoke(S) /\ person' = person /\ req' = req /\ overlapped' = overlapped
<1>1. ASSUME NEW t \in Drawn, LogOut(t) \/ \E p \in People : SignOutEverywhere(t, p)
      PROVE  \E S \in SUBSET Drawn :
                Revoke(S) /\ person' = person /\ req' = req /\ overlapped' = overlapped
  <2>1. {t} \in SUBSET Drawn /\ \A p \in People : SessionsOf(p) \in SUBSET Drawn
    BY DEF SessionsOf
  <2> QED BY <1>1, <2>1 DEF LogOut, SignOutEverywhere
<1>2. ASSUME NEW r \in Requests, NEW p \in People,
             SignIn(r, p) \/ \E w \in Own : SetUp(r, p, w)
      PROVE  Begins(r)
  BY <1>2 DEF SignIn, SetUp, Begins
<1>3. ASSUME NEW r \in Requests, NEW t \in Drawn,
             Visit(r, t) \/ \E w \in Own : Change(r, t, w)
      PROVE  Begins(r)
  BY <1>3 DEF Visit, Change, Begins
<1>4. ASSUME NEW r \in Requests, NEW t \in Drawn, NEW p \in People, Manage(r, t, p)
      PROVE  Begins(r)
  <2>1. Manages(t) => Administers(session[t].person)
    BY DEF Manages
  <2>2. Manages(t) /\ \E new, cut, last : Start(r, t, p, new, cut, last)
    BY <1>4 DEF Manage, Add, Edit, Reset, Unlock, ForceChange
  <2> QED BY <2>1, <2>2 DEF Begins
<1> QED BY <1>1, <1>2, <1>3, <1>4 DEF Next

\* Requests overlap only if two about one person are in flight.
LEMMA OverlapStep ==
    Inv /\ overlapped = {} /\ OneRequestAPerson' /\ [Next]_vars => (overlapped = {})'
<1> SUFFICES ASSUME Inv, overlapped = {}, OneRequestAPerson', [Next]_vars
             PROVE  overlapped' = {}
  OBVIOUS
<1>1. ASSUME NEW r \in Requests, Begins(r)
      PROVE  overlapped' = {}
  <2>1. PICK token, p, new, cut, last : Start(r, token, p, new, cut, last)
    BY <1>1 DEF Begins
  <2> SUFFICES ASSUME NEW s \in About(p)
               PROVE  FALSE
    BY <2>1 DEF Start
  <2>2. s \in Requests /\ p # None /\ req[s].target = p /\ req[r] = Idle
    BY <2>1 DEF About, Start
  <2>3. s # r
    BY <2>2, IdleIsSound
  <2>4. req'[s].target = p /\ req'[r].target = p
    BY <2>1, <2>2, <2>3 DEF Start, Inv, TypeOK
  <2> QED BY <2>2, <2>3, <2>4 DEF OneRequestAPerson
<1> QED BY <1>1, StepsOf DEF Commit, Abort, LockRunsOut, vars

\* The whole promise of a change of password: if no two requests about one
\* person are ever in flight at once, every session goes on under the password
\* it was opened with (do_change_password, do_reset_password).
THEOREM OneRequestAPersonIsEnough ==
    Spec /\ []OneRequestAPerson => []ChangeEndsOtherSessions
<1>1. Init => overlapped = {}
  BY DEF Init
<1>2. Inv /\ overlapped = {} /\ OneRequestAPerson' /\ [Next]_vars => (overlapped = {})'
  BY OverlapStep
<1>3. Inv /\ overlapped = {} => ChangeEndsOtherSessions
  BY DEF Inv, SessionsFollowPassword, ChangeEndsOtherSessions
<1> QED BY <1>1, <1>2, <1>3, SpecInv, PTL DEF Spec

\* An administrator whose request is in flight can only be changed by another
\* administrator's.
LEMMA ManagersStep ==
    Inv /\ ManagersAdminister /\ OneManagesAtATime /\ NobodyStepsDown /\ [Next]_vars
        => ManagersAdminister'
<1> SUFFICES ASSUME Inv, ManagersAdminister, OneManagesAtATime, NobodyStepsDown, [Next]_vars
             PROVE  ManagersAdminister'
  OBVIOUS
<1>1. \A s \in Requests : Managing(req[s]) =>
          /\ req[s].token \in Drawn /\ session[req[s].token].person \in People
          /\ Administers(session[req[s].token].person)
  BY KnownRows DEF Managing, ManagersAdminister, Inv, RequestsAreSound, Sound
<1>2. CASE UNCHANGED vars
  BY <1>2 DEF vars, ManagersAdminister, Managing, Administers, Known
<1>3. ASSUME NEW r \in Requests, Abort(r)
      PROVE  ManagersAdminister'
  <2>1. \A s \in Requests : req'[s] = req[s] \/ req'[s] = Idle
    BY <1>3 DEF Abort, Inv, TypeOK
  <2> QED BY <1>3, <2>1, IdleIsSound DEF Abort, ManagersAdminister, Managing, Administers, Known
<1>4. ASSUME NEW r \in Requests, Begins(r)
      PROVE  ManagersAdminister'
  <2>1. PICK token, p, new, cut, last :
           /\ Start(r, token, p, new, cut, last)
           /\ token # None /\ p # None /\ p # session[token].person =>
                 Administers(session[token].person)
    BY <1>4 DEF Begins
  <2>2. /\ person' = person /\ session' = session
        /\ req'[r].token = token /\ req'[r].target = p
        /\ \A s \in Requests : s # r => req'[s] = req[s]
    BY <2>1 DEF Start, Inv, TypeOK
  <2>3. ASSUME NEW s \in Requests, Managing(req[s])'
        PROVE  Administers(session[req'[s].token].person)
    BY <2>1, <2>2, <2>3 DEF ManagersAdminister, Managing
  <2> QED BY <2>2, <2>3 DEF ManagersAdminister, Administers, Known
<1>5. ASSUME NEW r \in Requests, Commit(r)
      PROVE  ManagersAdminister'
  <2>1. ASSUME NEW s \in Requests, Managing(req[s])'
        PROVE  Administers(session[req[s].token].person)'
    <3>1. req'[r] = Idle /\ \A u \in Requests : u # r => req'[u] = req[u]
      BY <1>5 DEF Commit, Inv, TypeOK
    <3>2. s # r /\ req'[s] = req[s] /\ req[s].token # None /\ req[s].target # None
      BY <2>1, <3>1, IdleIsSound DEF Managing
    <3>3. Continues
      BY <1>5, CommitEffect
    <3>4. req[s].token \in Drawn
      BY <3>2 DEF Inv, RequestsAreSound, Sound
    <3>5. session'[req[s].token].person = session[req[s].token].person
      BY <3>3, <3>4 DEF Continues
    <3>6. Managing(req[s])
      BY <2>1, <3>2, <3>5 DEF Managing
    <3>7. ~ Managing(req[r]) /\ ~ StepsDown(req[r])
      BY <3>2, <3>6 DEF OneManagesAtATime, NobodyStepsDown
    <3>8. Administers(session[req[s].token].person)'
      <4> DEFINE a == session[req[s].token].person
      <4>1. a \in People /\ Administers(a)
        BY <1>1, <3>6
      <4>2. Administers(session[req[s].token].person)' =
               (/\ person'[a] # None /\ a \in People /\ person'[a].active /\ person'[a].role = "ADMIN")
        BY <3>2, <3>5 DEF Administers, Known
      <4> HIDE DEF a
      <4>3. /\ person'[a] # None /\ person'[a].active /\ person'[a].role = "ADMIN"
        BY <1>5, <3>7, <4>1, OwnWritesKeepRoles DEF Administers, Known
      <4> QED BY <4>1, <4>2, <4>3
    <3> QED BY <3>8
  <2> QED BY <2>1 DEF ManagersAdminister
<1>6. ASSUME NEW p \in People, LockRunsOut(p)
      PROVE  ManagersAdminister'
  <2>1. person[p] \in Row /\ person' = [person EXCEPT ![p].lock = "over"]
    BY <1>6, KnownRows DEF LockRunsOut
  <2>2. \A x \in People : /\ person'[x] # None <=> person[x] # None
                          /\ person'[x].role = person[x].role
                          /\ person'[x].active = person[x].active
    <3>1. /\ person'[p] = [person[p] EXCEPT !.lock = "over"]
          /\ \A x \in People : x # p => person'[x] = person[x]
      BY <2>1 DEF Inv, TypeOK
    <3>2. person'[p] \in Row /\ person'[p].role = person[p].role /\ person'[p].active = person[p].active
      BY <2>1, <3>1 DEF Row
    <3> QED BY <2>1, <3>1, <3>2, NullIsNothing
  <2> QED BY <1>6, <2>2 DEF LockRunsOut, ManagersAdminister, Managing, Administers, Known
<1>7. ASSUME NEW S \in SUBSET Drawn, Revoke(S), person' = person, req' = req,
             overlapped' = overlapped
      PROVE  ManagersAdminister'
  <2>1. Continues
    BY <1>7, RevokeStep
  <2>2. \A s \in Requests : req[s].token # None =>
            session'[req[s].token].person = session[req[s].token].person
    BY <2>1 DEF Continues, Inv, RequestsAreSound, Sound
  <2> QED BY <1>7, <2>2 DEF ManagersAdminister, Managing, Administers, Known
<1> QED BY <1>2, <1>3, <1>4, <1>5, <1>6, <1>7, StepsOf

\* While nobody is in the directory nobody is signed in, and who is put there
\* first can administer the system.
LEMMA FirstAdministers ==
    ASSUME Inv, [Next]_vars, Known = {}
    PROVE  LastAdminStays'
<1>1. CASE \A r \in Requests : ~ Commit(r)
  BY <1>1, PeopleStay DEF LastAdminStays
<1>2. ASSUME NEW r \in Requests, Commit(r)
      PROVE  LastAdminStays'
  <2> DEFINE q == req[r]
             p == q.target
  <2>1. Sound(q) /\ Drawn = {}
    BY KnownRows DEF Inv, RequestsAreSound
  <2>2. CASE p = None
    <3>1. \A x \in People : person'[x] = person[x]
      BY <1>2, <2>2, CommitEffect, NullIsNothing
    <3> QED BY <3>1 DEF Known, LastAdminStays
  <2>3. CASE p # None
    <3>1. p \in People /\ person[p] = None
      BY <1>2, <2>3, CommitEffect DEF Known
    <3>2. q.was = None /\ q.token = None
      BY <2>1, <2>3, <3>1 DEF Sound
    <3>3. person'[p] = q.new /\ person'[p] # None
      BY <1>2, <2>3, <3>2, CommitEffect, NullIsNothing
    <3>4. person'[p].role = "ADMIN" /\ person'[p].active /\ person'[p].cred # None
      BY <2>1, <2>3, <3>2, <3>3 DEF Sound
    <3>5. PICK x \in People : x = p
      BY <3>1
    <3>6. CanAdminister(x)'
      BY <3>3, <3>4, <3>5 DEF CanAdminister, Administers, Known
    <3> QED BY <3>6 DEF LastAdminStays, SomebodyAdministers, CanAdminister, Administers
  <2> QED BY <2>2, <2>3
<1> QED BY <1>1, <1>2

\* "Locking the last admin out of their own system is not a state anyone
\* intends to reach" (api.py do_edit_person), and none that can be reached as
\* long as administrators manage others one after the other and none gives up
\* the role.
THEOREM OneManagerAtATimeIsEnough ==
    Spec /\ []OneManagesAtATime /\ []NobodyStepsDown => []LastAdminStays
<1>1. Init => ManagersAdminister /\ LastAdminStays
  BY IdleIsSound DEF Init, ManagersAdminister, Managing, LastAdminStays, Known
<1>2. Inv /\ ManagersAdminister /\ OneManagesAtATime /\ NobodyStepsDown /\ [Next]_vars
        => ManagersAdminister'
  BY ManagersStep
<1>3. Inv /\ ManagersAdminister /\ NobodyStepsDown /\ LastAdminStays /\ [Next]_vars
        => LastAdminStays'
  <2> SUFFICES ASSUME Inv, ManagersAdminister, NobodyStepsDown, LastAdminStays, [Next]_vars
               PROVE  LastAdminStays'
    OBVIOUS
  <2>1. CASE Known = {}
    BY <2>1, FirstAdministers
  <2>2. CASE SomebodyAdministers
    <3>1. SomebodyAdministers'
      BY <2>2, LastGoes DEF ManagersAdminister, NobodyStepsDown
    <3> QED BY <3>1 DEF LastAdminStays
  <2> QED BY <2>1, <2>2 DEF LastAdminStays
<1> QED BY <1>1, <1>2, <1>3, SpecInv, PTL DEF Spec

=============================================================================
