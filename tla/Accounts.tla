------------------------------- MODULE Accounts -------------------------------
(***************************************************************************)
(* Signing in, passwords, sessions and the management of people, under     *)
(* concurrent requests.                                                    *)
(*                                                                         *)
(* A request loads a row of `person` once, decides on the copy, and writes *)
(* at its end only the columns that differ from the copy (SQLAlchemy); the *)
(* table has no version column, so what commits in between is not noticed. *)
(* Sessions are ended by UPDATE statements over what is committed then.    *)
(*                                                                         *)
(* A history variable, overlapped, says when two requests about one person *)
(* met.  The code has none; no guard of a handler reads it.                *)
(*                                                                         *)
(* Operators named X_Y are X with a mistake in it, as in WorkItems.        *)
(*                                                                         *)
(* Sources: src/backend/app/auth.py, the sign-in and people handlers of    *)
(* src/backend/app/api.py, src/backend/alembic/versions/004.               *)
(***************************************************************************)
EXTENDS Integers, FiniteSets

CONSTANTS
    People,     \* the people there can be, told apart by their email
    Own,        \* passwords chosen by their owner
    Issued,     \* passwords chosen by an administrator for somebody
    Tokens,     \* session tokens that can be drawn (a bound)
    Requests,   \* requests in flight at one time
    Guessed,    \* people whose password somebody gets wrong
    None,       \* SQL NULL
    MaxFailed,  \* MAX_FAILED_LOGINS
    MaxMeetings \* a bound: when requests about more people than this met,
                \* none is started

ASSUME NoneAssumption == None \notin People \cup Own \cup Issued \cup Tokens
ASSUME PasswordAssumption == Own \cap Issued = {}
ASSUME FailedAssumption == MaxFailed \in Nat \ {0}
ASSUME GuessedAssumption == Guessed \subseteq People

VARIABLES
    person,      \* the table: person to row, None where there is none
    session,     \* user_session: token to row, None before it is drawn
    req,         \* the requests in flight
    overlapped   \* people about whom two requests were in flight at once

vars == <<person, session, req, overlapped>>

OrNone(S) == S \cup {None}
Columns == {"role", "active", "cred", "must", "failed", "lock"}

\* `lock` is locked_until against the clock: NULL, to come, or past.
Row == [role: {"ADMIN", "MEMBER"}, active: BOOLEAN, cred: OrNone(Own \cup Issued),
        must: BOOLEAN, failed: 0 .. MaxFailed - 1, lock: {"none", "running", "over"}]

\* `pw` is not a column: the password the session was opened with.  Expiry is
\* left out: an expired session is one that is not used again.
Session == [person: People, pw: Own \cup Issued, revoked: BOOLEAN]

\* NULL is no row.
ASSUME NullAssumption == None \notin Row \cup Session

\* was, new: the copy loaded and what it became; None as `was` is an INSERT.
\* cut: the sessions already revoked, in this transaction; last: what follows
\* the write of the row.  A visit has no target.
Request == [token: OrNone(Tokens), target: OrNone(People), was: OrNone(Row),
            new: OrNone(Row), cut: SUBSET Tokens,
            last: {"nothing", "open", "revoke", "reopen"}]

Idle == [token |-> None, target |-> None, was |-> None, new |-> None,
         cut |-> {}, last |-> "nothing"]

TypeOK ==
    /\ person \in [People -> OrNone(Row)]
    /\ session \in [Tokens -> OrNone(Session)]
    /\ req \in [Requests -> Request]
    /\ \A r \in Requests : req[r].target # None => req[r].new # None
    /\ overlapped \subseteq People

-----------------------------------------------------------------------------
(* Reads *)

Known == {p \in People : person[p] # None}
Drawn == {t \in Tokens : session[t] # None}
Unused == Tokens \ Drawn

Live(t) == t \in Drawn /\ ~ session[t].revoked

\* WHERE person_id = ... AND revoked_at IS NULL
SessionsOf(p) == {t \in Drawn : session[t].person = p /\ ~ session[t].revoked}

AnyoneCanSignIn == \E p \in Known : person[p].active /\ person[p].cred # None

\* person_for_token, as the dependency `signed_in`
SignedIn(t) ==
    /\ Live(t)
    /\ person[session[t].person].active

Administers(p) == p \in Known /\ person[p].active /\ person[p].role = "ADMIN"
\* signed_in, then require(me, MANAGE_PEOPLE)
Manages(t) == SignedIn(t) /\ Administers(session[t].person)

-----------------------------------------------------------------------------
Init ==
    /\ person = [p \in People |-> None]
    /\ session = [t \in Tokens |-> None]
    /\ req = [r \in Requests |-> Idle]
    /\ overlapped = {}

\* start_session is called.
Opens(q) == q.last \in {"open", "reopen"}

About(p) == {r \in Requests : p # None /\ req[r].target = p}

\* The request holds its copies until it commits; one that would change
\* nothing is left out.  Tokens are a bound: a session is opened only when one
\* is left for every request that opens one.
Start(r, token, p, new, cut, last) ==
    /\ req[r] = Idle
    /\ Cardinality(overlapped) <= MaxMeetings
    /\ p # None /\ last = "nothing" => new # person[p]
    /\ last \in {"open", "reopen"} =>
          Cardinality({s \in Requests : Opens(req[s])}) < Cardinality(Unused)
    /\ req' = [req EXCEPT ![r] =
                 [token |-> token, target |-> p, new |-> new, cut |-> cut, last |-> last,
                  was |-> IF p = None THEN None ELSE person[p]]]
    /\ overlapped' = overlapped \cup (IF About(p) = {} THEN {} ELSE {p})
    /\ UNCHANGED <<person, session>>

-----------------------------------------------------------------------------
(* What each handler makes of the copy *)

Missed_Unlimited(row) == [row EXCEPT !.failed = row.failed + 1]
\* A wrong password.  At the limit the account is locked, the count restarts.
Missed(row) ==
    IF row.failed + 1 >= MaxFailed
    THEN [row EXCEPT !.failed = 0, !.lock = "running"]
    ELSE [row EXCEPT !.failed = row.failed + 1]

SignInAllowed_Locked(row) == row.active
SignInAllowed(row) == row.lock # "running" /\ row.active

\* do_login: authenticate, then start_session.  The failure of a wrong
\* password is committed as well, by the redirect that reports it.
SignIn(r, p) ==
    /\ p \in Known
    /\ SignInAllowed(person[p])
    /\ \/ /\ person[p].cred # None
          /\ Start(r, None, p, [person[p] EXCEPT !.failed = 0, !.lock = "none"], {}, "open")
       \/ /\ p \in Guessed
          /\ Start(r, None, p, Missed(person[p]), {}, "nothing")

NewRow(role, w, must) == [role |-> role, active |-> TRUE, cred |-> w, must |-> must,
                          failed |-> 0, lock |-> "none"]

\* do_setup.  Somebody already in the directory is promoted.
SetUp(r, p, w) ==
    /\ ~ AnyoneCanSignIn
    /\ Start(r, None, p,
             IF p \in Known
             THEN [person[p] EXCEPT !.role = "ADMIN", !.active = TRUE, !.cred = w, !.must = FALSE]
             ELSE NewRow("ADMIN", w, FALSE),
             {}, "open")

\* do_add_person, with a password to hand over or without a login
Add(r, t, p, role, w) ==
    /\ Manages(t)
    /\ p \notin Known
    /\ Start(r, t, p, NewRow(role, w, w # None), {}, "nothing")

MayEdit_Anybody(actor, p, active) == TRUE
MayEdit(actor, p, active) == ~ (actor = p /\ ~ active)

RevokedFirst_Never(p, active) == {}
\* The sessions are revoked by a statement that runs before the row is written.
RevokedFirst(p, active) == IF person[p].active /\ ~ active THEN SessionsOf(p) ELSE {}

\* do_edit_person.  One's own row is refused only with the box cleared: a
\* request that leaves it set may give up the role.
Edit(r, t, p, role, active) ==
    LET actor == session[t].person IN
    /\ Manages(t)
    /\ p \in Known
    /\ MayEdit(actor, p, active)
    /\ Start(r, t, p, [person[p] EXCEPT !.role = role, !.active = active],
             RevokedFirst(p, active), "nothing")

\* A salted hash is never the one it replaces, so the column is always written.
SetPassword_Kept(row, w, must) == [row EXCEPT !.cred = w]
SetPassword(row, w, must) == [row EXCEPT !.cred = w, !.must = must]

\* do_change_password
Change(r, t, w) ==
    LET p == session[t].person IN
    /\ SignedIn(t)
    /\ w # person[p].cred
    /\ Start(r, t, p, SetPassword(person[p], w, FALSE), {}, "reopen")

\* do_reset_password
Reset(r, t, p, w) ==
    /\ Manages(t)
    /\ p \in Known
    /\ w # person[p].cred
    /\ Start(r, t, p, SetPassword(person[p], w, TRUE), {}, "revoke")

\* do_unlock
Unlock(r, t, p) ==
    /\ Manages(t)
    /\ p \in Known
    /\ Start(r, t, p, [person[p] EXCEPT !.failed = 0, !.lock = "none"], {}, "nothing")

\* do_force_change
ForceChange(r, t, p) ==
    /\ Manages(t)
    /\ p \in Known
    /\ person[p].cred # None
    /\ Start(r, t, p, [person[p] EXCEPT !.must = TRUE], {}, "nothing")

\* Any other page: what it reads or writes is in the other modules.
Visit(r, t) == SignedIn(t) /\ Start(r, t, None, None, {}, "nothing")

-----------------------------------------------------------------------------
(* The end of a request *)

\* The columns that differ from the copy, over whatever the row is by now.
Written(q) == [c \in Columns |-> IF q.new[c] # q.was[c] THEN q.new[c] ELSE person[q.target][c]]

\* person_email_unique refuses the second INSERT.
CanWrite(q) == q.was = None /\ q.target # None => person[q.target] = None

Ended_KeepsOld(q) == q.cut
\* revoke_all_for after the write of the row, which makes it wait for any
\* other request that has written the row and not yet committed.
Ended(q) == q.cut \cup (IF q.last \in {"revoke", "reopen"} THEN SessionsOf(q.target) ELSE {})

Slid_WholeRow(row) == [row EXCEPT !.revoked = FALSE]
\* person_for_token moves the expiry of a session that it found live: two
\* columns that are not in the model, and no other.
Slid(row) == row

\* The tokens that get, lose or keep a session when q commits.
SessionsAfter(q, drawn) ==
    [t \in Tokens |->
        CASE t \in drawn -> [person |-> q.target, pw |-> q.new.cred, revoked |-> FALSE]
          [] t \in Ended(q) -> [session[t] EXCEPT !.revoked = TRUE]
          [] t = q.token /\ t \notin Ended(q) -> Slid(session[t])
          [] OTHER -> session[t]]

Commit(r) ==
    LET q == req[r] IN
    /\ q # Idle
    /\ CanWrite(q)
    /\ person' = IF q.target = None THEN person
                 ELSE [person EXCEPT ![q.target] = IF q.was = None THEN q.new ELSE Written(q)]
    /\ \/ Opens(q) /\ \E t \in Unused : session' = SessionsAfter(q, {t})
       \/ ~ Opens(q) /\ session' = SessionsAfter(q, {})
    /\ req' = [req EXCEPT ![r] = Idle]
    /\ UNCHANGED overlapped

\* An error, a lost connection, a process that dies: all is rolled back.
Abort(r) ==
    /\ req[r] # Idle
    /\ req' = [req EXCEPT ![r] = Idle]
    /\ UNCHANGED <<person, session, overlapped>>

-----------------------------------------------------------------------------
(* Requests of one statement, and time *)

Revoke(S) == session' = [t \in Tokens |-> IF t \in S THEN [session[t] EXCEPT !.revoked = TRUE]
                                         ELSE session[t]]

\* do_logout
LogOut(t) ==
    /\ Live(t)
    /\ Revoke({t})
    /\ UNCHANGED <<person, req, overlapped>>

\* do_revoke_sessions
SignOutEverywhere(t, p) ==
    /\ Manages(t)
    /\ Revoke(SessionsOf(p))
    /\ UNCHANGED <<person, req, overlapped>>

LockRunsOut(p) ==
    /\ p \in Known
    /\ person[p].lock = "running"
    /\ person' = [person EXCEPT ![p].lock = "over"]
    /\ UNCHANGED <<session, req, overlapped>>

Manage(r, t, p) ==
    \/ \E role \in {"ADMIN", "MEMBER"} :
          \/ \E w \in OrNone(Issued) : Add(r, t, p, role, w)
          \/ \E active \in BOOLEAN : Edit(r, t, p, role, active)
    \/ \E w \in Issued : Reset(r, t, p, w)
    \/ Unlock(r, t, p)
    \/ ForceChange(r, t, p)

Next ==
    \/ \E r \in Requests : Commit(r) \/ Abort(r)
    \/ \E r \in Requests, p \in People : SignIn(r, p) \/ (\E w \in Own : SetUp(r, p, w))
    \/ \E r \in Requests, t \in Drawn :
          \/ Visit(r, t)
          \/ \E w \in Own : Change(r, t, w)
          \/ \E p \in People : Manage(r, t, p)
    \/ \E t \in Drawn : LogOut(t) \/ (\E p \in People : SignOutEverywhere(t, p))
    \/ \E p \in People : LockRunsOut(p)

Spec == Init /\ [][Next]_vars

-----------------------------------------------------------------------------
(* Properties *)

\* A session that was revoked is never accepted again, also when a request
\* that was using it moves its expiry afterwards (person_for_token).
RevokedIsFinal == [][\A t \in Drawn : session[t].revoked => session[t]'.revoked]_vars

\* A session goes on only under the password it was opened with: a change and
\* a reset end all of a person's sessions (revoke_all_for), unless another
\* request about the person ran at the same time.
SessionsFollowPassword ==
    \A t \in Tokens : Live(t) /\ session[t].person \notin overlapped =>
        session[t].pw = person[session[t].person].cred

\* Somebody deactivated has no session left that would answer again once they
\* are back (do_edit_person), with the same exception.
InactiveHoldNoSession ==
    \A t \in Tokens : Live(t) /\ session[t].person \notin overlapped =>
        person[session[t].person].active

\* A password chosen by somebody else must be changed at the next sign-in
\* (do_add_person, do_reset_password), with the same exception: a change
\* and a reset at once can leave the reset's password and the change's flag.
IssuedMustBeChanged ==
    \A p \in Known \ overlapped : person[p].cred \in Issued => person[p].must

\* A request about p that writes that there is no lock.
LiftsLock(q, p) == q.target = p /\ q.was # None /\ q.was.lock # "none" /\ q.new.lock = "none"

\* A lock that is running outlasts every sign-in that sees it: it is taken off
\* before its time by an administrator (do_unlock), or by a sign-in that had found
\* an older lock to be over, and by nothing else.
LockLifts ==
    [][\A p \in Known : person[p].lock = "running" /\ person[p]'.lock = "none" =>
          \E r \in Requests :
              /\ LiftsLock(req[r], p) /\ req'[r] = Idle
              /\ req[r].token # None \/ req[r].was.lock = "over"]_vars

CanAdminister(p) == Administers(p) /\ person[p].cred # None
SomebodyAdministers == \E p \in Known : CanAdminister(p)

\* An administrator deals with somebody else.
Managing(q) == q.token # None /\ q.target # None /\ q.target # session[q.token].person

\* An administrator gives up the role.
StepsDown(q) ==
    /\ q.token # None /\ q.target = session[q.token].person
    /\ q.was.role = "ADMIN" /\ q.new.role # "ADMIN"

\* The last who could administer the system is taken away by two kinds of request
\* only: their own, giving up the role, or one that somebody made who has ceased to
\* be an administrator since (do_edit_person, whose check is about the person who
\* asks and about deactivation).
LastAdministratorGoes ==
    [][SomebodyAdministers /\ ~ SomebodyAdministers' =>
          \E r \in Requests :
              /\ req[r] # Idle /\ req'[r] = Idle
              /\ \/ StepsDown(req[r])
                 \/ Managing(req[r]) /\ ~ Administers(session[req[r].token].person)]_vars

-----------------------------------------------------------------------------
(* What the code says of itself, which runs refute *)

\* api.py:985: "Every other session for this person ends".
ChangeEndsOtherSessions ==
    \A t \in Tokens : Live(t) => session[t].pw = person[session[t].person].cred

\* api.py:1074: "Locking the last admin out of their own system is not a
\* state anyone intends to reach."
LastAdminStays == Known = {} \/ SomebodyAdministers

\* In no request does an administrator give up the role.
NobodyStepsDown == \A r \in Requests : ~ StepsDown(req[r])

=============================================================================
