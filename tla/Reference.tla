------------------------------- MODULE Reference -------------------------------
(***************************************************************************)
(* The rows everything else points at: adding, renaming and retiring them  *)
(* under concurrent requests, and giving them to people.                   *)
(*                                                                         *)
(* The table here is `role`, which has the most rules.  `work_item_type`   *)
(* is the same without holders, `team` the same without a code, `client`   *)
(* the same with neither.                                                  *)
(*                                                                         *)
(* Sources: src/backend/app/reference.py, the reference and people         *)
(* handlers of src/backend/app/api.py, src/backend/alembic/versions/007    *)
(***************************************************************************)
EXTENDS Integers

CONSTANTS
    Ids,       \* ids a row can get
    Staff,     \* people in the directory
    Forms,     \* requests in flight at one time
    Names,     \* what a user can type, stripped
    Lower,     \* lower(name), as the unique index sees it
    Slug,      \* the code _slug makes of a name
    Null,      \* SQL NULL
    MaxSuffix  \* bound on the suffixes _unique_code tries

VARIABLES
    table,    \* id to row, Null where there is none
    holder,   \* the columns of `person` that matter: the row held, active
    form      \* requests in flight

referenceVars == <<table, holder, form>>

Codes == {Slug[n] : n \in Names} \X (1 .. MaxSuffix)
TableRow == [name: Names, code: Codes, active: BOOLEAN]
Holder == [id: Ids \cup {Null}, active: BOOLEAN]

\* What is assumed of the constants: MCStaff has it checked, and it is a
\* hypothesis of the theorems.  NULL is no row.
ReferenceAssumption ==
    /\ DOMAIN Lower = Names /\ DOMAIN Slug = Names
    /\ MaxSuffix \in Nat \ {0}
    /\ Null \notin Ids \cup TableRow

NoHolder == [id |-> Null, active |-> FALSE]

\* id: the row inserted, renamed or retired; was: the person as loaded; now: what
\* the form makes of them.
Form == [op: {"idle", "add", "rename", "retire", "edit"},
            id: Ids \cup {Null}, row: TableRow \cup {Null},
            person: Staff \cup {Null}, was: Holder, now: Holder]

NoForm == [op |-> "idle", id |-> Null, row |-> Null, person |-> Null,
         was |-> NoHolder, now |-> NoHolder]

ReferenceTypeOK ==
    /\ table \in [Ids -> TableRow \cup {Null}]
    /\ holder \in [Staff -> Holder]
    /\ form \in [Forms -> Form]

-----------------------------------------------------------------------------
(* Reads *)

Rows == {i \in Ids : table[i] # Null}
Offered == {i \in Rows : table[i].active}

\* _check_unique, and the unique index on lower(name): another row of the name.
NameTaken_Exact(n, i) == \E j \in Rows \ {i} : table[j].name = n
NameTaken(n, i) == \E j \in Rows \ {i} : Lower[table[j].name] = Lower[n]

CodeTaken(c, i) == \E j \in Rows \ {i} : table[j].code = c

\* _unique_code: the first suffix that is free; the bare code counts as 1.
FirstFree(c) == CHOOSE k \in 1 .. MaxSuffix :
                   /\ ~ CodeTaken(<<c, k>>, Null)
                   /\ \A j \in 1 .. k - 1 : CodeTaken(<<c, j>>, Null)

UniqueCode(n) == <<Slug[n], FirstFree(Slug[n])>>

Holders(i) == {p \in Staff : holder[p].id = i /\ holder[p].active}

-----------------------------------------------------------------------------
InitReference ==
    /\ table = [i \in Ids |-> Null]
    /\ holder = [p \in Staff |-> NoHolder]
    /\ form = [r \in Forms |-> NoForm]

Send(r, q) == form[r] = NoForm /\ form' = [form EXCEPT ![r] = q]

\* add_role: the name and the code are looked up, then the row is inserted.
AddRow(r, i, n) ==
    /\ table[i] = Null
    /\ ~ NameTaken(n, i)
    /\ \E k \in 1 .. MaxSuffix : ~ CodeTaken(<<Slug[n], k>>, Null)
    /\ Send(r, [NoForm EXCEPT !.op = "add", !.id = i,
                  !.row = [name |-> n, code |-> UniqueCode(n), active |-> TRUE]])
    /\ UNCHANGED <<table, holder>>

\* The code does not follow the name.
Renamed(row, n) == [row EXCEPT !.name = n]

\* rename_work_type, rename_client, rename_team, update_role.  The name the
\* row has already is not written.
Rename(r, i, n) ==
    /\ i \in Rows
    /\ n # table[i].name
    /\ ~ NameTaken(n, i)
    /\ Send(r, [NoForm EXCEPT !.op = "rename", !.id = i, !.row = Renamed(table[i], n)])
    /\ UNCHANGED <<table, holder>>

\* set_role_active, set_team_active: active holders are counted, then the row
\* is retired.
Retire(r, i) ==
    /\ i \in Offered
    /\ Holders(i) = {}
    /\ Send(r, [NoForm EXCEPT !.op = "retire", !.id = i])
    /\ UNCHANGED <<table, holder>>

\* Nothing is looked at to offer a row again.
Restore(i) ==
    /\ i \in Rows \ Offered
    /\ table' = [table EXCEPT ![i].active = TRUE]
    /\ UNCHANGED <<holder, form>>

\* do_add_person, do_edit_person, do_setup: the person is loaded and gets the row
\* that the form names, or that do_setup looks up.  That it is a row is all that
\* is asked, by the foreign key: nobody looks whether it is offered.
GiveRow(r, p, i, active) ==
    /\ i \in Rows
    /\ holder[p].id = Null => active
    /\ Send(r, [NoForm EXCEPT !.op = "edit", !.person = p, !.was = holder[p],
                  !.now = [id |-> i, active |-> active]])
    /\ UNCHANGED <<table, holder>>

-----------------------------------------------------------------------------
(* The end of a request *)

\* The unique indexes on lower(name) and on code.
IndexesHold(q) ==
    q.op \in {"add", "rename"} =>
        /\ ~ NameTaken(q.row.name, q.id)
        /\ q.op = "add" => ~ CodeTaken(q.row.code, q.id)

\* The id is nobody else's; nor is the email of somebody who is being added.
IsNew(q) ==
    /\ q.op = "add" => table[q.id] = Null
    /\ q.op = "edit" /\ q.was.id = Null => holder[q.person].id = Null

Stored(q) ==
    CASE q.op = "add" -> [table EXCEPT ![q.id] = q.row]
      [] q.op = "rename" -> [table EXCEPT ![q.id].name = q.row.name, ![q.id].code = q.row.code]
      [] q.op = "retire" -> [table EXCEPT ![q.id].active = FALSE]
      [] OTHER -> table

\* Only the columns that differ from the copy are written.
Given(q) ==
    IF q.op # "edit" THEN holder
    ELSE [holder EXCEPT
            ![q.person].id = IF q.now.id # q.was.id THEN q.now.id ELSE @,
            ![q.person].active = IF q.now.active # q.was.active THEN q.now.active ELSE @]

CommitForm(r) ==
    /\ form[r].op # "idle"
    /\ IsNew(form[r])
    /\ IndexesHold(form[r])
    /\ table' = Stored(form[r])
    /\ holder' = Given(form[r])
    /\ form' = [form EXCEPT ![r] = NoForm]

\* The index refuses (_flush makes a message of it, and the
\* commit that follows fails), or the process dies.
AbortForm(r) ==
    /\ form[r].op # "idle"
    /\ form' = [form EXCEPT ![r] = NoForm]
    /\ UNCHANGED <<table, holder>>

NextReference ==
    \/ \E r \in Forms, i \in Ids :
          \/ \E n \in Names : AddRow(r, i, n) \/ Rename(r, i, n)
          \/ Retire(r, i)
          \/ \E p \in Staff, active \in BOOLEAN : GiveRow(r, p, i, active)
    \/ \E i \in Ids : Restore(i)
    \/ \E r \in Forms : CommitForm(r) \/ AbortForm(r)

SpecReference == InitReference /\ [][NextReference]_referenceVars

-----------------------------------------------------------------------------
(* Properties *)

\* One row to a name, capitals apart.
NamesDistinct == \A i, j \in Rows : Lower[table[i].name] = Lower[table[j].name] => i = j

\* One row to a code.
CodesDistinct == \A i, j \in Rows : table[i].code = table[j].code => i = j

\* No two rows have one name, capitals apart: two requests can pass
\* _check_unique at once, and then the index decides.  And a code finds one row
\* (_unique_code), although a name that was given up comes back on another row
\* while the code of the first stays (rename_work_type).
RowsDistinct == NamesDistinct /\ CodesDistinct

\* reference.py:231: "everyone holding a deactivated role would keep whatever it
\* grants while disappearing from the list of roles that exist", which is what
\* set_role_active is there to prevent: nobody active holds a retired row.
RetiredIsUnheld ==
    \A p \in Staff : holder[p].active /\ holder[p].id # Null => holder[p].id \in Offered

\* RULE-021: "A role or team still held by active people cannot be retired": at
\* the moment a row is retired, too, nobody active holds it (set_role_active).
HeldIsNotRetired ==
    [][\A i \in Offered : i \notin Offered' => Holders(i) = {}]_referenceVars

\* What people are given is offered, and nobody is given anything while a row is
\* being retired: what the two take for granted (ReferenceProofs).
OfferedIsGiven == \A r \in Forms : form[r].op = "edit" => form[r].now.id \in Offered

RetiringIsAlone ==
    \A r, s \in Forms : ~ (form[r].op = "retire" /\ form[s].op = "edit")

=============================================================================
