---------------------------- MODULE ReferenceProofs ----------------------------
(***************************************************************************)
(* Proofs about Reference, for any number of rows, people and requests,    *)
(* whatever the names are and whatever _slug and lower() make of them.     *)
(*                                                                         *)
(* The unique indexes carry the names and the codes alone.  That retired   *)
(* rows are unheld rests on two conditions that the code does not see to:  *)
(* what a form names is offered, and no person is edited while a row is    *)
(* being retired.                                                          *)
(***************************************************************************)
EXTENDS Reference, WellFoundedInduction, TLAPS

\* What a request is about.
NamesRows(q) ==
    /\ q.op \in {"add", "rename"} => q.row \in TableRow
    /\ q.op \in {"add", "rename", "retire"} => q.id \in Ids
    /\ q.op \in {"rename", "retire"} => table[q.id] # Null
    /\ q.op = "rename" => q.row.code = table[q.id].code
    /\ q.op = "edit" => q.person \in Staff /\ q.now.id \in Ids

RequestsNameRows == \A r \in Forms : NamesRows(form[r])

Inv == ReferenceTypeOK /\ NamesDistinct /\ CodesDistinct /\ RequestsNameRows

-----------------------------------------------------------------------------

\* A set of numbers that is not empty has a least element.
LEMMA LeastNatural ==
    ASSUME NEW T \in SUBSET Nat, T # {}
    PROVE  \E n \in T : \A m \in T : n <= m
<1> DEFINE R == {ss \in Nat \X Nat : ss[1] < ss[2]}
<1>1. IsWellFoundedOn(R, Nat)
  BY NatLessThanWellFounded DEF OpToRel
<1>2. PICK n \in T : \A m \in T : ~ (<<m, n>> \in R)
  <2> HIDE DEF R
  <2>1. \A S, U : U \subseteq S /\ IsWellFoundedOn(R, S) /\ U # {} =>
                     \E x \in U : \A y \in U : ~ (<<y, x>> \in R)
    BY WFMin
  <2> QED BY <1>1, <2>1
<1>3. ASSUME NEW m \in T
      PROVE  n <= m
  <2>1. m \in Nat /\ n \in Nat
    OBVIOUS
  <2>2. m < n => <<m, n>> \in R
    BY <2>1
  <2> QED BY <1>2, <2>1, <2>2
<1> QED BY <1>3

\* _unique_code ends at a suffix, and at one that is free, if there is one.
LEMMA FirstFreeIsFree ==
    ASSUME ReferenceAssumption, NEW c, \E k \in 1 .. MaxSuffix : ~ CodeTaken(<<c, k>>, Null)
    PROVE  FirstFree(c) \in 1 .. MaxSuffix /\ ~ CodeTaken(<<c, FirstFree(c)>>, Null)
<1> DEFINE T == {k \in 1 .. MaxSuffix : ~ CodeTaken(<<c, k>>, Null)}
<1>1. T \in SUBSET Nat /\ T # {} /\ MaxSuffix \in Nat
  BY DEF ReferenceAssumption
<1>2. PICK n \in T : \A m \in T : n <= m
  <2> HIDE DEF T
  <2> QED BY <1>1, LeastNatural
<1>3. ASSUME NEW j \in 1 .. n - 1
      PROVE  CodeTaken(<<c, j>>, Null)
  <2>1. n \in 1 .. MaxSuffix /\ j \in 1 .. MaxSuffix /\ j < n
    BY <1>1
  <2> QED BY <1>2, <2>1
<1>4. /\ n \in 1 .. MaxSuffix /\ ~ CodeTaken(<<c, n>>, Null)
      /\ \A j \in 1 .. n - 1 : CodeTaken(<<c, j>>, Null)
  BY <1>2, <1>3
<1> QED BY <1>4 DEF FirstFree

\* NULL is nothing, and NoForm is about nothing.
LEMMA Basics ==
    ASSUME ReferenceAssumption
    PROVE  /\ Null \notin Ids /\ Null \notin TableRow
           /\ NoForm \in Form /\ NoForm.op = "idle"
           /\ NoHolder \in Holder /\ ~ NoHolder.active
BY DEF ReferenceAssumption, NoForm, Form, NoHolder, Holder

\* Sending leaves everybody else's requests.
LEMMA SendEffect ==
    ASSUME ReferenceTypeOK, NEW r \in Forms, NEW q \in Form, Send(r, q)
    PROVE  /\ form' \in [Forms -> Form]
           /\ form'[r] = q /\ form[r].op = "idle"
           /\ \A s \in Forms : s # r => form'[s] = form[s]
BY DEF ReferenceTypeOK, Send, NoForm

\* A request begins, and is about rows that are there.
LEMMA BeginStep ==
    ASSUME ReferenceAssumption, Inv, NEW r \in Forms, NEW q \in Form, Send(r, q),
           UNCHANGED <<table, holder>>, NamesRows(q)
    PROVE  Inv'
<1>1. /\ form' \in [Forms -> Form] /\ form'[r] = q
      /\ \A s \in Forms : s # r => form'[s] = form[s]
      /\ table' = table /\ holder' = holder
  BY SendEffect DEF Inv
<1>2. ReferenceTypeOK'
  BY <1>1 DEF Inv, ReferenceTypeOK
<1>3. NamesDistinct' /\ CodesDistinct'
  BY <1>1 DEF Inv, NamesDistinct, CodesDistinct, Rows
<1>4. ASSUME NEW s \in Forms
      PROVE  NamesRows(form[s])'
  BY <1>1 DEF Inv, RequestsNameRows, NamesRows
<1> QED BY <1>2, <1>3, <1>4 DEF Inv, RequestsNameRows

LEMMA AddStep ==
    ASSUME ReferenceAssumption, Inv, NEW r \in Forms, NEW i \in Ids, NEW n \in Names, AddRow(r, i, n)
    PROVE  Inv'
<1> DEFINE q == [NoForm EXCEPT !.op = "add", !.id = i,
                   !.row = [name |-> n, code |-> UniqueCode(n), active |-> TRUE]]
<1>1. UniqueCode(n) \in Codes
  <2>1. FirstFree(Slug[n]) \in 1 .. MaxSuffix
    BY FirstFreeIsFree DEF AddRow
  <2> QED BY <2>1 DEF UniqueCode, Codes
<1>2. q \in Form /\ NamesRows(q)
  BY <1>1, Basics DEF Form, TableRow, NoForm, NoHolder, Holder, NamesRows
<1>3. Send(r, q) /\ UNCHANGED <<table, holder>>
  BY DEF AddRow
<1> HIDE DEF q
<1> QED BY <1>2, <1>3, BeginStep

LEMMA RenameStep ==
    ASSUME ReferenceAssumption, Inv, NEW r \in Forms, NEW i \in Ids, NEW n \in Names,
           Rename(r, i, n)
    PROVE  Inv'
<1> DEFINE q == [NoForm EXCEPT !.op = "rename", !.id = i, !.row = Renamed(table[i], n)]
<1>1. table[i] \in TableRow /\ table[i] # Null
  BY DEF Rename, Rows, Inv, ReferenceTypeOK
<1>2. q \in Form /\ NamesRows(q)
  BY <1>1, Basics DEF Form, TableRow, NoForm, NoHolder, Holder, Renamed, NamesRows
<1>3. Send(r, q) /\ UNCHANGED <<table, holder>>
  BY DEF Rename
<1> HIDE DEF q
<1> QED BY <1>2, <1>3, BeginStep

LEMMA RetireStep ==
    ASSUME ReferenceAssumption, Inv, NEW r \in Forms, NEW i \in Ids, Retire(r, i)
    PROVE  Inv'
<1> DEFINE q == [NoForm EXCEPT !.op = "retire", !.id = i]
<1>1. q \in Form /\ NamesRows(q)
  BY Basics DEF Form, NoForm, Retire, Offered, Rows, NamesRows
<1>2. Send(r, q) /\ UNCHANGED <<table, holder>>
  BY DEF Retire
<1> HIDE DEF q
<1> QED BY <1>1, <1>2, BeginStep

LEMMA GiveStep ==
    ASSUME ReferenceAssumption, Inv, NEW r \in Forms, NEW i \in Ids, NEW p \in Staff,
           NEW active \in BOOLEAN, GiveRow(r, p, i, active)
    PROVE  Inv'
<1> DEFINE q == [NoForm EXCEPT !.op = "edit", !.person = p, !.was = holder[p],
                   !.now = [id |-> i, active |-> active]]
<1>1. [id |-> i, active |-> active] \in Holder /\ holder[p] \in Holder
  BY DEF Holder, Inv, ReferenceTypeOK
<1>2. q \in Form /\ NamesRows(q)
  BY <1>1, Basics DEF Form, NoForm, NamesRows
<1>3. Send(r, q) /\ UNCHANGED <<table, holder>>
  BY DEF GiveRow
<1> HIDE DEF q
<1> QED BY <1>2, <1>3, BeginStep

LEMMA AbortStep ==
    ASSUME ReferenceAssumption, Inv, NEW r \in Forms, AbortForm(r)
    PROVE  Inv'
<1>1. /\ form' \in [Forms -> Form] /\ form'[r].op = "idle"
      /\ \A s \in Forms : s # r => form'[s] = form[s]
      /\ table' = table /\ holder' = holder
  BY Basics DEF AbortForm, Inv, ReferenceTypeOK
<1>2. ReferenceTypeOK'
  BY <1>1 DEF Inv, ReferenceTypeOK
<1>3. NamesDistinct' /\ CodesDistinct'
  BY <1>1 DEF Inv, NamesDistinct, CodesDistinct, Rows
<1>4. RequestsNameRows'
  BY <1>1 DEF Inv, RequestsNameRows, NamesRows
<1> QED BY <1>2, <1>3, <1>4 DEF Inv

LEMMA RestoreStep ==
    ASSUME ReferenceAssumption, Inv, NEW i \in Ids, Restore(i)
    PROVE  Inv' /\ Rows' = Rows /\ Offered \subseteq Offered'
<1>1. /\ holder' = holder /\ form' = form /\ table[i] \in TableRow
      /\ table' = [table EXCEPT ![i].active = TRUE] /\ ReferenceTypeOK
  BY DEF Restore, Rows, Inv, ReferenceTypeOK
<1>2. /\ table'[i] \in TableRow /\ table'[i].active
      /\ table'[i].name = table[i].name /\ table'[i].code = table[i].code
      /\ \A j \in Ids : j # i => table'[j] = table[j]
      /\ table' \in [Ids -> TableRow \cup {Null}]
  BY <1>1 DEF ReferenceTypeOK, TableRow
<1>3. /\ Rows' = Rows /\ Offered \subseteq Offered'
      /\ \A j \in Rows : table'[j].name = table[j].name /\ table'[j].code = table[j].code
  BY <1>1, <1>2, Basics DEF Rows, Offered
<1>4. ReferenceTypeOK'
  BY <1>1, <1>2 DEF ReferenceTypeOK
<1>5. NamesDistinct' /\ CodesDistinct'
  BY <1>1, <1>3 DEF Inv, NamesDistinct, CodesDistinct
<1>6. RequestsNameRows'
  BY <1>1, <1>3 DEF Inv, RequestsNameRows, NamesRows, Rows
<1> QED BY <1>3, <1>4, <1>5, <1>6 DEF Inv

LEMMA CommitStep ==
    ASSUME ReferenceAssumption, Inv, NEW r \in Forms, CommitForm(r)
    PROVE  Inv'
<1> DEFINE q == form[r]
<1>1. /\ form' \in [Forms -> Form] /\ form'[r] = NoForm
      /\ \A s \in Forms : s # r => form'[s] = form[s]
      /\ ReferenceTypeOK /\ q \in Form
      /\ q.op \in {"add", "rename", "retire", "edit"}
  BY Basics DEF CommitForm, Inv, ReferenceTypeOK, Form
\* Enough for the requests that are left.
<1>3. ASSUME Rows \subseteq Rows', \A j \in Rows : table'[j].code = table[j].code
      PROVE  RequestsNameRows'
  BY <1>1, <1>3, Basics DEF Inv, RequestsNameRows, NamesRows, Rows
<1>4. CASE q.op = "add"
  <2>1. /\ table' = [table EXCEPT ![q.id] = q.row] /\ holder' = holder
        /\ q.id \in Ids /\ q.row \in TableRow /\ table[q.id] = Null /\ q.row # Null
        /\ ~ NameTaken(q.row.name, q.id) /\ ~ CodeTaken(q.row.code, q.id)
    BY <1>4, Basics DEF CommitForm, Stored, Given, IsNew, IndexesHold, Inv, RequestsNameRows,
         NamesRows
  <2>2. PICK i \in Ids : i = q.id
    BY <2>1
  <2>3. /\ table' \in [Ids -> TableRow \cup {Null}] /\ table'[i] = q.row
        /\ \A j \in Ids : j # i => table'[j] = table[j]
    BY <1>1, <2>1, <2>2 DEF ReferenceTypeOK
  <2>4. Rows' = Rows \cup {i} /\ i \notin Rows /\ Offered \subseteq Offered'
    BY <2>1, <2>2, <2>3 DEF Rows, Offered
  <2>5. ReferenceTypeOK'
    BY <1>1, <2>1, <2>3 DEF ReferenceTypeOK
  <2>6. NamesDistinct'
    <3>1. \A j \in Rows : Lower[table'[j].name] # Lower[table'[i].name]
      BY <2>1, <2>2, <2>3, <2>4 DEF NameTaken, Rows
    <3>2. \A j \in Rows : table'[j] = table[j]
      BY <2>3, <2>4 DEF Rows
    <3> QED BY <2>4, <3>1, <3>2 DEF Inv, NamesDistinct
  <2>7. CodesDistinct'
    <3>1. \A j \in Rows : table'[j].code # table'[i].code
      BY <2>1, <2>2, <2>3, <2>4 DEF CodeTaken, Rows
    <3>2. \A j \in Rows : table'[j] = table[j]
      BY <2>3, <2>4 DEF Rows
    <3> QED BY <2>4, <3>1, <3>2 DEF Inv, CodesDistinct
  <2>8. RequestsNameRows'
    BY <1>3, <2>3, <2>4 DEF Rows
  <2> QED BY <2>5, <2>6, <2>7, <2>8 DEF Inv
<1>5. CASE q.op = "rename"
  <2>1. /\ table' = [table EXCEPT ![q.id].name = q.row.name, ![q.id].code = q.row.code]
        /\ holder' = holder
        /\ q.id \in Ids /\ q.row \in TableRow /\ table[q.id] # Null
        /\ q.row.code = table[q.id].code /\ ~ NameTaken(q.row.name, q.id)
    BY <1>5 DEF CommitForm, Stored, Given, IndexesHold, Inv, RequestsNameRows,
         NamesRows
  <2>2. PICK i \in Ids : i = q.id
    BY <2>1
  <2>3. table[i] \in TableRow
    BY <1>1, <2>1, <2>2 DEF ReferenceTypeOK
  <2>4. /\ table'[i] = [table[i] EXCEPT !.name = q.row.name, !.code = q.row.code]
        /\ \A j \in Ids : j # i => table'[j] = table[j]
    BY <1>1, <2>1, <2>2 DEF ReferenceTypeOK
  <2>5. /\ table'[i] \in TableRow /\ table'[i].name = q.row.name
        /\ table'[i].code = table[i].code /\ table'[i].active = table[i].active
    <3>1. q.row.name \in Names /\ q.row.code \in Codes /\ q.row.code = table[i].code
      BY <2>1, <2>2 DEF TableRow
    <3> QED BY <2>3, <2>4, <3>1 DEF TableRow
  <2>6. table' \in [Ids -> TableRow \cup {Null}]
    BY <1>1, <2>1, <2>2, <2>4, <2>5 DEF ReferenceTypeOK
  <2>7. /\ Rows' = Rows /\ Offered' = Offered /\ i \in Rows
        /\ \A j \in Rows : table'[j].code = table[j].code
    <3>1. table'[i] # Null /\ table[i] # Null
      BY <2>3, <2>5, Basics
    <3>2. Rows' = Rows /\ i \in Rows
      BY <2>4, <3>1 DEF Rows
    <3>3. \A j \in Rows : table'[j].active = table[j].active /\ table'[j].code = table[j].code
      BY <2>4, <2>5 DEF Rows
    <3> QED BY <3>2, <3>3 DEF Offered
  <2>8. ReferenceTypeOK'
    BY <1>1, <2>1, <2>6 DEF ReferenceTypeOK
  <2>9. NamesDistinct'
    <3>1. \A j \in Rows : j # i => /\ table'[j] = table[j]
                                   /\ Lower[table'[j].name] # Lower[table'[i].name]
      BY <2>1, <2>2, <2>4, <2>5 DEF NameTaken, Rows
    <3> QED BY <2>7, <3>1 DEF Inv, NamesDistinct
  <2>10. CodesDistinct'
    BY <2>7 DEF Inv, CodesDistinct
  <2>11. RequestsNameRows'
    BY <1>3, <2>7
  <2> QED BY <2>8, <2>9, <2>10, <2>11 DEF Inv
<1>6. CASE q.op = "retire"
  <2>1. /\ table' = [table EXCEPT ![q.id].active = FALSE] /\ holder' = holder
        /\ q.id \in Ids /\ table[q.id] # Null
    BY <1>6 DEF CommitForm, Stored, Given, Inv, RequestsNameRows, NamesRows
  <2>2. PICK i \in Ids : i = q.id
    BY <2>1
  <2>3. table[i] \in TableRow
    BY <1>1, <2>1, <2>2 DEF ReferenceTypeOK
  <2>4. /\ table'[i] = [table[i] EXCEPT !.active = FALSE]
        /\ \A j \in Ids : j # i => table'[j] = table[j]
    BY <1>1, <2>1, <2>2 DEF ReferenceTypeOK
  <2>5. /\ table'[i] \in TableRow /\ table'[i].name = table[i].name /\ table'[i].code = table[i].code
    BY <2>3, <2>4 DEF TableRow
  <2>6. table' \in [Ids -> TableRow \cup {Null}]
    BY <1>1, <2>1, <2>2, <2>4, <2>5 DEF ReferenceTypeOK
  <2>7. /\ Rows' = Rows /\ Offered \ {i} \subseteq Offered'
        /\ \A j \in Rows : table'[j].code = table[j].code /\ table'[j].name = table[j].name
    BY <2>1, <2>2, <2>4, <2>5, Basics DEF Rows, Offered
  <2>8. ReferenceTypeOK'
    BY <1>1, <2>1, <2>6 DEF ReferenceTypeOK
  <2>9. NamesDistinct' /\ CodesDistinct' /\ RequestsNameRows'
    BY <1>3, <2>7 DEF Inv, NamesDistinct, CodesDistinct
  <2> QED BY <2>8, <2>9 DEF Inv
<1>7. CASE q.op = "edit"
  <2>1. table' = table /\ holder' = Given(q) /\ q.person \in Staff /\ q.now.id \in Ids
    BY <1>7 DEF CommitForm, Stored, Inv, RequestsNameRows, NamesRows
  <2>2. PICK p \in Staff : p = q.person
    BY <2>1
  <2>3. holder[p] \in Holder /\ q.was \in Holder /\ q.now \in Holder
    BY <1>1 DEF ReferenceTypeOK, Form
  <2>4. /\ holder'[p] \in Holder
        /\ holder'[p].id = IF q.now.id # q.was.id THEN q.now.id ELSE holder[p].id
        /\ \A x \in Staff : x # p => holder'[x] = holder[x]
        /\ holder' \in [Staff -> Holder]
    BY <1>1, <1>7, <2>1, <2>2, <2>3 DEF ReferenceTypeOK, Given, Holder
  <2>5. Rows' = Rows /\ Offered' = Offered
    BY <2>1 DEF Rows, Offered
  <2>6. ReferenceTypeOK'
    BY <1>1, <2>1, <2>4 DEF ReferenceTypeOK
  <2>7. NamesDistinct' /\ CodesDistinct' /\ RequestsNameRows'
    BY <1>3, <2>1, <2>5 DEF Inv, NamesDistinct, CodesDistinct
  <2> QED BY <2>6, <2>7 DEF Inv
<1> QED BY <1>1, <1>4, <1>5, <1>6, <1>7

-----------------------------------------------------------------------------
(* Theorems.  What is assumed of the constants is a hypothesis. *)

LEMMA InitInv ==
    ASSUME ReferenceAssumption, InitReference
    PROVE  Inv
<1>1. \A r \in Forms : form[r].op = "idle"
  BY Basics DEF InitReference
<1>2. ReferenceTypeOK
  BY Basics DEF InitReference, ReferenceTypeOK
<1>3. Rows = {}
  BY Basics DEF InitReference, Rows
<1> QED BY <1>1, <1>2, <1>3 DEF Inv, NamesDistinct, CodesDistinct, RequestsNameRows, NamesRows

LEMMA NextInv ==
    ASSUME ReferenceAssumption, Inv, [NextReference]_referenceVars
    PROVE  Inv'
<1>1. CASE UNCHANGED referenceVars
  BY <1>1 DEF referenceVars, Inv, ReferenceTypeOK, NamesDistinct, CodesDistinct,
     RequestsNameRows, NamesRows, Rows
<1> QED BY <1>1, AddStep, RenameStep, RetireStep, GiveStep, RestoreStep, CommitStep, AbortStep
           DEF NextReference

LEMMA SpecInv ==
    ASSUME ReferenceAssumption
    PROVE  SpecReference => []Inv
<1>1. InitReference => Inv
  BY InitInv
<1>2. Inv /\ [NextReference]_referenceVars => Inv'
  BY NextInv
<1> QED BY <1>1, <1>2, PTL DEF SpecReference

\* Rows, holders and requests have their types (reference.py, migration 007).
THEOREM Typing ==
    ASSUME ReferenceAssumption
    PROVE  SpecReference => []ReferenceTypeOK
<1>1. Inv => ReferenceTypeOK
  BY DEF Inv
<1> QED BY <1>1, SpecInv, PTL

\* No two rows ever have one name, capitals apart (_check_unique and the unique
\* indexes of migration 007), nor one code, whatever names have the same slug
\* (_unique_code).
THEOREM RowsAreDistinct ==
    ASSUME ReferenceAssumption
    PROVE  SpecReference => []RowsDistinct
<1>1. Inv => RowsDistinct
  BY DEF Inv, RowsDistinct
<1> QED BY <1>1, SpecInv, PTL

-----------------------------------------------------------------------------
(* Retired rows *)

\* What the requests in flight are about to do: a row that is being retired is
\* held by nobody, and who is edited holds what they held, or what is offered.
RetiringIsUnheld == \A r \in Forms : form[r].op = "retire" => Holders(form[r].id) = {}

EditsAreFresh ==
    \A r \in Forms : form[r].op = "edit" =>
        holder[form[r].person].id \in {form[r].was.id} \cup Offered

Unheld == RetiredIsUnheld /\ RetiringIsUnheld /\ EditsAreFresh

\* A step that leaves the holders, retires nothing, and begins nothing but what fits.
LEMMA UnheldKept ==
    ASSUME Unheld, holder' = holder, Offered \subseteq Offered',
           \A s \in Forms : \/ form'[s] = form[s]
                            \/ /\ form'[s].op = "retire"
                               /\ Holders(form'[s].id) = {}
                            \/ /\ form'[s].op = "edit"
                               /\ holder[form'[s].person].id = form'[s].was.id
                            \/ form'[s].op \notin {"retire", "edit"}
    PROVE  Unheld'
<1>1. RetiredIsUnheld'
  BY DEF Unheld, RetiredIsUnheld
<1>2. \A i : Holders(i)' = Holders(i)
  BY DEF Holders
<1>3. RetiringIsUnheld'
  BY <1>2 DEF Unheld, RetiringIsUnheld
<1>4. EditsAreFresh'
  BY DEF Unheld, EditsAreFresh
<1> QED BY <1>1, <1>3, <1>4 DEF Unheld

LEMMA UnheldStep ==
    ASSUME ReferenceAssumption, Inv, Unheld, OfferedIsGiven, RetiringIsAlone,
           [NextReference]_referenceVars
    PROVE  Unheld'
<1> USE DEF Inv
<1>1. CASE UNCHANGED referenceVars
  BY <1>1, UnheldKept DEF referenceVars, Offered, Rows
<1>2. ASSUME NEW r \in Forms, NEW i \in Ids, NEW n \in Names, AddRow(r, i, n) \/ Rename(r, i, n)
      PROVE  Unheld'
  <2>1. /\ holder' = holder /\ Offered' = Offered
        /\ form'[r].op \in {"add", "rename"} /\ \A s \in Forms : s # r => form'[s] = form[s]
    BY <1>2 DEF AddRow, Rename, Send, ReferenceTypeOK, NoForm, Offered, Rows
  <2> QED BY <2>1, UnheldKept
<1>3. ASSUME NEW r \in Forms, NEW i \in Ids, Retire(r, i)
      PROVE  Unheld'
  <2>1. /\ holder' = holder /\ Offered' = Offered
        /\ form'[r].op = "retire" /\ form'[r].id = i /\ Holders(i) = {}
        /\ \A s \in Forms : s # r => form'[s] = form[s]
    BY <1>3 DEF Retire, Send, ReferenceTypeOK, NoForm, Offered, Rows
  <2> QED BY <2>1, UnheldKept
<1>4. ASSUME NEW r \in Forms, NEW i \in Ids, NEW p \in Staff, NEW active \in BOOLEAN,
             GiveRow(r, p, i, active)
      PROVE  Unheld'
  <2>1. /\ holder' = holder /\ Offered' = Offered
        /\ form'[r].op = "edit" /\ form'[r].person = p /\ form'[r].was = holder[p]
        /\ \A s \in Forms : s # r => form'[s] = form[s]
    BY <1>4 DEF GiveRow, Send, ReferenceTypeOK, NoForm, Offered, Rows
  <2> QED BY <2>1, UnheldKept
<1>5. ASSUME NEW i \in Ids, Restore(i)
      PROVE  Unheld'
  <2>1. holder' = holder /\ form' = form /\ Offered \subseteq Offered'
    BY <1>5, RestoreStep DEF Restore
  <2> QED BY <2>1, UnheldKept
<1>6. ASSUME NEW r \in Forms, AbortForm(r)
      PROVE  Unheld'
  <2>1. /\ holder' = holder /\ Offered' = Offered
        /\ form'[r].op = "idle" /\ \A s \in Forms : s # r => form'[s] = form[s]
    BY <1>6, Basics DEF AbortForm, ReferenceTypeOK, Offered, Rows
  <2> QED BY <2>1, UnheldKept
<1>7. ASSUME NEW r \in Forms, CommitForm(r)
      PROVE  Unheld'
  <2> DEFINE q == form[r]
  <2>1. /\ form'[r].op = "idle" /\ \A s \in Forms : s # r => form'[s] = form[s]
        /\ q \in Form /\ q.op \in {"add", "rename", "retire", "edit"} /\ NamesRows(q)
    BY <1>7, Basics DEF CommitForm, ReferenceTypeOK, Form, RequestsNameRows
  <2>2. CASE q.op \in {"add", "rename"}
    <3>1. holder' = holder
      BY <1>7, <2>2 DEF CommitForm, Given
    <3>2. Offered \subseteq Offered'
      <4>1. ASSUME NEW j \in Offered
            PROVE  j \in Ids /\ table[j] \in TableRow /\ table[j].active
        BY DEF Offered, Rows, ReferenceTypeOK
      <4>2. CASE q.op = "add"
        <5>1. /\ table' = [table EXCEPT ![q.id] = q.row] /\ table[q.id] = Null
          BY <1>7, <4>2 DEF CommitForm, Stored, IsNew
        <5>2. ASSUME NEW j \in Offered
              PROVE  table'[j] = table[j]
          BY <4>1, <5>1, Basics DEF ReferenceTypeOK
        <5> QED BY <4>1, <5>2 DEF Offered, Rows
      <4>3. CASE q.op = "rename"
        <5>1. table' = [table EXCEPT ![q.id].name = q.row.name, ![q.id].code = q.row.code]
          BY <1>7, <4>3 DEF CommitForm, Stored
        <5>2. q.row.name \in Names /\ q.row.code \in Codes
          BY <2>1, <4>3 DEF NamesRows, TableRow
        <5>3. ASSUME NEW j \in Offered
              PROVE  table'[j] \in TableRow /\ table'[j].active
          BY <4>1, <5>1, <5>2 DEF TableRow, ReferenceTypeOK
        <5> QED BY <4>1, <5>3, Basics DEF Offered, Rows
      <4> QED BY <2>2, <4>2, <4>3
    <3> QED BY <2>1, <3>1, <3>2, UnheldKept
  <2>3. CASE q.op = "retire"
    <3>1. PICK i \in Ids : i = q.id
      BY <2>1, <2>3 DEF NamesRows
    <3>2. holder' = holder /\ table' = [table EXCEPT ![i].active = FALSE]
      BY <1>7, <2>3, <3>1 DEF CommitForm, Stored, Given
    <3>3. Offered \ {i} \subseteq Offered'
      BY <3>2 DEF Offered, Rows, ReferenceTypeOK
    <3>4. Holders(i) = {} /\ \A s \in Forms : form[s].op # "edit"
      BY <2>3, <3>1 DEF Unheld, RetiringIsUnheld, RetiringIsAlone
    <3>5. RetiredIsUnheld'
      BY <3>2, <3>3, <3>4 DEF Unheld, RetiredIsUnheld, Holders
    <3>6. \A j : Holders(j)' = Holders(j)
      BY <3>2 DEF Holders
    <3>7. RetiringIsUnheld' /\ EditsAreFresh'
      BY <2>1, <3>4, <3>6 DEF Unheld, RetiringIsUnheld, EditsAreFresh
    <3> QED BY <3>5, <3>7 DEF Unheld
  <2>4. CASE q.op = "edit"
    <3>1. PICK p \in Staff : p = q.person
      BY <2>1, <2>4 DEF NamesRows
    <3>2. holder[p] \in Holder /\ q.was \in Holder /\ q.now \in Holder /\ q.now.id \in Offered
      BY <2>1, <2>4 DEF ReferenceTypeOK, Form, OfferedIsGiven
    <3>3. /\ table' = table
          /\ holder' = [holder EXCEPT
                ![p].id = IF q.now.id # q.was.id THEN q.now.id ELSE @,
                ![p].active = IF q.now.active # q.was.active THEN q.now.active ELSE @]
      BY <1>7, <2>4, <3>1 DEF CommitForm, Stored, Given
    <3>4. /\ holder'[p].id = IF q.now.id # q.was.id THEN q.now.id ELSE holder[p].id
          /\ \A x \in Staff : x # p => holder'[x] = holder[x]
      BY <3>2, <3>3 DEF ReferenceTypeOK, Holder
    <3>5. Offered' = Offered /\ holder'[p].id \in Offered
      BY <2>4, <3>1, <3>2, <3>3, <3>4 DEF Offered, Rows, Unheld, EditsAreFresh
    <3>6. RetiredIsUnheld'
      BY <3>4, <3>5 DEF Unheld, RetiredIsUnheld
    <3>7. RetiringIsUnheld'
      BY <2>1, <2>4 DEF RetiringIsUnheld, RetiringIsAlone
    <3>8. ASSUME NEW s \in Forms, form'[s].op = "edit"
          PROVE  holder'[form'[s].person].id \in {form'[s].was.id} \cup Offered'
      <4>1. form'[s] = form[s] /\ form[s].person \in Staff
        BY <2>1, <3>8 DEF RequestsNameRows, NamesRows
      <4> QED BY <3>4, <3>5, <3>8, <4>1 DEF Unheld, EditsAreFresh
    <3> QED BY <3>6, <3>7, <3>8 DEF Unheld, EditsAreFresh
  <2> QED BY <2>1, <2>2, <2>3, <2>4
<1> QED BY <1>1, <1>2, <1>3, <1>4, <1>5, <1>6, <1>7 DEF NextReference

\* What set_role_active and set_team_active promise rests on two things that the
\* code does not see to: if every form names a row that is offered when it is
\* carried out, and no person is edited while a row is being retired, nobody active
\* ever holds a retired row.
THEOREM RetiredRowsAreUnheld ==
    ASSUME ReferenceAssumption
    PROVE  SpecReference /\ []OfferedIsGiven /\ []RetiringIsAlone => []RetiredIsUnheld
<1>1. InitReference => Unheld
  BY Basics DEF InitReference, Unheld, RetiredIsUnheld, RetiringIsUnheld, EditsAreFresh
<1>2. Inv /\ Unheld /\ OfferedIsGiven /\ RetiringIsAlone /\ [NextReference]_referenceVars => Unheld'
  BY UnheldStep
<1>3. Unheld => RetiredIsUnheld
  BY DEF Unheld
<1> QED BY <1>1, <1>2, <1>3, SpecInv, PTL DEF SpecReference

=============================================================================
