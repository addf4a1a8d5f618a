-------------------------------- MODULE MCStaff --------------------------------
(***************************************************************************)
(* Instances of Accounts and Reference for TLC.                            *)
(*                                                                         *)
(* The two share no column.  One run explores both, one at a time: each    *)
(* moves only while the other is in its initial state, so the states add   *)
(* up and do not multiply.                                                 *)
(***************************************************************************)
EXTENDS Accounts, Reference, TLC

CONSTANTS p1, p2, w1, w2, i1, t1, t2, t3, r1, r2, k1, k2

Typed == {"Acme", "ACME", "Acme!"}
LowerOf == [n \in Typed |-> IF n = "ACME" THEN "Acme" ELSE n]
SlugOf == [n \in Typed |-> "ACME"]

ASSUME ReferenceInstance == ReferenceAssumption

InitStaff == Init /\ InitReference

NextStaff ==
    \/ InitReference /\ Next /\ UNCHANGED referenceVars
    \/ Init /\ NextReference /\ UNCHANGED vars

SpecStaff == InitStaff /\ [][NextStaff]_<<vars, referenceVars>>

\* The same, as long as no administrator gives up the role.
SpecStaying == InitStaff /\ [][NextStaff /\ NobodyStepsDown']_<<vars, referenceVars>>

Symmetry == Permutations(Tokens) \cup Permutations(Requests) \cup Permutations(Own)
            \cup Permutations(Ids)

================================================================================
