------------------------------ MODULE MCAbsence ------------------------------
(***************************************************************************)
(* Instances of Absence for TLC.                                           *)
(***************************************************************************)
EXTENDS Absence, TLC

CONSTANTS a1, a2, a3, s1, s2, r1, r2

IdRequestSymmetry == Permutations(Ids) \cup Permutations(Requests)

==============================================================================
