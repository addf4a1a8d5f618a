----------------------------- MODULE MCWorkItems -----------------------------
(***************************************************************************)
(* Instances of WorkItems for TLC.                                         *)
(***************************************************************************)
EXTENDS WorkItems, TLC

CONSTANTS i1, i2, i3, p1, p2, d1, d2, r1, r2

OneItem == {i1}
TwoItems == {i1, i2}
ThreeItems == {i1, i2, i3}

\* p1 leads across teams; p2 reaches only p2's own team.
MCReach == [p \in People |-> IF p = p1 THEN People ELSE {p}]

RequestSymmetry == Permutations(Requests)
ItemSymmetry == Permutations(Items)
RequestItemSymmetry == RequestSymmetry \cup ItemSymmetry

\* The register after every item was recorded with p1 as its owner and
\* started: the shortest way to it is Create, Load, CheckTransition and
\* CommitTransition for each item.  Runs about displacement begin here.
InitStarted ==
    /\ now = 0
    /\ recorded = Items
    /\ state = [i \in Items |-> "IN_PROGRESS"]
    /\ displacer = [i \in Items |-> None]
    /\ version = [i \in Items |-> 2]
    /\ details = [i \in Items |-> d1]
    /\ events = [i \in Items |->
          <<[from |-> None, to |-> "NEW", at |-> 0, displacer |-> None],
            [from |-> "NEW", to |-> "IN_PROGRESS", at |-> 0, displacer |-> None]>>]
    /\ owners = [i \in Items |-> <<[person |-> p1, from |-> 0, to |-> None]>>]
    /\ audit = [i \in Items |->
          <<[field |-> "state", old |-> "NEW", new |-> "IN_PROGRESS"]>>]
    /\ acked = Items
    /\ req = [r \in Requests |-> Idle]

StartedSpec == InitStarted /\ [][Next]_vars
\* Holds that do not overlap; everything else may.
TurnsSpec == InitStarted /\ [][Next /\ HoldsTakeTurns']_vars
StartedFairSpec == StartedSpec /\ Fairness

==============================================================================
