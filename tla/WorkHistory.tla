----------------------------- MODULE WorkHistory -----------------------------
(***************************************************************************)
(* What the work register promises, with no requests, versions or cached   *)
(* columns: one history of events and one list of ownership spells per     *)
(* item, each extended by one atomic operation at a time.  An item's state *)
(* is by definition where its history ends.  WorkItems implements this.    *)
(*                                                                         *)
(* The promise says nothing about loops of displacement: the register does *)
(* not keep them out when requests overlap.                                *)
(***************************************************************************)
EXTENDS Integers, Sequences, Lifecycle

CONSTANTS Items, People, None, MaxNow

ASSUME HistoryAssumption == MaxNow \in Nat

VARIABLES now, history, spells

vars == <<now, history, spells>>

Time == 0 .. MaxNow

LastOf(s) == s[Len(s)]

Init ==
    /\ now = 0
    /\ history = [i \in Items |-> <<>>]
    /\ spells = [i \in Items |-> <<>>]

Tick ==
    /\ now < MaxNow
    /\ now' = now + 1
    /\ UNCHANGED <<history, spells>>

\* An item comes into the world in NEW, with an owner or without.
Record(i, at, given) ==
    /\ history[i] = <<>>
    /\ at <= now
    /\ history' = [history EXCEPT ![i] =
                     <<[from |-> None, to |-> "NEW", at |-> at, displacer |-> None]>>]
    /\ spells' = [spells EXCEPT ![i] = given]
    /\ UNCHANGED now

\* One legal step of the lifecycle, dated no earlier than the last one.  Work
\* starts only under an owner and is put on hold only for another item.
Move(i, to, at, d) ==
    /\ history[i] # <<>>
    /\ to \in ALLOWED[LastOf(history[i]).to]
    /\ LastOf(history[i]).at <= at
    /\ at <= now
    /\ IF to = "ON_HOLD_PREEMPTED" THEN d \in Items \ {i} /\ history[d] # <<>>
                                   ELSE d = None
    /\ to = "IN_PROGRESS" => spells[i] # <<>>
    /\ history' = [history EXCEPT ![i] = Append(@,
                     [from |-> LastOf(@).to, to |-> to, at |-> at, displacer |-> d])]
    /\ UNCHANGED <<now, spells>>

\* Somebody takes the item from its owner, who held it until that moment.
Give(i, p, at) ==
    /\ history[i] # <<>>
    /\ at <= now
    /\ spells[i] # <<>> => /\ LastOf(spells[i]).person # p
                           /\ LastOf(spells[i]).from <= at
    /\ spells' = [spells EXCEPT ![i] =
                    Append([k \in DOMAIN @ |->
                              IF k = Len(@) THEN [@[k] EXCEPT !.to = at] ELSE @[k]],
                           [person |-> p, from |-> at, to |-> None])]
    /\ UNCHANGED <<now, history>>

Next ==
    \/ Tick
    \/ \E i \in Items, at \in Time :
          \/ Record(i, at, <<>>)
          \/ \E p \in People :
                Record(i, at, <<[person |-> p, from |-> at, to |-> None]>>)
          \/ \E to \in State, d \in Items \cup {None} : Move(i, to, at, d)
          \/ \E p \in People : Give(i, p, at)

Spec == Init /\ [][Next]_vars

-----------------------------------------------------------------------------
(* What a history looks like: inductive, and all that the figures made of  *)
(* histories rest on.                                                      *)

Event == [from : State \cup {None}, to : State, at : Time, displacer : Items \cup {None}]

IsHistory(h) ==
    /\ h \in Seq(Event)
    /\ h # <<>> => h[1].to = "NEW"
    /\ \A k \in 1 .. Len(h) - 1 :
          /\ h[k + 1].to \in ALLOWED[h[k].to]
          /\ h[k + 1].from = h[k].to
          /\ h[k].at <= h[k + 1].at

HistoryInv ==
    /\ now \in Time
    /\ history \in [Items -> Seq(Event)]
    /\ \A i \in Items : /\ IsHistory(history[i])
                        /\ history[i] # <<>> => LastOf(history[i]).at <= now

==============================================================================
