-------------------------------- MODULE Leave --------------------------------
(***************************************************************************)
(* What booking time off promises: a set of bookings, each of one person   *)
(* and the days they asked for, no day asked for twice by one person.      *)
(* Booking takes the days or is refused; a booking that is cancelled gives *)
(* back its own days and no others.  Absence implements this.              *)
(***************************************************************************)
EXTENDS Integers

CONSTANTS Staff, LastDay

VARIABLE bookings

Day == 0 .. LastDay

Init == bookings = {}

Book(p, first, last) ==
    LET days == first .. last IN
    /\ first <= last
    /\ \A b \in bookings : b.person = p => b.days \cap days = {}
    /\ bookings' = bookings \cup {[person |-> p, days |-> days]}

Cancel(b) == bookings' = bookings \ {b}

Next ==
    \/ \E p \in Staff, first, last \in Day : Book(p, first, last)
    \/ \E b \in bookings : Cancel(b)

Spec == Init /\ [][Next]_bookings

==============================================================================
