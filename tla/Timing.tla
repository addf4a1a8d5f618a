-------------------------------- MODULE Timing --------------------------------
(***************************************************************************)
(* What a form says of the time something happened, made into a moment     *)
(* (src/backend/app/work/timing.py).  Constant definitions only; moments   *)
(* and offsets are in minutes.                                             *)
(***************************************************************************)
EXTENDS Integers

CONSTANTS
    MaxBackdate,  \* MAX_BACKDATE
    ClockSkew,    \* CLOCK_SKEW
    NoOffset      \* the browser reported no offset

ASSUME TimingAssumption ==
    /\ MaxBackdate \in Nat /\ ClockSkew \in Nat
    /\ NoOffset \notin Int

RealOffsets == -840 .. 720

Shift_Subtracted(offset) == IF offset \in RealOffsets THEN - offset ELSE 0
\* The minutes to add to local time to reach UTC.  No offset, one that is not
\* a number and one that no clock has are taken for UTC.
Shift(offset) == IF offset \in RealOffsets THEN offset ELSE 0

\* The text has a zone of its own or is a reading of the browser's clock.
Stated(zoned, reading, offset) == reading + IF zoned THEN 0 ELSE Shift(offset)

Refused(moment, now) ==
    \/ moment > now + ClockSkew
    \/ now - moment > MaxBackdate

\* A moment that is ahead by no more than the skew is now.
Clamped(moment, now) == IF moment > now THEN now ELSE moment

\* What parse_when returns for a text that it can read and does not refuse.
ParseWhen(zoned, reading, offset, now) == Clamped(Stated(zoned, reading, offset), now)

IsAccepted(zoned, reading, offset, now) == ~ Refused(Stated(zoned, reading, offset), now)

Backdated(occurred, recorded) == recorded - occurred > 10

-----------------------------------------------------------------------------
(* Properties *)

\* No accepted time is ahead of the clock or older than a fortnight, the clock
\* is corrected by no more than the skew, and one moment is one time, on
\* whatever clock it was read (parse_when).
KeepsTheMoment(now, moment, offset) ==
    offset \in RealOffsets =>
        LET local == ParseWhen(FALSE, moment - offset, offset, now)
            utc == ParseWhen(TRUE, moment, NoOffset, now)
        IN /\ IsAccepted(FALSE, moment - offset, offset, now) <=> IsAccepted(TRUE, moment, NoOffset, now)
           /\ local = utc
           /\ IsAccepted(TRUE, moment, NoOffset, now) =>
                 /\ utc \in now - MaxBackdate .. now
                 /\ moment - utc \in 0 .. ClockSkew

\* Two entries made on one clock keep their order, also when the later one is
\* entered later and runs into the clamp (parse_when): catching up on
\* several events does not turn them round.
KeepsTheOrder(now, later, a, b, offset) ==
    /\ now <= later /\ a <= b
    /\ IsAccepted(FALSE, a, offset, now)
    /\ IsAccepted(FALSE, b, offset, later)
    => ParseWhen(FALSE, a, offset, now) <= ParseWhen(FALSE, b, offset, later)

==============================================================================
