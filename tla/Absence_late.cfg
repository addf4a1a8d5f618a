\* An approval and a cancellation cross.
SPECIFICATION SpecAbsence
CONSTANTS
    a1 = a1  a2 = a2  a3 = a3
    s1 = s1  s2 = s2
    r1 = r1  r2 = r2
    Unset = Unset
    Staff = {s1, s2}
    Approvers = {s1}
    Ids = {a1}
    Requests = {r1, r2}
    LastDay = 1
    MaxSpan = 1
PROPERTIES CancelledIsNeverApproved
SYMMETRY IdRequestSymmetry
\* The finite set of ids runs out.
CHECK_DEADLOCK FALSE
