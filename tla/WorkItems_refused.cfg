\* A refused creation stays in the register.
SPECIFICATION Spec
CONSTANTS
    i1 = i1  i2 = i2  i3 = i3
    p1 = p1  p2 = p2
    d1 = d1  d2 = d2
    r1 = r1  r2 = r2
    None = None
    Items = {i1}
    People = {p1, p2}
    Details = {d1}
    Requests = {r1}
    Reach <- MCReach
    MaxNow = 1
    MaxVersion = 3
    MaxSpells = 1
INVARIANTS RefusedCreationKeepsNothing
