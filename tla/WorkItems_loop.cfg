\* INV-4 under two concurrent requests.
SPECIFICATION StartedSpec
CONSTANTS
    i1 = i1  i2 = i2  i3 = i3
    p1 = p1  p2 = p2
    d1 = d1  d2 = d2
    r1 = r1  r2 = r2
    None = None
    Items = {i1, i2}
    People = {p1}
    Details = {d1}
    Requests = {r1, r2}
    Reach <- MCReach
    MaxNow = 0
    MaxVersion = 3
    MaxSpells = 1
INVARIANTS NoDisplacementLoop
