SPECIFICATION SpecStaying
CONSTANTS
    p1 = p1
    p2 = p2
    w1 = w1
    w2 = w2
    i1 = i1
    t1 = t1
    t2 = t2
    t3 = t3
    r1 = r1
    r2 = r2
    None = None
    People = {p1, p2}
    Guessed = {}
    Own = {w1, w2}
    Issued = {i1}
    Tokens = {t1, t2, t3}
    Requests = {r1, r2}
    MaxFailed = 2
    MaxMeetings = 0
    k1 = k1
    k2 = k2
    Ids = {k1, k2}
    Staff = {p1}
    Forms = {r1, r2}
    Null = Null
    Names <- Typed
    Lower <- LowerOf
    Slug <- SlugOf
    MaxSuffix = 2
SYMMETRY Symmetry
CHECK_DEADLOCK FALSE
INVARIANT LastAdminStays
