\* Time off, and what is made of the records, one machine at a time.
SPECIFICATION SpecRecords
CONSTANTS
    i1 = i1  i2 = i2
    p1 = p1  p2 = p2
    r1 = r1  r2 = r2
    a1 = a1  a2 = a2
    s1 = s1  s2 = s2  s3 = s3
    None = None
    NoOffset = NoOffset
    MaxBackdate = 20160
    ClockSkew = 2
    Items = {i1, i2}
    People = {p1, p2}
    MaxNow = 5
    DayLen = 2
    FirstWeekday = 6
    WeekendDays = {7}
    OptionalDays = {6}
    Holidays = {4}
    Window = 4
    StaleAfter = 1
    Null = Null
    Moments <- MCMoments
    Arrivals <- MCArrivals
    Offsets <- MCOffsets
    Ticks <- MCTicks
    Sizes <- MCSizes
    Work = {s1, s2, s3}
    Labels <- MCLabels
    MinSample = 2
    Horizon = 2
    WeekLen = 1
    Weeks = 2
    MaxClock = 3
    Runs = {r1, r2}
    KeepDays = 1
    MaxDay = 2
    MaxDumps = 3
    Unset = Unset
    Staff = {p1, p2}
    Approvers = {p1}
    Ids = {a1, a2}
    Requests = {r1, r2}
    LastDay = 2
    MaxSpan = 1
CHECK_DEADLOCK FALSE
SYMMETRY Symmetry
INVARIANTS
    OneAbsenceADay
    AwayAsAsked
    RefusedOnlyIfTaken
    TimesAddUp
    SamplesAreWhole
    WorkingTimeIsExact
    ForecastsAreTrue
    RanksAreExact
    TalliesAgree
    OfferedAreFinished
    StatedTimesAreKept
PROPERTIES
    ImplementsLeave
    OneRuler
    FinishedFiguresGrow
    WarningsStay
    LastGoodIsKept
