SPECIFICATION MCSpec
CONSTANTS
    None = None
    LastDay = 8
    MonthStart <- MCMonthStart
    MonthsPerYear = 2
    WeekLen = 3
    Easter <- MCEaster
    Offs <- MCOffs
    g1 = g1
    g2 = g2
    Req = {g1, g2}
    Bodies <- MCBodies
    Legacy = {1}
    Horizon = 4
    Bucketed = FALSE
    Overlap = {"edit", "put", "resume", "top_up", "delete"}
    MaxToday = 1
    MaxTouches = 1
    MaxRequests = 3
    ann = ann
    bob = bob
    cyd = cyd
    home = home
    trip = trip
    t1 = t1
    r1 = r1
    r2 = r2
    Person = {ann, bob, cyd}
    Bucket = {home, trip}
    Cent = 6
    Forms <- MCForms
    Asked <- MCAsked
    Orders <- MCOrders
    Tab = {t1}
    Settler = {r1, r2}
    MaxListed = 2
    MaxChanges = 1
    MaxSettles = 2
CONSTRAINT NotCrossed
SYMMETRY MCSym
INVARIANTS OncePerPeriod Covered PaidOnce
PROPERTIES PaymentsOutliveItem SettleClears
CHECK_DEADLOCK FALSE
