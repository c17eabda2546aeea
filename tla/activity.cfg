SPECIFICATION MCSpec
CONSTANTS
    None = None
    t1 = t1
    t2 = t2
    ann = ann
    bob = bob
    b1 = b1
    b2 = b2
    fun = fun
    u1 = u1
    u2 = u2
    food = food
    trip = trip
    Txn = {t1}
    Member = {ann, bob}
    Bucket = {b1, b2}
    Category = {fun, Fuel}
    Fuel = Fuel
    TakesIncome = {b2}
    Rows <- MCRows
    Changes <- MCChanges
    Edits <- MCEdits
    Deletes = {b1, fun, bob}
    Req = {u1, u2}
    MaxBatches = 2
    MaxEdits = 1
    CascadeRace = FALSE
    ListRows = {1, 2, 3}
    Buckets = {food, trip}
    Events = {trip}
    Filters = {"bill"}
    InMonth = {1, 2}
    OfBill = {1, 2, 3}
    InFirst = {1, 2}
    First = food
    PageSize = 2
    Cap = 2
    MaxSelections = 2
    MaxJobs = 2
    MaxOutside = 1
    RowIds = {t1, t2}
    MaxActs = 2
    MaxFaults = 2
SYMMETRY MCSym
INVARIANTS TakeStays OwnShareCovered AppliedAsShown HoldEndsOnce QuietIsTrue
PROPERTY UndoIsExact
CHECK_DEADLOCK FALSE
