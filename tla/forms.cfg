SPECIFICATION MCSpec
CONSTANTS
    None = None
    m1 = m1
    m2 = m2
    b1 = b1
    b2 = b2
    c1 = c1
    c2 = c2
    milk = milk
    eggs = eggs
    code = code
    other = other
    short = short
    long = long
    Members <- MCMembers
    Me = m1
    Buckets <- MCBuckets
    IncomeBuckets <- MCIncomeBuckets
    Categories <- MCCategories
    Amounts = {0, 3}
    TypedValues = {1, 50}
    Stored <- MCStored
    Receipts <- MCReceipts
    Stash = 2
    MaxSteps = 3
    MaxSaves = 1
    MaxGone = 1
    MaxTyped = 2
    MaxMounts = 3
    MaxJobs = 2
    Queries = {short, long}
    Goods = {milk, eggs}
    Codes = {code, other}
    HitsOf <- MCHitsOf
    GoodOf <- MCGoodOf
    CodeOf <- MCCodeOf
    MaxActs = 5
    MaxScans = 2
    MaxLost = 1
CONSTRAINT EditsFirst
SYMMETRY MCSym
INVARIANTS SaveIsAccepted SavedOnce CameraOff
PROPERTY TypedIsKept
CHECK_DEADLOCK FALSE
