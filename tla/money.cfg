SPECIFICATION MCSpec
CONSTANTS
    ann = ann
    bob = bob
    c1 = c1
    c2 = c2
    k1 = k1
    NoOne = NoOne
    Member = {ann, bob}
    Req = {c1, c2}
    Key = {k1}
    Saves <- MCSaves
    Edits <- MCEdits
    Amounts = {1, 2}
    Months = {1, 2, 3}
    MaxRows = 3
    MaxExpenses = 1
    MaxRequests = 4
    None = None
    FormAmounts = {1, 2}
    MaxActs = 3
    MaxLost = 1
CONSTRAINT MCNotRaced
SYMMETRY MCSym
INVARIANTS OwnActsNeverOverdraw TakeInStep WalletAddsUp RetryIsOnce
CHECK_DEADLOCK FALSE
