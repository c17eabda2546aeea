SPECIFICATION MCSpec
CONSTANTS
    None = None
    Due <- MCDue
    ItemOf <- MCItemOf
    Usual <- MCUsual
    Income = {}
    MonthLength = 4
    Today = 2
    Horizon = 2
    Matched = "soon"
    MatchAmount = 3
    Amounts = {5}
    MaxActs = 2
    MaxLost = 1
    Budget = Budget
    Viewer = Viewer
    Stored <- MCStored
    ItemAmounts = {7}
    MaxPresses = 4
    MaxFaults = 1
INVARIANTS ShownIsWhatWillBe OnlyWhatWasTyped
CHECK_DEADLOCK FALSE
