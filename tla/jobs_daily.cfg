SPECIFICATION JobSpec
CONSTANTS
    p1 = p1
    p2 = p2
    ann = ann
    rent = rent
    rent2 = rent2
    month = month
    month2 = month2
    milk = milk
    None = None
    Process = {p1, p2}
    Member = {ann}
    Reminder = {rent, rent2, month, month2}
    StageOf <- MCStageOf
    DaysOf <- MCDaysOf
    Product = {milk}
    MayEnd = {rent}
    MayMute <- MCMayMute
    MaxDay = 2
    MaxStarts = 2
    MaxBegun = 2
    MaxFails = 1
    MaxChanges = 1
INVARIANT PushedOnce
PROPERTY RunsEnd
CHECK_DEADLOCK FALSE
