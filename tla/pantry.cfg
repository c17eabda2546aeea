SPECIFICATION MCSpec
CONSTANTS
    None = None
    i1 = i1
    i2 = i2
    down = down
    up = up
    k1 = k1
    k2 = k2
    k3 = k3
    code = code
    l1 = l1
    u1 = u1
    u2 = u2
    Item = {i1, i2}
    Code = {code}
    Tap = {down, up}
    TapOf <- MCTapOf
    Tick = {k1, k2, k3}
    TickOf <- MCTickOf
    Line = {l1}
    Req = {u1, u2}
    Quantity = {0, 1}
    First <- MCFirst
    MaxRequests = 5
    MaxQuantity = 4
    Items = {milk}
    Lines = {candles}
    LateArrivals = FALSE
    MaxTaps = 2
    MaxLost = 1
    Names = {milk, oat}
    FirstQty = {0}
    MaxQty = 3
    MaxActs = 3
    MaxItemLost = 1
SYMMETRY MCSym
INVARIANTS QuantityIsLog TapOnce NoTickLost LastTapStands TapsAddUp
CHECK_DEADLOCK FALSE
