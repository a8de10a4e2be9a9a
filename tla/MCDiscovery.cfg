SPECIFICATION Spec
CONSTANTS
    sweep = sweep
    broadcast = broadcast
    request = request
    other = other
    ip1 = ip1
    ip2 = ip2
    net = net
    a = a
    b = b
    c = c
    k1 = k1
    k2 = k2
    p1 = p1
    p2 = p2
    Terminables = {sweep, broadcast, request, other}
    Requests = {request, other}
    PoolThreads = {p1, p2}
    Cancellers = {k1, k2}
    Locks = {1, 2, 3, 4, 5}
    MaxRequests = 2
    NoThread = NoThread
    NoTask = NoTask
    Sweeps = {sweep}
    Asks <- MCAsks
    Machines = {ip1, ip2}
    Networks = {net}
    Names <- MCNames
    Reached <- MCReached
    Casts <- MCCasts
INVARIANTS TypeOK CancelIsFelt AddsAreSerial NamesAreTheirs ScreenShowsTable
PROPERTY StartedEnds
CHECK_DEADLOCK FALSE
