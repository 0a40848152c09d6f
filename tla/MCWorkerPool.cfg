CONSTANTS
    b = b  x = x  i1 = i1  i2 = i2
    NoSeat = NoSeat
    Nobody = Nobody
    Process = {0, 1}
    Ids = {i1, i2}
    MaxTickets = 1
    LastSeat = 1
    Purchase = {b, x}
    OrderOf <- MCOrderOf
    RedisRetries = 0
    MaxCopies <- MCCopies
    MaxFaults = 1
SPECIFICATION PoolSpec
INVARIANTS StopAllStops
PROPERTIES PoolSettles
CHECK_DEADLOCK FALSE
