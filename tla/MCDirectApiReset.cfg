CONSTANTS
    a1 = a1  a2 = a2  b = b  d = d  f = f  x = x
    i1 = i1  i2 = i2  i3 = i3  r1 = r1  r2 = r2
    NoSeat = NoSeat
    Nobody = Nobody
    Process = {r1, r2}
    Ids = {i1, i2, i3}
    MaxTickets = 1
    LastSeat = 1
    Purchase <- MCContention
    OrderOf <- MCContentionOf
    RedisRetries = 0
    MaxFaults = 0
    MaxResets = 1
SPECIFICATION Spec
PROPERTIES ResetClearsEveryCache
CHECK_DEADLOCK FALSE
