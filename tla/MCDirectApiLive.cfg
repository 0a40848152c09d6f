CONSTANTS
    a1 = a1  a2 = a2  b = b  d = d  f = f  x = x
    i1 = i1  i2 = i2  i3 = i3  r1 = r1  r2 = r2
    NoSeat = NoSeat
    Nobody = Nobody
    Process = {r1, r2}
    Ids = {i1, i2, i3}
    MaxTickets = 1
    LastSeat = 1
    Purchase <- MCEdges
    OrderOf <- MCEdgesOf
    RedisRetries = 0
    MaxFaults = 2
    MaxResets = 1
SPECIFICATION FairSpec
PROPERTIES CallsSettle
CHECK_DEADLOCK FALSE
