CONSTANTS
    a1 = a1  a2 = a2  b1 = b1
    i1 = i1  i2 = i2  r1 = r1  r2 = r2
    NoSeat = NoSeat
    Nobody = Nobody
    Process = {r1, r2}
    Ids = {i1, i2}
    MaxTickets = 1
    LastSeat = 1
    Purchase = {a1, a2, b1}
    OrderOf <- MCOrderOf
    RedisRetries = 1
    MaxFaults = 1
    MaxResets = 2
    Runs = 2
    RunOf <- MCRunOf
    Threads = 2
    Retries = 1
SPECIFICATION RunsSpec
INVARIANTS SummaryAgrees NoDuplicateSales DuplicatesExplained
PROPERTIES RunsFinish
CHECK_DEADLOCK FALSE
