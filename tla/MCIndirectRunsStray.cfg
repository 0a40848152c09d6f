CONSTANTS
    a1 = a1  a2 = a2
    i1 = i1  w1 = w1  w2 = w2
    NoSeat = NoSeat
    Nobody = Nobody
    Process = {w1, w2}
    Ids = {i1}
    Purchase = {a1, a2}
    OrderOf <- MCOrderOf
    RunOf <- MCRunOf
    Runs = 2
    MaxTickets = 1
    LastSeat = 1
    RedisRetries = 1
    MaxCopies <- MCCopies
    MaxFaults = 0
SPECIFICATION RunsSpec
SYMMETRY Symmetry
INVARIANTS NoContamination
CHECK_DEADLOCK FALSE
