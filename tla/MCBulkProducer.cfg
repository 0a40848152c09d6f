CONSTANTS
    a = a  d = d  f = f  i1 = i1  w1 = w1  w2 = w2
    NoSeat = NoSeat
    Nobody = Nobody
    Process = {w1, w2}
    Ids = {i1}
    MaxTickets = 1
    LastSeat = 1
    Purchase = {a, d, f}
    OrderOf <- MCOrderOf
    RedisRetries = 1
    MaxCopies <- MCCopies
    MaxFaults = 2
    File <- MCFile
    BatchSize = 2
SPECIFICATION ServiceSpec
SYMMETRY Symmetry
INVARIANTS TypeOK Conservation AnswersMatchAcks SeatToldOnce StockAccounted NoUntoldSale NoOrphanDuplicate FileSent RepeatsNeedFailures
CHECK_DEADLOCK FALSE
