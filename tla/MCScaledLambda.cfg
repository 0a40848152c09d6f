CONSTANTS
    a = a  d = d  i1 = i1  i2 = i2  e1 = e1  e2 = e2
    NoSeat = NoSeat
    Nobody = Nobody
    Env = {e1, e2}
    Record = {a, d}
    Ids = {i1, i2}
    OrderOf <- MCOrderOf
    MaxUnnumbered = 1
    MaxSeats = 1
    BatchSize = 2
    MaxReceives = 2
    MaxFaults = 2
    MinWorkers = 1
    MaxWorkers = 2
    Capacity = 1
    TargetResponse = 1
    Elapsed = {1, 2}
SPECIFICATION ScaledSpec
INVARIANTS CurrentIsReserved
PROPERTIES ScalesBack RecordsSettle
CHECK_DEADLOCK FALSE
