CONSTANTS
    a1 = a1  a2 = a2  b = b  c = c  d = d  x = x
    i1 = i1  i2 = i2  i3 = i3  i4 = i4  i5 = i5  e1 = e1  e2 = e2
    NoSeat = NoSeat
    Nobody = Nobody
    Env = {e1, e2}
    Record = {a1, a2, b, c, d, x}
    Ids = {i1, i2, i3, i4, i5}
    OrderOf <- MCRequests
    MaxUnnumbered = 1
    MaxSeats = 1
    BatchSize = 2
    MaxReceives = 2
    MaxFaults = 1
SPECIFICATION Spec
SYMMETRY Symmetry
CONSTRAINT OneCrowd
INVARIANTS TypeOK CounterMatchesRows SoldToOneRecord SeatSoldOnce DeletedIsDecided 
PROPERTIES ImplementsSale
CHECK_DEADLOCK FALSE
