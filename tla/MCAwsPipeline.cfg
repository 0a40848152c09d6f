CONSTANTS
    a = a  x = x  a1 = a1  a2 = a2  x1 = x1  x2 = x2
    i1 = i1  i2 = i2  e1 = e1  e2 = e2
    NoSeat = NoSeat
    Nobody = Nobody
    Env = {e1, e2}
    Message = {a, x}
    MessageOf <- MCMessageOf
    Record = {a1, a2, x1, x2}
    Ids = {i1, i2}
    OrderOf <- MCOrderOf
    MaxUnnumbered = 2
    MaxSeats = 1
    BatchSize = 2
    MaxReceives = 2
    MaxFaults = 1
    ForwardSize = 2
    MaxErrors = 1
SPECIFICATION PipelineSpec
SYMMETRY Symmetry
INVARIANTS RepeatsNeedErrors StrandedAreRefused BridgeNeedsAgreement NothingLostEndToEnd
CHECK_DEADLOCK FALSE
