CONSTANTS
    m1 = m1  m2 = m2
    Message = {m1, m2}
    ForwardSize = 2
    MaxErrors = 1
SPECIFICATION Spec
INVARIANTS RefusedGoesBack
CHECK_DEADLOCK FALSE
