CONSTANTS
    b1 = b1
    b2 = b2
    u1 = u1
    u2 = u2
    ann = ann
    bob = bob
    v1 = v1
    v2 = v2
    Values = {v1, v2}
    FirstContent <- MCFirst
    Unset = Unset
    UpdateInputs <- MCInputs
    Bookings = {b1, b2}
    Updates = {u1, u2}
    Deletes = {d1}
    customerOf <- MCOneCustomer
    Free = Free
    BATCH_SIZE = 2
    MaxFaults = 0
    NoUpdate = NoUpdate
SPECIFICATION MCSpec
INVARIANTS CustomersToldOnce
\* Once every request is answered and every mail sent nothing is left to do.
CHECK_DEADLOCK FALSE
