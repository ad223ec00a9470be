CONSTANTS
    e1 = e1
    e2 = e2
    ann = ann
    bob = bob
    olga = olga
    otto = otto
    k1 = k1
    Free = Free
    NoKey = NoKey
    Events = {e1}
    Customers = {ann, bob}
    Keys = {k1}
    Organizers = {olga, otto}
    BookRequests = {b1, b2}
    CancelRequests = {x1}
    OrganizerRequests = {}
    BookInputs <- MCRetryInputs
    CancelInputs <- MCCancelInputs
    OrganizerInputs <- MCOrganizerInputs
    Owner <- MCOwner
    Capacities = {2}
    MaxQuantity = 2
    MaxTime = 1
SPECIFICATION Spec
SYMMETRY Symmetry
INVARIANTS NoDeadlock
\* Once every request is answered nothing is left to do.
CHECK_DEADLOCK FALSE
