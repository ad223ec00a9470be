CONSTANTS
    e1 = e1
    e2 = e2
    ann = ann
    bob = bob
    olga = olga
    otto = otto
    k1 = k1
    Free = Free
    NoKey = NoKey
    Events = {e1, e2}
    Customers = {ann, bob}
    Keys = {k1}
    Organizers = {olga, otto}
    BookRequests = {b1, b2, b3}
    CancelRequests = {x1, x2}
    OrganizerRequests = {o1}
    BookInputs <- MCBookInputs
    CancelInputs <- MCAnyoneCancels
    OrganizerInputs <- MCRaceEdits
    Owner <- MCOwner
    Capacities = {2, 3}
    MaxQuantity = 2
    MaxTime = 1
SPECIFICATION Spec
SYMMETRY Symmetry
CONSTRAINT LineUp
INVARIANTS InventoryConserved OneBookingPerKey ResolveFindsBooking AnswersAreTrue CancelledOnce DeadlocksAreRetries
PROPERTIES ImplementsInventory ImplementsEventRow CancelledByOwner BookedWhileOpen
\* Once every request is answered nothing is left to do.
CHECK_DEADLOCK FALSE
