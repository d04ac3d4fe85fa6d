CONSTANTS
    Unasked = FALSE
    Clients = {c1}
    c1 = c1
    Faults = {}
SPECIFICATION Spec
INVARIANT StoppingNotDelivered
