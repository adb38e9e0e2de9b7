CONSTANTS
    Clients = {c1, c2}
    Processes = {p1, p2}
    Keys = {k1, k2}
    Values = {v1}
    None = None
    Ttls = {1, 2}
    MaxEntries = 1
    MaxTime = 2
    MaxPuts = 2
SPECIFICATION Spec
INVARIANTS TypeOK HitsAreGenuine EntriesBounded
PROPERTIES ImplementsLossyCache
SYMMETRY Symmetry
CHECK_DEADLOCK FALSE
