\* Two clients and one resource of every kind; one of the clients tries every kind
\* of options, with up to two fields, the other writes a field of its own.
CONSTANTS
    Clients = {c1, c2}
    Thorough = {c1}
    Ids = {r1}
    Spares = {s1, s2}
    Initial = Initial
    Absent = Absent
    Undefined = Undefined
    Void = Void
    Null = Null
    Empty = Empty
    Invalid = Invalid
    MaxAttempts = 2
    MaxNamed = 2
SPECIFICATION Spec
SYMMETRY SpareSymmetry
INVARIANTS AdminTypeOK UpdatesAreExact OwnWriteReturned NotFoundIsTruthful ListingComplete
CHECK_DEADLOCK FALSE
