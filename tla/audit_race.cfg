\* Four racing writers of one object, one fault.
SPECIFICATION Spec
CONSTANTS
    q1 = q1
    q2 = q2
    q3 = q3
    q4 = q4
    Requests = {q1, q2, q3, q4}
    a = a
    b = b
    Specs = {a, b}
    k = k
    Secrets = {k}
    Redacted = Redacted
    None = None
    MaxFaults = 1
SYMMETRY Symmetry
CHECK_DEADLOCK FALSE
INVARIANTS TypeOK RefusesOnlyOnFailure TrailReachesStore
PROPERTIES WriteThenAct
