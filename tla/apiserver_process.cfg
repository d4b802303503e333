\* The process may end: CHECK_DEADLOCK FALSE.
SPECIFICATION FairSpec
CONSTANTS
    a1 = a1
    a2 = a2
    p1 = p1
    ApiRequests = {a1, a2}
    ProbeRequests = {p1}
CHECK_DEADLOCK FALSE
INVARIANTS TypeOK SuccessMeansDrained
PROPERTIES SignalStops ListenerFailureStops
