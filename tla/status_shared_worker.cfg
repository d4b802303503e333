SPECIFICATION FairSpec
CONSTANTS
    o1 = o1
    o2 = o2
    r1 = r1
    r2 = r2
    Objects = {o1, o2}
    KindOf <- ApplicationOnly
    Replicas = {r1}
    Phases = {"Proposed", "Evaluating"}
    MaxIncarnations <- FirstTwice
    MaxGeneration <- FirstTwice
    MaxReports = 0
    MaxFaults = 1
INVARIANTS ObservedNotAhead
PROPERTIES EventuallyAcknowledged
CHECK_DEADLOCK FALSE
