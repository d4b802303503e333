SPECIFICATION FairSpec
CONSTANTS
    o1 = o1
    o2 = o2
    r1 = r1
    r2 = r2
    Objects = {o1}
    KindOf <- PromotionOnly
    Replicas = {r1, r2}
    Phases = {"Proposed", "Evaluating"}
    MaxIncarnations <- Once
    MaxGeneration <- Twice
    MaxReports = 1
    MaxFaults = 1
INVARIANTS TypeOK Coherent
PROPERTIES ObservedMonotone PhaseBelongsToEngine NoEmptyWrite KeepsContract EventuallyAcknowledged
CHECK_DEADLOCK FALSE
