\* Every command of keleustesctl, and every request of another API client.
SPECIFICATION CtlSpec
CONSTANTS
    Policies <- MCPolicies
    ClientIDs = {c1}
    MintedID = minted
    None = None
    Invocations <- MCInvocations
    Namespaces = {"default", "prod"}
    Names = {"n1", "n2"}
    MaxFailures = 1
    MaxChanges = 3
INVARIANTS
    TypeOK
    GuardedOperations
    AccessLogTruthful
    OneCoherentAnswer
    CauseLoggedNotLeaked
    OutputReported
    AnswersTheQuestion
    WatchInOrder
    CtlReportTruthful
CHECK_DEADLOCK FALSE
