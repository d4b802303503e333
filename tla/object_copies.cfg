\* Every kind; each nil-able field absent in turn.  The retries are bounded and
\* an object whose status is as wanted is left alone: CHECK_DEADLOCK FALSE.
SPECIFICATION Spec
CONSTANTS
    Kinds <- AllKinds
    Lists <- AllLists
    MaxAttempts = 3
CHECK_DEADLOCK FALSE
INVARIANTS CacheIntact ChangeNoticed
