\* The behaviour ends with the call: CHECK_DEADLOCK FALSE.
SPECIFICATION Spec
CONSTANTS
    Apps <- MCApps
    Releases <- MCReleases
    Filters <- MCFilters
    TextMatches <- MCTextMatches
    Targets <- MCTargets
    Envs <- MCEnvs
    Checks <- MCChecks
    Promotions <- MCPromotions
    MaxChanges = 2
CHECK_DEADLOCK FALSE
INVARIANTS TypeOK NamedReadTruthful MatrixTruthful TopologyTruthful CollectionIsSnapshot
