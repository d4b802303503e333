----------------------------- MODULE MCCRDReads -----------------------------
(* Objects for TLC.  Two versions of an application and of a target can     *)
(* replace each other; two applications in different namespaces share a     *)
(* name; targets share an (env, region) and a cell; one has no region.      *)
EXTENDS CRDReads

MCApps == {[ns |-> 1, name |-> 1, part |-> 0, envs |-> {1}, team |-> 5, accepted |-> "absent"],
           [ns |-> 1, name |-> 1, part |-> 2, envs |-> {1, 2}, team |-> 5, accepted |-> "True"],
           [ns |-> 2, name |-> 1, part |-> 0, envs |-> {}, team |-> 6, accepted |-> "False"],
           [ns |-> 1, name |-> 2, part |-> 2, envs |-> {2}, team |-> 6, accepted |-> "True"]}

MCReleases == {[ns |-> 1, name |-> 1, part |-> 0, app |-> 1, version |-> 0, ulid |-> 0],
               [ns |-> 1, name |-> 1, part |-> 2, app |-> 1, version |-> 7, ulid |-> 0],
               [ns |-> 2, name |-> 1, part |-> 0, app |-> 2, version |-> 7, ulid |-> 9],
               [ns |-> 2, name |-> 2, part |-> 1, app |-> 2, version |-> 0, ulid |-> 0]}

\* A query that is part of a name, and one that is part of a team.
MCTextMatches == {<<1, 1>>, <<1, 8>>, <<6, 8>>}

MCFilters == [project : {0, 1, 2}, env : {0, 2}, region : {0, 1}, q : {0, 1, 8}]

MCTargets == {[ns |-> 1, name |-> 1, env |-> 1, region |-> 1, cell |-> 1],
              [ns |-> 1, name |-> 1, env |-> 2, region |-> 1, cell |-> 1],
              [ns |-> 1, name |-> 2, env |-> 1, region |-> 1, cell |-> 1],
              [ns |-> 1, name |-> 3, env |-> 1, region |-> 0, cell |-> 0]}

MCEnvs == {[ns |-> 1, name |-> 1, order |-> 2],
           [ns |-> 1, name |-> 1, order |-> 0],
           [ns |-> 1, name |-> 2, order |-> 1],
           [ns |-> 2, name |-> 1, order |-> 0]}

MCChecks == {[ns |-> 1, name |-> 1, target |-> 1, app |-> 1, state |-> "Suspended"],
             [ns |-> 1, name |-> 2, target |-> 0, app |-> 0, state |-> ""]}

\* A promotion whose identity is not resolved yet (no ulid) moves through phases.
MCPromotions == {[ns |-> 1, name |-> 1, ulid |-> 0, app |-> 1, phase |-> ph] :
                    ph \in {"", "Verifying", "Blocked", "Canceled"}}
                  \cup {[ns |-> 1, name |-> 2, ulid |-> 9, app |-> 2, phase |-> ph] :
                    ph \in {"Succeeded", "Failed", "RolledBack"}}
=============================================================================
