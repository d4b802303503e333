------------------------------ MODULE CRDReads ------------------------------
(***************************************************************************)
(* One call of the CRD-backed read model (internal/api/readmodel/crdsource)*)
(* against a live cluster.  The adapter has no cache and no transaction:   *)
(* each s.c.List is a separate request to the Kubernetes API server, and   *)
(* GetMatrix, ListEnvironments and GetTargetHealth make two of them.  Other*)
(* clients create, change and delete objects, and an administrator may     *)
(* remove a CRD, between any two steps.                                    *)
(*                                                                         *)
(* The adapter keeps no state, so a behaviour is one call.  seen is the    *)
(* history of the cluster from the call's first moment to its last: a read *)
(* is judged against what was true at some moment of the call.             *)
(*                                                                         *)
(* Names, environments, regions and cells are naturals, compared as the    *)
(* code compares strings; 0 is the empty string.                           *)
(***************************************************************************)
EXTENDS Integers, FiniteSets, Sequences, SequencesExt

CONSTANTS
    Apps,        \* possible Applications       [ns, name, part, envs, team, accepted]
    Releases,    \* possible Releases           [ns, name, part, app, version, ulid]
    Targets,     \* possible DeploymentTargets  [ns, name, env, region, cell]
    Envs,        \* possible Environments       [ns, name, order]
    Checks,      \* possible HealthChecks       [ns, name, target, app, state];
                 \*   target 0: no targetRef
    Promotions,  \* possible Promotions         [ns, name, ulid, app, phase]
    Filters,     \* the filters ListApplications is called with: [project, env, region, q]
    TextMatches,    \* the pairs <<text, q>> in which q occurs, in any case
    MaxChanges   \* bound: changes other clients make during the call

Kinds == {"Application", "Release", "DeploymentTarget", "Environment", "HealthCheck",
          "Promotion"}

Universe == [Application |-> Apps, Release |-> Releases, DeploymentTarget |-> Targets, Environment |-> Envs,
             HealthCheck |-> Checks, Promotion |-> Promotions]

ASSUME ObjectsAssumption ==
    /\ \A k \in Kinds : \A o \in Universe[k] : o.ns \in Nat /\ o.name \in Nat
    /\ \A t \in Targets : t.env \in Nat /\ t.region \in Nat /\ t.cell \in Nat
    /\ \A e \in Envs : e.order \in Int
    /\ MaxChanges \in Nat

\* Seeded bug: an object without the part-of label has no project.
projectOfLabelOnly(o) == o.part

\* The part-of label, or the namespace.
projectOf(o) == IF o.part # 0 THEN o.part ELSE o.ns

All == 0    \* the name "all" of GET /applications/all/matrix

\* The calls of the port, with the kinds each one lists, in order.  A diff has a
\* right side or none; GetDiff and QueryAudit list nothing.
Calls ==
    [op : {"ListTargets", "ListEnvironments", "QueryAudit"}, arg : {All}]
        \cup [op : {"GetDiff"}, right : {0, 1}]
        \cup [op : {"ListApplications"}, filter : Filters]
        \cup [op : {"ListReleases"}, project : {0} \cup {projectOf(o) : o \in Releases}]
        \cup [op : {"ListApplicationReleases"}, arg : {o.name : o \in Apps}]
        \cup [op : {"GetApplication"}, arg : {o.name : o \in Apps}]
        \cup [op : {"GetMatrix"}, arg : {All} \cup {o.name : o \in Apps}]
        \cup [op : {"GetTargetHealth", "GetTargetDrift"}, arg : {o.name : o \in Targets}]
        \cup [op : {"GetPromotion"}, arg : {o.ulid : o \in Promotions} \cup {o.name : o \in Promotions}]
        \cup [op : {"ListApplicationPromotions"}, arg : {o.app : o \in Promotions}]
        \cup [op : {"ListPromotions"}, state : {"", "active", "blocked", "mine", "history"}]

ListedBy(op) ==
    CASE op \in {"ListApplications", "GetApplication"} -> <<"Application">>
      [] op = "GetMatrix"                              -> <<"Application", "DeploymentTarget">>
      [] op \in {"ListTargets", "GetTargetDrift"}      -> <<"DeploymentTarget">>
      [] op = "GetTargetHealth"                        -> <<"DeploymentTarget", "HealthCheck">>
      [] op = "ListEnvironments"                       -> <<"Environment", "DeploymentTarget">>
      [] op \in {"ListReleases", "ListApplicationReleases"} -> <<"Release">>
      [] op \in {"GetDiff", "QueryAudit"}              -> << >>
      [] OTHER                                         -> <<"Promotion">>

Collections == {"ListApplications", "ListTargets", "ListEnvironments",
                "ListApplicationPromotions", "ListPromotions",
                "ListApplicationReleases", "ListReleases", "GetDiff", "QueryAudit"}

-----------------------------------------------------------------------------
(* The mapping onto product concepts (map.go).                             *)

statusFromConditions(accepted) ==
    CASE accepted = "absent" -> "Missing"
      [] accepted = "False"  -> "Blocked"
      [] OTHER               -> "Progressing"

promotionStatus(phase) ==
    CASE phase = "Blocked"                      -> "Blocked"
      [] phase = "Succeeded"                    -> "Healthy"
      [] phase = "Failed"                       -> "Failed"
      [] phase \in {"RolledBack", "Canceled"}   -> "Degraded"
      [] OTHER                                  -> "Progressing"

isTerminalPhase(phase) == phase \in {"Succeeded", "Failed", "RolledBack", "Canceled"}

promotionMatchesState(p, state) ==
    CASE state = "blocked" -> p.phase = "Blocked"
      [] state = "history" -> isTerminalPhase(p.phase)
      [] state = "active"  -> ~isTerminalPhase(p.phase) /\ p.phase # "Blocked"
      [] OTHER             -> TRUE

applicationToAPI(a) == [name |-> a.name, status |-> statusFromConditions(a.accepted),
                        owner |-> a.team, project |-> projectOf(a)]

\* The region of the filter is not applied: an application has none.
matchesApplicationFilter(a, f) ==
    /\ f.project \in {0, projectOf(a)}
    /\ f.env = 0 \/ f.env \in a.envs
    /\ f.q = 0 \/ <<a.name, f.q>> \in TextMatches \/ <<a.team, f.q>> \in TextMatches

\* The version of the first artifact, or the object's name.
releaseVersion(r) == IF r.version # 0 THEN r.version ELSE r.name

releaseToAPI(r) == [app |-> r.app, version |-> releaseVersion(r), ulid |-> r.ulid]

healthStatus(state) ==
    CASE state \in {"Healthy", "Degraded", "Missing"} -> state
      [] state = "Suspended"                          -> "Frozen"
      [] OTHER                                        -> "Progressing"

healthCheckToAPI(h) == [resource |-> IF h.app # 0 THEN h.app ELSE h.name,
                        status |-> healthStatus(h.state)]

targetToAPI(t) == [name |-> t.name, env |-> t.env, region |-> t.region, cell |-> t.cell]

promotionToAPI(p) == [ulid |-> p.ulid, app |-> p.app, status |-> promotionStatus(p.phase)]

\* The members of S, each once, in an order that sort.Slice may leave with Less:
\* none before one that is less.
Sorted(S, Less(_, _)) ==
    CHOOSE f \in [1..Cardinality(S) -> S] :
        \A i, j \in DOMAIN f : i < j => f[i] # f[j] /\ ~Less(f[j], f[i])

Ascending(i, j) == i < j

\* The items of seq at the positions I, in the order of seq.
At(seq, I) == LET pos == Sorted(I, Ascending) IN [k \in DOMAIN pos |-> seq[pos[k]]]

Before(c, d) == c.env < d.env \/ (c.env = d.env /\ c.region < d.region)

Header(t) == [env |-> t.env, region |-> t.region]

\* Seeded bug: the columns are sorted but duplicates are kept.
matrixColumnsRepeated(ts) ==
    SortSeq([i \in DOMAIN ts |-> Header(ts[i])], Before)

\* The deduplicated (env, region) headers, sorted.
matrixColumns(ts) == Sorted({Header(ts[i]) : i \in DOMAIN ts}, Before)

matrixRow(a, cols) ==
    [application |-> a.name,
     cells |-> [i \in DOMAIN cols |->
                  [env |-> cols[i].env, region |-> cols[i].region,
                   status |-> statusFromConditions(a.accepted)]]]

uniqueRegions(ts) ==
    Sorted({ts[i].region : i \in DOMAIN ts} \ {0}, Ascending)

\* The first non-empty region among a cell's members.
cellRegion(members) ==
    LET placed == {i \in DOMAIN members : members[i].region # 0}
    IN  IF placed = {} THEN 0 ELSE members[Min(placed)].region

\* Seeded bug: each target starts its cell's group afresh, so only the last stays.
envCellsLastOnly(ts) ==
    LET order == Sorted({ts[i].cell : i \in DOMAIN ts}, Ascending)
        last(c) == <<ts[Max({i \in DOMAIN ts : ts[i].cell = c})]>>
    IN  [k \in DOMAIN order |->
           [name |-> order[k], region |-> cellRegion(last(order[k])),
            targets |-> [i \in DOMAIN last(order[k]) |-> targetToAPI(last(order[k])[i])]]]

envCells(ts) ==
    LET order == Sorted({ts[i].cell : i \in DOMAIN ts}, Ascending)
        group(c) == At(ts, {i \in DOMAIN ts : ts[i].cell = c})
    IN  [k \in DOMAIN order |->
           [name |-> order[k], region |-> cellRegion(group(order[k])),
            targets |-> [i \in DOMAIN group(order[k]) |-> targetToAPI(group(order[k])[i])]]]

environmentToAPI(e, ts) ==
    [name |-> e.name, regions |-> uniqueRegions(ts), cells |-> envCells(ts)]

EarlierStage(e, f) == e.order < f.order \/ (e.order = f.order /\ e.name < f.name)

sortedEnvironments(es) ==
    Sorted(Range(es), EarlierStage)

\* The items to keep, each translated, in the order of seq.
Mapped(seq, Keep(_), F(_)) ==
    LET kept == At(seq, {i \in DOMAIN seq : Keep(seq[i])})
    IN  [i \in DOMAIN kept |-> F(kept[i])]

-----------------------------------------------------------------------------
VARIABLES
    cluster,    \* the stored objects, by kind
    installed,  \* the kinds whose CRD the API server serves
    call,       \* the port method and its argument, read-only
    lists,      \* the answers of the Lists made so far
    result,     \* what the method returned, or "pending"
    seen        \* the (cluster, installed) pairs of the call so far

vars == <<cluster, installed, call, lists, result, seen>>

SameObject(o, p) == o.ns = p.ns /\ o.name = p.name

\* Finitely many objects are stored, and at most one version of each.
Stored(kind) ==
    {S \in SUBSET Universe[kind] :
        IsFiniteSet(S) /\ \A o, p \in S : SameObject(o, p) => o = p}

Listed(c) == {ListedBy(c.op)[i] : i \in DOMAIN ListedBy(c.op)}

Pending == result.outcome = "pending"

\* A cluster, whatever it holds.
Clusters == [Kinds -> SUBSET UNION {Universe[k] : k \in Kinds}]

TypeOK ==
    /\ cluster \in Clusters
    /\ \A k \in Kinds : cluster[k] \in Stored(k)
    /\ installed \subseteq Kinds
    /\ call \in Calls
    /\ Len(lists) <= Len(ListedBy(call.op))
    /\ \A i \in DOMAIN lists : Range(lists[i]) \in Stored(ListedBy(call.op)[i])
    /\ result.outcome \in {"pending", "ok", "notFound", "failed"}
    /\ seen \in Seq([cluster : Clusters, installed : SUBSET Kinds])
    /\ Len(seen) \in 1..(MaxChanges + 1)

\* The call may find any cluster; the kinds it does not list cannot matter.
Init ==
    /\ call \in Calls
    /\ LET found(k) == IF k \in Listed(call) THEN Stored(k) ELSE {{}}
       IN  cluster \in {[Application |-> A, Release |-> R, DeploymentTarget |-> T,
                         Environment |-> E, HealthCheck |-> H, Promotion |-> P] :
                           A \in found("Application"), R \in found("Release"), T \in found("DeploymentTarget"),
                           E \in found("Environment"), H \in found("HealthCheck"),
                           P \in found("Promotion")}
    /\ installed = Kinds
    /\ lists = << >>
    /\ result = [outcome |-> "pending"]
    /\ seen = <<[cluster |-> cluster, installed |-> installed]>>

-----------------------------------------------------------------------------
(* The world.                                                              *)

Observe == seen' = Append(seen, [cluster |-> cluster', installed |-> installed'])

\* Another client creates, replaces or deletes an object of a kind the call lists.
ChangeObject ==
    /\ Pending /\ Len(seen) <= MaxChanges
    /\ \E k \in Listed(call) \cap installed : \E o \in Universe[k] :
         cluster' = [cluster EXCEPT ![k] =
                       IF o \in @ THEN @ \ {o}
                       ELSE {p \in @ : ~SameObject(p, o)} \cup {o}]
    /\ installed' = installed
    /\ Observe
    /\ UNCHANGED <<call, lists, result>>

\* An administrator removes a CRD, and its objects with it.
UninstallKind ==
    /\ Pending /\ Len(seen) <= MaxChanges
    /\ \E k \in Listed(call) \cap installed :
         /\ installed' = installed \ {k}
         /\ cluster' = [cluster EXCEPT ![k] = {}]
    /\ Observe
    /\ UNCHANGED <<call, lists, result>>

-----------------------------------------------------------------------------
(* The call.                                                               *)

\* The API server lists by namespace, then name.
ListedBefore(o, p) == o.ns < p.ns \/ (o.ns = p.ns /\ o.name < p.name)

InListOrder(S) == Sorted(S, ListedBefore)

Ok(v) == [outcome |-> "ok", value |-> v]

NotFound == [outcome |-> "notFound"]

Failed == [outcome |-> "failed"]

\* The method goes on to its next List.
Unfinished == [outcome |-> "pending"]

Named(seq, n) == {i \in DOMAIN seq : seq[i].name = n}

\* Each method, from the answers ls of the Lists it has made so far.

ListApplications(ls, f) ==
    Ok(Mapped(ls[1], LAMBDA a : matchesApplicationFilter(a, f), applicationToAPI))

GetApplication(ls, n) ==
    LET hits == Named(ls[1], n)
    IN  IF hits = {} THEN NotFound ELSE Ok(applicationToAPI(ls[1][Min(hits)]))

\* The rows: the whole fleet, or the first application of that name.
GetMatrix(ls, n) ==
    LET hits     == Named(ls[1], n)
        selected == IF n = All THEN ls[1] ELSE <<ls[1][Min(hits)]>>
        cols     == matrixColumns(ls[2])
    IN  IF n # All /\ hits = {} THEN NotFound
        ELSE IF Len(ls) = 1 THEN Unfinished
        ELSE Ok([columns |-> cols,
                 rows |-> [i \in DOMAIN selected |-> matrixRow(selected[i], cols)]])

ListTargets(ls) == Ok(Mapped(ls[1], LAMBDA t : TRUE, targetToAPI))

\* Seeded bug: a target with no checks is reported as missing.
GetTargetHealthEmptyIsMissing(ls, n) ==
    IF Named(ls[1], n) = {} THEN NotFound
    ELSE IF Len(ls) = 1 THEN Unfinished
    ELSE LET hits == Mapped(ls[2], LAMBDA h : h.target = n, healthCheckToAPI)
         IN  IF hits = << >> THEN NotFound ELSE Ok(hits)

GetTargetHealth(ls, n) ==
    IF Named(ls[1], n) = {} THEN NotFound
    ELSE IF Len(ls) = 1 THEN Unfinished
    ELSE Ok(Mapped(ls[2], LAMBDA h : h.target # 0 /\ h.target = n, healthCheckToAPI))

\* The Diff engine is not there yet: an existing target has an empty diff.
GetTargetDrift(ls, n) == IF Named(ls[1], n) = {} THEN NotFound ELSE Ok(<< >>)

ListEnvironments(ls) ==
    LET es == sortedEnvironments(ls[1])
    IN  IF Len(ls) = 1 THEN Unfinished
        ELSE Ok([i \in DOMAIN es |->
                   environmentToAPI(es[i], At(ls[2], {k \in DOMAIN ls[2] : ls[2][k].env = es[i].name}))])

\* An unknown application has no releases and no promotions: an empty answer.
ListApplicationReleases(ls, n) == Ok(Mapped(ls[1], LAMBDA r : r.app = n, releaseToAPI))

ListReleases(ls, project) ==
    Ok(Mapped(ls[1], LAMBDA r : project \in {0, projectOf(r)}, releaseToAPI))

ListApplicationPromotions(ls, n) == Ok(Mapped(ls[1], LAMBDA p : p.app = n, promotionToAPI))

ListPromotions(ls, state) ==
    Ok(Mapped(ls[1], LAMBDA p : promotionMatchesState(p, state), promotionToAPI))

Identifies(id, p) == (p.ulid # 0 /\ p.ulid = id) \/ p.name = id

GetPromotion(ls, id) ==
    LET hits == {i \in DOMAIN ls[1] : Identifies(id, ls[1][i])}
    IN  IF hits = {} THEN NotFound ELSE Ok(promotionToAPI(ls[1][Min(hits)]))

\* The engines behind these are not there yet: the query is echoed, without entries.
GetDiff(right) == Ok([right |-> right, entries |-> << >>])
QueryAudit     == Ok(<< >>)

answer(c, ls) ==
    CASE c.op = "ListApplications"          -> ListApplications(ls, c.filter)
      [] c.op = "GetApplication"            -> GetApplication(ls, c.arg)
      [] c.op = "GetMatrix"                 -> GetMatrix(ls, c.arg)
      [] c.op = "ListTargets"               -> ListTargets(ls)
      [] c.op = "GetTargetHealth"           -> GetTargetHealth(ls, c.arg)
      [] c.op = "GetTargetDrift"            -> GetTargetDrift(ls, c.arg)
      [] c.op = "ListEnvironments"          -> ListEnvironments(ls)
      [] c.op = "ListApplicationReleases"   -> ListApplicationReleases(ls, c.arg)
      [] c.op = "ListReleases"              -> ListReleases(ls, c.project)
      [] c.op = "GetDiff"                   -> GetDiff(c.right)
      [] c.op = "QueryAudit"                -> QueryAudit
      [] c.op = "ListApplicationPromotions" -> ListApplicationPromotions(ls, c.arg)
      [] c.op = "ListPromotions"            -> ListPromotions(ls, c.state)
      [] c.op = "GetPromotion"              -> GetPromotion(ls, c.arg)

\* Seeded bug: the client's errors leave the adapter untranslated.
wrapErrRaw(e) == [outcome |-> e]

\* wrapErr: a not-found from the API server becomes the port's ErrNotFound.
wrapErr(e) == IF e = "IsNotFound" THEN NotFound ELSE Failed

Lists    == Len(lists) < Len(ListedBy(call.op))
NextKind == ListedBy(call.op)[Len(lists) + 1]

\* A method that lists nothing returns at once.
AnswersAtOnce ==
    /\ Pending /\ ListedBy(call.op) = << >>
    /\ result' = answer(call, << >>)
    /\ UNCHANGED <<cluster, installed, call, lists, seen>>

\* s.c.List answers, and the method runs to its next List or its return.
ListSucceeds ==
    /\ Pending /\ Lists
    /\ NextKind \in installed
    /\ lists' = Append(lists, InListOrder(cluster[NextKind]))
    /\ result' = answer(call, lists')
    /\ UNCHANGED <<cluster, installed, call, seen>>

\* The client still maps a kind whose CRD is gone: the API server says 404.
ListFindsNoKind ==
    /\ Pending /\ Lists
    /\ NextKind \notin installed
    /\ result' = wrapErr("IsNotFound")
    /\ UNCHANGED <<cluster, installed, call, lists, seen>>

\* Any other failure: unreachable, timed out, refused, kind never discovered.
ListFails ==
    /\ Pending /\ Lists
    /\ result' = wrapErr("other")
    /\ UNCHANGED <<cluster, installed, call, lists, seen>>

Next ==
    \/ ChangeObject
    \/ UninstallKind
    \/ AnswersAtOnce
    \/ ListSucceeds
    \/ ListFindsNoKind
    \/ ListFails

Spec == Init /\ [][Next]_vars

-----------------------------------------------------------------------------
(* What a reader may rely on.                                              *)

Sometime(kind) == UNION {seen[i].cluster[kind] : i \in DOMAIN seen}

Throughout(kind) == {o \in Universe[kind] : \A i \in DOMAIN seen : o \in seen[i].cluster[kind]}

Served(op) == result.outcome = "ok" /\ call.op = op

\* What a call asks for.  A project holds the objects labelled part of it and the
\* unlabelled ones of the namespace of that name; a region narrows nothing; the
\* history holds the promotions whose lifecycle has ended, and active are those that
\* have neither ended nor are blocked; a check without a target is nobody's.
Ended(p) == p.phase \in {"Succeeded", "Failed", "RolledBack", "Canceled"}

PartOf(o, project) == project = IF o.part = 0 THEN o.ns ELSE o.part

Asked(c, o) ==
    CASE c.op = "ListApplications" ->
             /\ c.filter.project # 0 => PartOf(o, c.filter.project)
             /\ c.filter.env # 0 => c.filter.env \in o.envs
             /\ c.filter.q # 0 =>
                   \E text \in {o.name, o.team} : <<text, c.filter.q>> \in TextMatches
      [] c.op = "ListReleases" -> c.project # 0 => PartOf(o, c.project)
      [] c.op = "ListPromotions" ->
             /\ c.state = "blocked" => o.phase = "Blocked"
             /\ c.state = "history" => Ended(o)
             /\ c.state = "active" => ~Ended(o) /\ o.phase # "Blocked"
      [] c.op = "ListTargets" -> TRUE
      [] c.op = "GetTargetHealth" -> o.target # 0 /\ o.target = c.arg
      [] OTHER -> o.app = c.arg

Image(c, o) ==
    CASE c.op = "ListApplications" -> applicationToAPI(o)
      [] c.op = "ListTargets"      -> targetToAPI(o)
      [] c.op \in {"ListReleases", "ListApplicationReleases"} -> releaseToAPI(o)
      [] c.op = "GetTargetHealth"  -> healthCheckToAPI(o)
      [] OTHER                     -> promotionToAPI(o)

\* The items are the objects of T the call asks for, each once.
ShowsAll(items, T) ==
    LET S == {o \in T : Asked(call, o)}
    IN  Range(items) = {Image(call, o) : o \in S} /\ Len(items) = Cardinality(S)

\* GetApplication, GetMatrix of one application, GetTargetHealth, GetTargetDrift
\* and GetPromotion name one resource, of the kind they list first.
NamesOne == call.op \notin Collections /\ ~(call.op = "GetMatrix" /\ call.arg = All)

NamedAt(i) ==
    {o \in seen[i].cluster[ListedBy(call.op)[1]] :
        IF call.op = "GetPromotion" THEN Identifies(call.arg, o) ELSE o.name = call.arg}

\* The resource was found, and then the CRD of the second List was gone.
SecondKindGone ==
    Len(lists) = 1 /\ Len(ListedBy(call.op)) = 2 /\ ListedBy(call.op)[2] \notin installed

\* A read of one resource says "not found" only if at some moment of the call
\* nothing answered to the name, or, for the reads that join a second kind, if
\* the List of that kind was answered 404: that case is the code's own, and
\* NotFoundMeansAbsent is about it.  An answer is that of a resource which was
\* there at some moment; and the checks of a target are, each once, those bound
\* to it at one moment, whether or not the target was still there by then.
NamedReadTruthful ==
    /\ NamesOne /\ result.outcome = "notFound" =>
          (\E i \in DOMAIN seen : NamedAt(i) = {}) \/ SecondKindGone
    /\ NamesOne /\ result.outcome = "ok" =>
          \E i \in DOMAIN seen : \E o \in NamedAt(i) :
              CASE call.op = "GetApplication" -> result.value = applicationToAPI(o)
                [] call.op = "GetPromotion"   -> result.value = promotionToAPI(o)
                [] OTHER                      -> TRUE
    /\ Served("GetTargetHealth") =>
          \E i \in DOMAIN seen : ShowsAll(result.value, seen[i].cluster["HealthCheck"])

\* "ErrNotFound is returned when a named/identified resource does not exist"
\* (port.go:21): a read of one resource says "not found" only if at some moment of
\* the call nothing answered to the name.
NotFoundMeansAbsent ==
    NamesOne /\ result.outcome = "notFound" => \E i \in DOMAIN seen : NamedAt(i) = {}

\* GetMatrix lists applications and targets at two different moments.  Whatever
\* changes in between, the headers are distinct and in order, every row has one
\* cell under each header, no header or row is invented, and an application and
\* a target that stayed put are both there.
MatrixTruthful ==
    Served("GetMatrix") =>
        LET m == result.value
        IN  /\ \A i, j \in DOMAIN m.columns : i < j => Before(m.columns[i], m.columns[j])
            /\ \A r \in DOMAIN m.rows :
                  /\ Len(m.rows[r].cells) = Len(m.columns)
                  /\ \E a \in Sometime("Application") :
                        /\ a.name = m.rows[r].application
                        /\ \A i \in DOMAIN m.columns :
                              m.rows[r].cells[i] = [env |-> m.columns[i].env,
                                                    region |-> m.columns[i].region,
                                                    status |-> statusFromConditions(a.accepted)]
            /\ Range(m.columns) \subseteq {Header(t) : t \in Sometime("DeploymentTarget")}
            /\ {Header(t) : t \in Throughout("DeploymentTarget")} \subseteq Range(m.columns)
            /\ \A a \in Throughout("Application") :
                  call.arg \in {All, a.name} =>
                      \E r \in DOMAIN m.rows : m.rows[r].application = a.name

\* ListEnvironments lists environments and targets at two different moments.
\* Environments come in lifecycle order; a target that stayed put is in its cell
\* of its environment; and no environment shows a target that never named it.
TopologyTruthful ==
    Served("ListEnvironments") =>
        LET es == result.value
            shown(e) == UNION {Range(e.cells[c].targets) : c \in DOMAIN e.cells}
        IN  /\ \A i, j \in DOMAIN es : i < j =>
                  \E e, f \in Range(lists[1]) :
                      e.name = es[i].name /\ f.name = es[j].name /\ e.order <= f.order
            /\ \A i \in DOMAIN es :
                  /\ \A t \in Throughout("DeploymentTarget") :
                        t.env = es[i].name =>
                            \E c \in DOMAIN es[i].cells :
                                /\ es[i].cells[c].name = t.cell
                                /\ targetToAPI(t) \in Range(es[i].cells[c].targets)
                  /\ shown(es[i]) \subseteq
                        {targetToAPI(t) : t \in {u \in Sometime("DeploymentTarget") : u.env = es[i].name}}

\* Each of the six collections that are read with one List is a snapshot: whatever
\* other clients do, its items are exactly those that were asked for at one moment
\* of the call, each once.
CollectionIsSnapshot ==
    (result.outcome = "ok" /\ call.op \in Collections /\ Len(ListedBy(call.op)) = 1) =>
        \E i \in DOMAIN seen : ShowsAll(result.value, seen[i].cluster[ListedBy(call.op)[1]])
=============================================================================
