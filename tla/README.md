# Keleustes: verification project

TLA+ models of the Keleustes control plane (`skaphos/keleustes`), the TLC
configurations that check them on small instances and TLAPS proofs of the results
that matter most. Paths below are relative to the repository root.
`PROJECT.json` lists the components, runs, proofs and hazards, and maps every
definition to the lines it models.

## 1. The system

Keleustes at this commit is an MVP-0 control plane. The engines described in
`docs/` (sync, promotion, git mutation, policy, health, diff) are not in the
code yet; what runs is this:

| Part | State it keeps | Operations | Talks to |
|---|---|---|---|
| **Reconcilers** (`internal/controller`, 15 kinds) | none of their own: the status of objects in etcd, seen through an informer cache | `Reconcile`: read, compute status, compare, `Status().Update` | kube-apiserver, work queue |
| **Controller manager** (`cmd/manager`) | one worker and one queue per kind, one cache | start, register, run until signalled; leader election only with a flag | the reconcilers |
| **Audit webhook** (`internal/audit/webhook`) | none | `Handle` one admission request: build an envelope, emit it, allow or deny | kube-apiserver (caller), emitter |
| **Audit emitter and registry** (`internal/audit`, `payloads`) | an event sink | `Emit`: complete the envelope, check verb against payload, publish | webhook, log |
| **Event IDs** (`internal/audit/ulid.go`) | one package-level buffer and its lock | `NewEventID` | every emitter |
| **Redaction** (`internal/audit/redaction`) | a constant rule list | `Apply` to a snapshot | webhook |
| **API server process** (`cmd/apiserver`) | two listeners, a shutdown deadline | build, bind, serve, drain, exit | OS signals, clients |
| **API request pipeline** (`internal/api/server`, `internal/api/auth`) | per request: ID, identity, response written so far | request ID, access log, recovery, authentication, authorization, handler, error mapping | read model |
| **Read models** (`internal/api/readmodel`) | `crdsource`: none, reads live; `fixtures`: immutable | list and get | kube-apiserver |
| **Sync phases** (`internal/sync`) | none | `PhaseFromOperation` | nobody yet |
| **Observability** (`internal/observability`) | metric vectors | register, observe | nobody yet |
| **Custom resource types** (`api/v1alpha1`) | the layout of fifteen kinds and their lists; generated copy code | `DeepCopyInto`, `DeepCopyObject` | informer cache, reconcilers |
| **CLI** (`internal/cli`) | per invocation: the request, the watch, what is printed | product verbs, `get`, `describe`, `get --watch` | API server, kube-apiserver |
| **UI** (`ui/`) | none | presents what the API says | API server |

### What is hard here

* *Reconcile* reads from a cache that lags without limit, computes, and writes
  later. In between the owner may edit, delete or re-create the object, an engine
  may report on it, another replica of the manager (leader election is off by
  default) may write it. The update may be lost, carried out without the manager
  learning of it, or carried out after the manager was restarted.
* *The webhook* publishes an event about a write that has not happened yet. The
  write may then conflict, be tried again (with a second event), be refused, or
  be given up while the handler still runs.
* *NewEventID* shares one buffer among all goroutines and reads the clock
  outside the lock.
* *The API server* has three goroutines each of which may end the process while
  requests are in flight.
* *The CRD read model* answers some queries from two lists taken at different
  times, in a cluster that others change.
* *The request pipeline* unwinds through six layers, any of which may be where a
  request ends; an operation may panic, and the client may disconnect between
  the response header and its body.
* *Generated copies* decide whether a reconcile works on its own memory or on the
  informer's; a reference they forget shows only when that optional field is set.
* *Redaction* walks maps in an order that changes from run to run, with rules
  that count dots in paths whose keys may hold dots.
* *keleustesctl* reports with its exit code on a chain it does not control: the
  connection, the server, a watch that ends, an output that refuses a write.

### What makes each part correct

* Reconcilers: a status never claims what the object has not reached, never moves
  back, never overwrites what engines report; every object is acknowledged in the
  end; nothing is written when there is nothing to say.
* Webhook: no change without an event that describes it, published before it; no
  refusal without a failure; no secret in an event.
* Event IDs: an ID is its own call's time and randomness, and sorts by time.
* API server: a listener failure or a signal ends the process; success means
  every accepted API request was finished.
* Pipeline: every request has an ID and one access-log line whose status is the
  one on the wire, gets one coherent answer, reaches an operation only with an
  identity and the permission of its verb and resource, and a hidden cause is logged
  under the ID the client was given.
* Read model: each answer is explained by states of the cluster during the call,
  and what did not change during the call is in it; not found means absent; both
  adapters of the port give the same view of the same data.
* Copies: nothing a reconcile or a client call writes is reachable from the cache.
* Redaction: what the table names is a marker, everything else is untouched.
* CLI: exit 0 means the question asked was answered and what was rendered was
  printed; a problem the server delivered is the one the user sees.

## 2. Modules

| Module | Models | Kind |
|---|---|---|
| `Reconcilers` | what each of the 15 `Reconcile` functions makes of a status | operators |
| `StatusContract` | what the manager promises about a status, in atomic steps | abstract specification |
| `StatusReconcile` | manager replicas, caches, queues, updates, faults, restarts; the API server as environment | specification, implements `StatusContract` |
| `StatusReconcileProofs` | `StatusReconcile` | proofs |
| `AuditAdmission` | `Handle`, `Emit`, the registry, in the API server's write path | specification |
| `ULID` | `encodeULID`, bit by bit | operators |
| `EventIDs` | `NewEventID` on concurrent goroutines | specification |
| `EventIDsProofs` | `ULID` and `EventIDs` | proofs |
| `ApiServerProcess` | `cmd/apiserver` from start to exit | specification |
| `ApiServerProcessProofs` | `ApiServerProcess` | proofs |
| `RequestPipeline` | one request through `internal/api/server` and `internal/api/auth` | specification |
| `RequestPipelineProofs` | `RequestPipeline` | proofs |
| `CRDReads` | one call of `internal/api/readmodel/crdsource` in a changing cluster | specification |
| `CRDReadsProofs` | `CRDReads` | proofs |
| `ResourceTypes` | the references each struct of `api/v1alpha1` holds | operators |
| `DeepCopies` | `zz_generated.deepcopy.go`, statement by statement | operators |
| `ObjectCopies` | the memory one reconcile reads and writes, on those copies | specification |
| `ObjectCopiesProofs` | `ResourceTypes`, `DeepCopies` and `ObjectCopies` | proofs |
| `Redaction` | `redaction.Apply` | specification |
| `AuditProofs` | `AuditAdmission` and `Redaction` | proofs |
| `CtlOutput` | how a command writes its result and ends | actions shared by the next two |
| `CtlKube` | `get`, `describe` and the cluster they read | component of `Ctl` |
| `CtlApi` | the product verbs, the generated client, composed with `RequestPipeline` | component of `Ctl` |
| `Ctl` | one invocation of `keleustesctl` | composition of `CtlKube` and `CtlApi` |
| `CtlProofs` | `Ctl` and its components, on top of `RequestPipelineProofs` | proofs |
| `MC*` | constants for TLC | instances |

Operators named after a seeded bug ("Seeded bug" in their comment) are never
used by a specification: each is a plausible mistake put in the place of the
definition that follows it to show that a property notices it.

### Reconcilers, StatusReconcile

`store[o]` is the object in etcd, with `uid`, resource version, `generation` and
`status`; generation 0 is "no object". `seen[o]` remembers every version there
has been; `cache[r][o]` is one of them. `queue[r]` and `inFlight[r]` are the work
queue and the updates a replica waits for; `orphans` are updates nobody waits for
any more.

| Action | Code |
|---|---|
| `ReconcileNotFound`, `ReconcileGetFailed` | `r.Get` and its two error returns |
| `Desired`, `NeedsUpdate` | the assignments to `Status`, `equality.Semantic.DeepEqual(before, &obj.Status)` |
| `ReconcileUnchanged` | the early return |
| `ReconcileSubmit` | `r.Status().Update(ctx, &obj)` leaves, with the resource version that was read |
| `UpdateCommitted`, `UpdateRejected`, `UpdateAbandoned` | its three outcomes; the last two return the error, which puts the object back (`Requeued`) |
| `Take`, `Idle` | `SetupWithManager`: one controller per kind with the default single worker |
| `Restart` | the process dies, comes back, lists and queues everything |
| `Create`, `EditSpec`, `Delete`, `EngineReport`, `WatchEvent`, `Apply`, `OrphanArrives` | external: the API server, other writers, informers |

A worker's step from taking an object to sending the update is one action: all
of it is local to the worker, and what it reads (its cache) is changed by
nobody in a way the step could notice twice. A status is abstracted to observed
generation, phase and the Accepted condition with its generation. Reasons and
messages are constant per kind and `lastTransitionTime` changes only with the
condition's status, so none of them makes a comparison differ. The fifteen
reconcilers are one operator each, because each is a function of its own in the
code; only Promotion's differs (it fills in a missing phase).

Assumptions about what is outside: a resource version is never used twice for an
object and is compared on every update that carries one; a cache holds versions
that existed, in order, except that a restarted process may list from a replica
of the API server that is behind; owners and engines write the version that is
current; the CRDs have a status subresource and no finalizers.

### AuditAdmission

One object, several requests. `req[q]` is the API server's view of a request and
its stage; `events` is the trail in the order of publication; `late` holds events
of handlers whose request was timed out. `CallWebhook` reads the object the way
the API server does before admission; `Commit` is the compare-and-swap on its
version, `Conflict` the second try or the failure. The `Handle*` actions are the
paths through `Handle`: connect, undecodable snapshot, failed emit (the pairing
check or the sink), success. Emitting and answering are two steps. A snapshot is
modelled by what redaction does to it: the secret part is replaced by a marker.

`TrailReachesStore` reads the trail the way an auditor does: some of its events,
each starting from what the ones before led to, lead from no object to the one
stored.

Assumptions: the webhook is registered for all writes with `failurePolicy: Fail`
(the repository leaves registration as a follow-up, `webhook/doc.go`), and the
sink keeps what it has accepted.

### ULID, EventIDs

A number is the set of its one bits, so the words of 48, 16 and 64 bits are
exact although TLC's integers are not that wide. `EventIDs` has one call per
goroutine: `ReadClock` (outside the lock), `Enter` (lock, draw), `ReadHi` and
`ReadLo` (`rand.Read` fills the shared buffer in two steps; more would show
nothing more, because one boundary is enough to mix two calls), `ReadFails` (the
zero fallback), `Return` (encode a copy, unlock). The wall clock is assumed not
to step back. `Bits` turns the clock's integer into a word of 48 bits, in two halves
that TLC's integers can hold; `BitsAssumption` is that the clock has no more than 48.
`LaterMsSortsLater` compares any two calls by the time each has read, so also two
that overlap, the one with the earlier time overtaken on its way to the lock.
`NeighboursInOrder` compares the two closest keys across a bit, for every bit and
several patterns above it.

### ApiServerProcess

`main` and the two `serve` goroutines are interleaved with requests, signals and
the deadline. `Exits` ends the process and cuts off what is being served.
`Shutdown` is modelled from how main uses it: it refuses new requests at once and
returns nil when the server is quiet, or an error when the deadline has passed
or a listener could not be closed.

### RequestPipeline

The server keeps nothing between requests, so a behaviour is one request; `Init`
chooses what the client sends, whether a token is required and what the
authorizer grants. `pc` is the layer the request's goroutine is in. The way in is
`requestIDMiddleware`, `authPass` or `authReject`, the mux (`routeOperation`,
`routeNowhere`, `handleOK`, `handleSpec`), `bindParams` and `decodeBody` (generated
code), `authzMiddleware`, `handleRead` or `handleWrite`, `visitResponse`; the way
out is `onError` or `recoverMiddleware`, and `loggingMiddleware`, whose line is
written after everything inside it has returned. The logging and recover layers
do nothing on the way in that a later step could see, so they appear on the way
out only.

`w` is the response writer: the header map, the `statusRecorder`, and what
net/http has sent (`sent`, fixed by the first `WriteHeader`) and delivered
(`body`). `disconnect` may happen at any moment; from then on nothing is
delivered and a response write may fail (net/http buffers, so it need not).
A read ends in one of the ways its code can: a value, `ErrNotFound`, another
error, a panic. `readmodel.ErrForbidden` is returned by no adapter and is left
out. A policy is a set of (verb, resource) pairs; the default `AllowAll` is the
set of all of them. Problem titles, instances and detail texts are reduced to
status, slug, and whether the detail is fixed or quotes the cause.

`GuardedOperations` has a read's resource from the path the contract gives the
operation (`Reads`), not from `resourceOf`: what is below `/applications` needs the
permission to read applications, also an application's promotions and releases.

Four places where the code differs from ADR 0009 are in the model, without a
property of their own. A write whose body does not decode is reported by the
generated handler (`keleustes.gen.go:7517`) as an untyped error, which `classify`
does not recognise: 500 `degraded`, where section 3 lists `400 invalid`. `handleSpec`
answers 500 without logging the cause, against section 1, so `CauseLoggedNotLeaked`
is about operations only. The mux answers unknown paths and methods itself, as plain
text, although section 1 wants a problem document in every error response. And a
`CRDReads` collection can be answered 404, see there.

### CRDReads

A behaviour is one call of the port; all of its calls are there. `lists` holds the
answers of the `List` requests made so far and `result` what the method returned.
`ChangeObject` and `UninstallKind` (external) happen between any two requests, and
`seen` records the cluster at each moment of the call. `ListSucceeds` makes the
next `List` and runs the method to the following one or to its return; the methods
and the mapping of `map.go` are operators under their own names. `AnswersAtOnce` is
`GetDiff` and `QueryAudit`, which ask nobody. `ListFindsNoKind` is the API server's
404 for a kind whose CRD is gone while the client still has its mapping, and
`ListFails` any other error.

`Sorted(S, Less)` stands for `sort.Slice`, which fixes no algorithm: the members of
`S`, each once, none before one that is less. `At(seq, I)` are the items a filtering
loop keeps, in the order of `seq`.

Strings that the code only compares are naturals, 0 standing for the empty one;
whether a text contains a search term is the constant relation `TextMatches`. Only
what `map.go` and the filters decide is kept of an object: name, namespace, the
part-of label, placement, order, phase, conditions. Fields that are copied through
(owners, sources, timestamps) are left out. An answer need not be the cluster at
one instant: with a change between the two lists, `GetMatrix` can pair an
application with a target that never existed at the same time. That is what the
code calls eventually consistent, so the properties ask for what remains. Each of
the six collections read with one `List` is a snapshot (`CollectionIsSnapshot`).
`ListApplications` ignores the `Region` of its filter on purpose (`crdsource.go:307-309`:
applications carry none); the model's filters have it, so what is asked for is the
same with and without one. Objects are namespaced while the port addresses by name: `GetApplication` returns the first of
that name in list order, and two Environments of one name each show the same
targets.

`wrapErr` knows a not-found by its class only, and the API server answers a `List`
with one when the CRD is gone. A read by name that makes a second `List`
(`GetTargetHealth`, `GetMatrix`) then says that an object it has just found does not
exist: `NamedReadTruthful` names this exception (`SecondKindGone`) and excuses nothing
else, and `NotFoundMeansAbsent`, without it, is violated. A collection of a missing
kind is answered `ErrNotFound` likewise, hence 404, against ADR 0009 section 2.

The port's other adapter, `fixtures`, is not modelled: its data never changes and its
calls are lookups. Its inbox is not the same as the one modelled here, although
`crdsource.go:118-119` counts on wire-compatible backends: it filters API promotions
by status, and takes all that are neither Healthy nor Failed as active
(`fixtures.go:218-229`). A blocked promotion, and a rolled back or canceled one (both
Degraded), is active there; in the CRD adapter the first is under `blocked` only and the
others are in the history.

### ResourceTypes, DeepCopies, ObjectCopies

`ResourceTypes` keeps of each struct the fields that hold memory of their own
(pointers and slices) or lead to one; `Refs[T]` are the paths to them.
`DeepCopies` records for each struct the statement the generated code has for each
field (assign, `DeepCopyInto`, `make` and `copy`, `new`, ...); `Fresh[T]` are the
references of which a copy gets its own. Neither is derived from the other, so a
statement missing from the generated file is a difference between the two.

`ObjectCopies` runs a reconcile on them. `mem` is the contents of memory cells, a
cell being named by its first owner and path; `obj` and `before` say where the
references of the worker's object and of the saved status point. `Get` is the
cached client's copy, `Save` is `before := obj.Status.DeepCopy()`, `SetStatus` the
assignments and `SetStatusCondition` (in place when the condition is there,
appended otherwise), `Compare` the early return, `UpdateAnswered` the client
decoding the answer into the object it sent, `UpdateFailed` the retry. It is
written with Application's `Reconcile`; the fourteen others have the same steps and
differ in the types. Nil-ness of one reference at a time is varied, since every
generated statement looks at its own field only. The references of an `ObjectMeta`
stand together as one.

### Redaction

A document is the set of its nodes, each named by the keys (or list indices) that
lead to it; a key is the sequence of its dot-free segments, so joining and splitting
paths is concatenation and keeps what a dotted key does to the matcher. `stack` holds
the active calls of `walk`: the node, the path `joinPath` built for it (every element
of a list is `[]` in it), and the children still to visit, taken in any order.
`RedactField`, `RedactContainer` and `Descend` are the three ways a child is treated.
`IsObject` says what the documents are: trees whose top-level and `spec` fields have
no dot in their names, and whose data keys hold no backslash. The webhook is
registered for Kubernetes objects, and the API server admits no others (field names
come from Go structs, data keys are letters, digits, `-`, `_` and `.`). Without it
the `secret` below a field literally called `spec.webhook` would be redacted too.
`Sensitive` is the table of `docs/plans/2026-05-audit-event-schema.md` (8.2) over
keys. `SensitiveHidden` is about all of its rows that the rules can match,
`TLSMaterialHidden` about the one they miss: the two rules for TLS material
(`data.tls\\.crt`, `data.tls\\.key`, `redact.go:59-60`) are split at the very dot the
backslash should escape (`redact.go:137` splits before `:146` unescapes) and match no
path, so outside of a Secret, whose `data` is redacted as a whole, a key `tls.crt` is
left as it is. That run is violated. `RestKept` protects only what no row names, TLS
material included among the named. Three entries of the table have no rule in the
code and are not in `Sensitive`: certificate PEM blocks and `Authorization` values,
which are told by content, and fields that an annotation of a CRD marks.

### CtlOutput, CtlKube, CtlApi, Ctl

A behaviour is one invocation `inv` of `keleustesctl`. `CtlOutput` has what all
commands share: `todo` and `due` are the pieces a renderer prints, `out` what
standard output took, `exit` how the process ends. A write may be refused and the
next one taken. A piece is written with its error checked, through `describe`'s
`errWriter`, or by the deferred `Flush` of a table, whose error the code drops
(`output.go:112`, `commands.go:416`); `OutputReported` allows that loss and no other.

`CtlKube` is `get` and `describe`: arguments, alias, kubeconfig, request, rendering,
and the watch loop with its events, error events and closing channel, while other
clients create and delete objects; `told` is the history of the events sent that
carry an object. What is typed for a kind is its letters and whether there are
capitals among them, which `ToLower` takes away. `Means` is what each alias stands for
to a user, in any case, against which `resolveKind` is judged. `CtlApi` is the product verbs: the request the
generated client builds from the base URL, the failures of sending and reading, the
decision of the generated parsers by content type and status, `apiError`, and the
renderers. It extends `RequestPipeline`, whose actions serve the request that was
sent (`ServeRequest`): the answer a command gets is one the server's code produced
under some policy and failure, and a connection that breaks is the server's
`disconnect`. Verb `other` stands for any other client, which sends every request of
the pipeline. `Ctl` puts both halves together.

Left out: cobra's parsing and completion; arguments that are no Kubernetes names;
column values and layout. Three things the model shows on the way: `-o table`,
which the help, the completion and the error message offer, is rejected by
`parseOutputFormat` (the default is the empty string); `get NAME -A` asks in the
empty namespace; and `ctx.Done()` in the watch loop never fires, because `main` calls
`Execute`, which runs the command with the background context.

## 3. Runs

All runs set `CHECK_DEADLOCK FALSE`: each of these systems may come to rest (no
more writes, all calls returned, the process ended).

| Run | Question | Instance |
|---|---|---|
| `status_replicas` | do racing replicas keep the promises about a status, implement `StatusContract`, and get the object acknowledged in the end? | 1 Promotion, 2 replicas, 2 generations, 1 engine report, 1 fault, fairness |
| `status_shared_worker` | can a status of a deleted object land on its successor, and does one object starve another of its kind? | 2 Applications, 1 replica, 1 fault, fairness; 2 incarnations and generations of the first, 1 of the second |
| `audit_race` | is every change announced, whoever races? | 4 requests, 2 contents, 1 fault |
| `event_ids` | do concurrent calls get their own, time-ordered IDs, and does the encoder keep order and lose no bit? | 3 goroutines, 2 draws, the clock passing 31 to 32; each of 128 bits under 6 patterns of higher bits |
| `event_ids_monotonic` | are IDs monotonic, as the plan says? (violated) | the same |
| `apiserver_process` | does the process end when it must, and honestly? | 2 API requests, 1 probe |
| `ctl_and_api` | does a request keep its ID, its log line, its one answer and its guards however it ends, and does `keleustesctl` report truthfully on it, on the cluster and on its own output? | 22 routes, 4 Authorization headers, 22 policies, both parameters and body good or bad; every command, every alias, 4 kinds of base URL, 2 namespaces with 2 names, 3 changes of the cluster, 1 refused write |
| `crd_reads` | is every read explained by the cluster during the call? | 4 applications, 4 targets, 3 environments, 2 checks, 7 promotions (versions included), releases with and without a label, 2 changes |
| `crd_reads_not_found` | does not found mean that the resource does not exist, as the port says? (violated) | the same |
| `object_copies` | does a reconcile ever write the informer's memory, or miss its own change? | 15 kinds and 15 lists, each with all references or without one, 3 attempts |
| `redaction` | is what the table names (TLS material apart) hidden, and nothing else, in every walk order? | 3 kinds, every document of up to 3 of 15 fields |
| `redaction_tls` | is TLS material hidden, as the table says? (violated) | the same |

Why these bounds are enough to be interesting: two replicas, two generations and
one report are what it takes for a cached read to be behind in every respect that
can matter (spec, other replica's status, engine's status); one fault is a lost
answer, an orphaned request or a restart at any point, and an orphan can outlive
both of its neighbours. With two objects on one worker the first has the second
life and the edits; the second need only be there to compete, and either may be the
one whose update fails. Four requests allow create, two racing edits and a
delete, with the loser starting over. For the encoder the two numbers compared at a
bit are the closest ones there are across that bit. 31 to 32 is where a base-32
digit carries. The policies grant one permission or withhold one, so each
question to the authorizer is answered both ways with nothing else to hide
behind. Two changes during a read are one before and one after its second list,
or both between the lists; the objects include two versions of one key, a name in
two namespaces, a shared cell and a target without a region. Three attempts of a
reconcile are one that fails, its retry, and the one its event causes. Three
fields of a document are a match, a near miss and a neighbour; the rules never
relate more. One refused write before writes that succeed is what a dropped error
needs to go unnoticed; three changes give a watch an event before, between and
after an error event.

`NoEmptyWrite`, `ObservedMonotone`, `PhaseBelongsToEngine` and `WriteThenAct` are
action properties; `KeepsContract` is the abstract specification under a
refinement mapping. Symmetry is used in `audit_race` only, which has no
liveness property.

**Fairness.** `status_*`: watch events reach the caches (informers retry),
queued objects are taken (controller workers loop for ever), requests that are
waited for are answered (client and server time out). Nothing is assumed of
owners, engines, faults or orphans, so an object may stay deleted, and an orphan
may never arrive. A worker needs only weak fairness because what it waits for is
finished by the answer it is guaranteed. `apiserver_process`: goroutines are
scheduled and the deadline passes; requests need never finish.

**The violations.** Each states what a document or a comment says of the code, and
the run shows one behaviour of the code that differs.

* `event_ids_monotonic`: `docs/plans/2026-05-audit-event-schema.md` (11.3) has
  consumers break ties by `eventId` because "ULIDs are monotonic". The code draws
  fresh randomness for every ID and says on purpose that it does not need monotonic
  ones: two calls one after the other in a millisecond can sort the wrong way. What
  holds is `LaterMsSortsLater`.
* `crd_reads_not_found`: `wrapErr` reads a missing CRD as a missing resource
  (`port.go:21`). What holds is `NamedReadTruthful`.
* `redaction_tls`: the rules for `tls.crt` and `tls.key` match nothing. What holds of
  the other rows is `SensitiveHidden`.

## 4. Proofs

TLAPS checks the following for all values of the constants (any objects, replicas,
requests, callers, policies, command lines, clusters and bounds). Each module first
proves an inductive invariant and then the properties from it; the properties are
those the runs check.

`StatusReconcileProofs` (assumptions: `ConstantsAssumption`, `PhasesAssumption`)

* `TypeCorrect`: `[]TypeOK`.
* `AlwaysCoherent`: `[]Coherent`. The safety properties are not inductive: they
  say nothing about caches and requests. `Coherent` is the strengthening. A
  resource version names one version of an object (`VersionsUnique`); every
  version is sound in itself (`VersionsSound`); every update under way, waited
  for or orphaned, is exactly what its reconciler makes of one version that
  existed (`RequestsFromSeen`); caches hold versions that existed
  (`CachesFromSeen`). The key step is lemma `AdmittedIsCurrent`: an update the API
  server admits was computed from the version that is current, because the number
  it names belongs to one version only. An admitted update is therefore an atomic
  acknowledgement, whatever happened since the read.
* `NeverAhead`, `NeverBack`, `ReportsSurvive`, `WritesTell`: `ObservedNotAhead`,
  `ObservedMonotone`, `PhaseBelongsToEngine`, `NoEmptyWrite`, from `Coherent`.
* `Refinement`: `Spec => KeepsContract`.

`AuditProofs`, on the webhook (assumption: `AuditAssumption`)

* `TypeCorrect`: `[]TypeOK`, in particular no secret in an event.
* `NoUnauditedChange`: `Spec => WriteThenAct`. The invariant `AuditInv` says that a
  request in or past admission holds the object as it was at the version it read
  (`ReadIsSound`), and that one about to be allowed has its event in the trail
  (`EventIsOut`); the compare-and-swap does the rest.
* `NoNeedlessRefusal`: `[]RefusesOnlyOnFailure`, from lemma `PairingHolds` about
  `verbFor` and the registry.
* `TrailExplainsStore`: `[]TrailReachesStore`. That an event is out is not enough
  here, it must also be in its place: `TrailInv` says that there are events that
  explain the store such that every request that could still be stored has its own
  event behind all of them (`EventIsLast`). A request that could still be stored
  has read the current version, so it was emitted after the commit of that version,
  which came after its event.

`AuditProofs`, on redaction (assumption: `DocumentsAssumption`)

* `WalkInvariant`, `SecretsHidden`, `RestIsKept`: `[]SensitiveHidden` and
  `[]RestKept` of the walk, for documents of any depth and size and every order of
  the children. `SensitiveHidden` speaks of the end of the walk only; `WalkInv` is
  what holds on the way: the call at depth i is at a node with i - 1 keys and has the
  path those keys spell; a node that a call has yet to visit is, with all below it,
  as it was decoded; and a node that the rules cover (`Covered`: what the table names,
  TLS material apart, by lemma `CoveredRows`) is a marker or lies at or under a
  node still to be visited. When no call is left there is none. Each step then rests
  on what the rules do: `MatchTable` and `ContainerTable` say which paths of which
  length the eight rules match, `ChildPathIs` what a path is in terms of the keys,
  and `ClassOfChild` that the two together are `Covered`. Paths of more than three
  segments match no rule, which is why nothing deeper needs to be known exactly.

`ObjectCopiesProofs` (assumption: `KindsAssumption`: the kinds are declared types that
hold a status with conditions)

* `CopiesAreDeep`: `Refs[T]` is contained in `Fresh[T]` for each of the 87 types of the tables,
  so no copy shares a reference with its original. `EntriesSound` goes through the
  two files struct by struct: a reference field is allocated, a field that leads to
  references is descended into, and every field's type nests less deep than the
  struct (`Height`, at most five). The heights take the place of an induction: six
  steps from nothing reach a fixed point of the bodies of `Refs` and `Fresh`
  (`RefsEquation`, `FreshEquation`), and six steps carry completeness, and the shape
  of paths, from the flat structs to the lists.
* `CopyInvariant`: `CopyInv` says which cells the object and the saved status are made
  of and, until the comparison, what these hold. From it `CacheStaysIntact`
  (`CacheIntact`) and, by lemma `DeepEqualDecides` (the comparison finds the two equal
  exactly when nothing is pending), `ChangesAreNoticed` (`ChangeNoticed`), for any
  number of attempts and every set of references that may be nil.

`EventIDsProofs` (`EventIDsAssumption`, `BitsAssumption`)

* `EncodingOrder`: two IDs compare as strings exactly as their times and random
  words compare as numbers, for every 48-bit time and all 80 random bits. The
  argument follows the characters: each is a group of up to five adjacent bits of
  the key (lemmas on `Digit` and `Positions`), so the first character that differs
  holds the first bit that differs.
* `EventIDInvariant`: the lock is held by the one call that fills or reads the
  buffer, and what that call has read so far is its own; from it `OwnEntropy`
  (`EntropyOwned`). With `EncodingOrder` and the fact that `Bits` keeps the order of
  the clock (`BitsOrder`, from `LowBitsOrder` for a half of 24 bits), for every clock
  of 48 bits: `LaterSortsLater`, `KeyOrderKept`.

`ApiServerProcessProofs` (`DisjointRequests`)

* `DrainInvariant`, `SuccessDrained`: `[]SuccessMeansDrained`. Exit 0 is reached only
  through a `Shutdown` that found the API server quiet, and a server that has been
  shut down accepts nothing, so it is quiet still.

`RequestPipelineProofs` (`PoliciesAssumption`, `NoneAssumption`: the value that stands
for "not set" is none of the values that are)

* `PipelineInvariant`: what is known of the context, the writer, the recorder and the
  logs at each step `pc` of the request; most of it is what the layers passed so far
  have established (an ID before anything else, an identity before the mux, a
  permission before an operation), the rest relates recorder and wire.
* `OperationsGuarded`, `LogTruthful`, `OneAnswer`, `CausesReported`: the four safety
  properties of the pipeline, from it. The first binds a write to its own verb and a
  read to its own resource (lemma `ReadsHaveResource`); the last is about operations,
  since `handleSpec` does not log.

`CtlProofs` (`InvocationsAssumption`: names and namespaces are finite, and an alias
means what `Means` says it does, or nothing)

* `ServerInvariant`, `ServerBesideCtl`: `PipelineInv` holds of the server inside `Ctl`,
  whose steps on the server are steps of the pipeline or touch nothing of it, so all
  that is proved of the server holds beside the command.
* `CommandInvariant` ties what the command has received to what the server has sent;
  from it `ReportTruthful` (`CtlReportTruthful`).
* `OutputInvariant` relates the pieces printed and due, the latch of `errWriter` and
  the refused writes; from it `OutputTruthful` (`OutputReported`).
* `AnswerInvariant` and `WatchOrdered`: `AnswersTheQuestion` and `WatchInOrder`.

`CRDReadsProofs` (`ObjectsAssumption`: names, regions and the like are naturals,
orders are integers)

* `ReadInvariant`: every list the call has made is, in list order, what the cluster
  held at one moment recorded in `seen`, the answer is the method's function of
  the lists, and a kind whose CRD is gone has no objects. What an answer says is then a matter of the operators of `map.go`.
* `NamedReadsTrue`, `SnapshotRead`, `MatrixTrue`, `TopologyTrue`: the
  four properties of the read model. The first says of not found that the object was
  absent at a moment of the call or that the second `List` found its kind gone; the
  second covers all six collections read with one `List`. They rest on lemma `Enumeration` (a finite set
  with a strict total order can be enumerated in that order, element by rank), from
  which the members of `Sorted` and `At` are known although both are `CHOOSE`s.

Some things were learnt on the way and changed in the models. The events a watch was
told (`told`) held error events too, which made `WatchInOrder` awkward to state; they
are left out of it now, as the command leaves them out of its output. And filtering
and sorting in `CRDReads` were operators of the library that are opaque to the prover;
`Sorted` and `At` say what they mean and leave open, as `sort.Slice` does, what happens
to equals. `Redaction` rebuilt a node's path from its keys at each use; it is now
handed down by the calls, as `walk` does, and the proof showed which assumption on
the documents the table silently rests on (`IsObject`).

Only model-checked: the liveness properties (`EventuallyAcknowledged`, `SignalStops`,
`ListenerFailureStops`), since fairness and ENABLED are out of the prover's reach; so
is that the redaction walk ends. The runs that show a disagreement with a document
or a comment have no theorem either: a counterexample is one behaviour.

## 5. Not modelled

* Of the generated API code: the client methods nobody calls and the type
  declarations. CRD manifests, the UI, kustomize and CI files: no logic that a
  state machine would show.
* The fixtures read model (immutable, its calls are lookups), the
  sync phases (a table nothing calls yet) and the metrics (declared, not yet recorded).
* JSON and log formats, flag parsing, RBAC markers, metrics labels.
* The engines of the design documents: they do not exist in the code. Their
  status writes appear as `EngineReport`.
* Leader election: provided by controller-runtime, off by default. The models
  allow several active replicas, which covers the overlap around an election too.

## 6. Plan

Done: the core (reconcilers and manager, with contract and proofs), the audit
webhook, event IDs, redaction, the API server process, the request pipeline, the
CRD read model, the copies of custom resources, and `keleustesctl` composed with the
API server; proofs of the safety properties of all of them.

1. An abstract read that happens at one instant, and which calls of `CRDReads`
   implement it.
2. The engines of the design documents, as they are written.
