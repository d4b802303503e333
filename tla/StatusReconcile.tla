--------------------------- MODULE StatusReconcile ---------------------------
(***************************************************************************)
(* The controller manager (cmd/manager, internal/controller) against the   *)
(* Kubernetes API server.  Every replica of the manager runs one worker    *)
(* per registered kind; a worker takes an object from its work queue,      *)
(* reads it from the replica's informer cache, computes the status it      *)
(* wants and, when that differs from what it read, sends a status update   *)
(* carrying the resource version it read.  Leader election is off unless a *)
(* flag asks for it, so several replicas may work on one object.           *)
(*                                                                         *)
(* The API server, the informers and the work queue are external: they are *)
(* modelled by what the reconcilers rely on.  The API server accepts a     *)
(* status update only against the version it names, bumps the resource     *)
(* version on every write and the generation on every spec edit.  A cache  *)
(* holds some version that once was current and may lag behind without     *)
(* limit; every event that reaches it puts its object in the queue.  A     *)
(* request whose sender crashed or gave up may still arrive.               *)
(***************************************************************************)
EXTENDS Reconcilers

CONSTANTS
    Objects,         \* the objects the controllers own
    KindOf,          \* the kind of each object
    Replicas,        \* the running replicas of the manager
    MaxIncarnations, \* bound: how often each object is created
    MaxGeneration,   \* bound: the generation an edit of each object's spec may reach
    MaxReports,      \* bound: status writes by engines, in all
    MaxFaults        \* bound: failed calls and crashes, in all

ASSUME ConstantsAssumption ==
    /\ KindOf \in [Objects -> Kinds]
    /\ MaxIncarnations \in [Objects -> Nat] /\ MaxGeneration \in [Objects -> Nat]
    /\ MaxReports \in Nat /\ MaxFaults \in Nat

VARIABLES
    store,     \* store[o]: the version of o that is current in etcd
    seen,      \* seen[o]: every version of o there has been
    cache,     \* cache[r][o]: the version in replica r's informer cache
    queue,     \* queue[r]: objects waiting in r's work queues
    inFlight,  \* inFlight[r]: updates r's workers are waiting on
    orphans,   \* updates still under way whose sender no longer waits
    reports,   \* status writes by engines so far
    faults     \* failed calls and crashes so far

vars == <<store, seen, cache, queue, inFlight, orphans, reports, faults>>

(* One version of an object.  Generations count from 1: generation 0 marks *)
(* the tombstone a deletion leaves, and an object never created.           *)
Version == [uid : Nat, rv : Nat, generation : Nat, status : Status]

Live(v) == v.generation > 0

NeverCreated == [uid |-> 0, rv |-> 0, generation |-> 0, status |-> EmptyStatus]

(* A status update as it is sent; rv = 0 would ask for no precondition.    *)
Request == [obj : Objects, rv : Nat, status : Status]

TypeOK ==
    /\ store \in [Objects -> Version]
    /\ seen \in [Objects -> SUBSET Version]
    /\ cache \in [Replicas -> [Objects -> Version]]
    /\ queue \in [Replicas -> SUBSET Objects]
    /\ inFlight \in [Replicas -> SUBSET Request]
    /\ orphans \in SUBSET Request
    /\ reports \in 0..MaxReports
    /\ faults \in 0..MaxFaults

Init ==
    /\ store = [o \in Objects |-> NeverCreated]
    /\ seen = [o \in Objects |-> {NeverCreated}]
    /\ cache = [r \in Replicas |-> [o \in Objects |-> NeverCreated]]
    /\ queue = [r \in Replicas |-> {}]
    /\ inFlight = [r \in Replicas |-> {}]
    /\ orphans = {}
    /\ reports = 0
    /\ faults = 0

-----------------------------------------------------------------------------
(* The API server and the writers other than the reconcilers.              *)

Put(o, v) ==
    /\ store' = [store EXCEPT ![o] = v]
    /\ seen' = [seen EXCEPT ![o] = @ \cup {v}]

Create(o) ==
    /\ ~Live(store[o])
    /\ store[o].uid < MaxIncarnations[o]
    /\ Put(o, [uid |-> store[o].uid + 1, rv |-> store[o].rv + 1,
               generation |-> 1, status |-> EmptyStatus])
    /\ UNCHANGED <<cache, queue, inFlight, orphans, reports, faults>>

EditSpec(o) ==
    /\ Live(store[o])
    /\ store[o].generation < MaxGeneration[o]
    /\ Put(o, [store[o] EXCEPT !.generation = @ + 1, !.rv = @ + 1])
    /\ UNCHANGED <<cache, queue, inFlight, orphans, reports, faults>>

Delete(o) ==
    /\ Live(store[o])
    /\ Put(o, [store[o] EXCEPT !.generation = 0, !.rv = @ + 1,
                              !.status = EmptyStatus])
    /\ UNCHANGED <<cache, queue, inFlight, orphans, reports, faults>>

(* An engine, or an operator with access to the status subresource,        *)
(* reports progress on the version it has just read, and may withdraw the  *)
(* Accepted condition.                                                     *)
EngineReport(o) ==
    /\ Live(store[o])
    /\ reports < MaxReports
    /\ \E p \in Phases, c \in {store[o].status.accepted, "False"} :
          /\ <<p, c>> # <<store[o].status.phase, store[o].status.accepted>>
          /\ Put(o, [store[o] EXCEPT !.rv = @ + 1, !.status.phase = p,
                                     !.status.accepted = c])
    /\ reports' = reports + 1
    /\ UNCHANGED <<cache, queue, inFlight, orphans, faults>>

(* The precondition check of a status update, and its effect.              *)
Admissible(q) == Live(store[q.obj]) /\ q.rv \in {0, store[q.obj].rv}

Apply(q) ==
    Put(q.obj, [store[q.obj] EXCEPT !.rv = @ + 1, !.status = q.status])

-----------------------------------------------------------------------------
(* The informer of a replica receives an event, or relists.                *)
WatchEvent(r, o) ==
    /\ \E v \in seen[o] :
          /\ v.rv > cache[r][o].rv
          /\ cache' = [cache EXCEPT ![r][o] = v]
    /\ queue' = [queue EXCEPT ![r] = @ \cup {o}]
    /\ UNCHANGED <<store, seen, inFlight, orphans, reports, faults>>

-----------------------------------------------------------------------------
(* Reconcile.  A worker takes an object and does everything up to its      *)
(* return or up to the status update in one step: all of it is local.      *)

Idle(r, kind) == \A q \in inFlight[r] : KindOf[q.obj] # kind

Take(r, o) ==
    /\ o \in queue[r]
    /\ Idle(r, KindOf[o])

(* Get finds nothing: the object is gone, there is nothing to do.          *)
ReconcileNotFound(r, o) ==
    /\ Take(r, o)
    /\ ~Live(cache[r][o])
    /\ queue' = [queue EXCEPT ![r] = @ \ {o}]
    /\ UNCHANGED <<store, seen, cache, inFlight, orphans, reports, faults>>

(* Get fails in any other way: the error is returned, and the queue tries  *)
(* the object again.                                                       *)
ReconcileGetFailed(r, o) ==
    /\ Take(r, o)
    /\ faults < MaxFaults
    /\ faults' = faults + 1
    /\ UNCHANGED <<store, seen, cache, queue, inFlight, orphans, reports>>

Desired(o, v) == Reconciled(KindOf[o], v.status, v.generation)

(* Seeded bugs: write on every pass; write only when the spec has changed. *)
NeedsUpdateAlways(o, v) == TRUE
NeedsUpdateOnEdit(o, v) == v.status.observedGeneration # v.generation

NeedsUpdate(o, v) == Desired(o, v) # v.status

(* Seeded bug: the status is sent without the version it was read from.    *)
UpdateRequestForced(o, v) == [obj |-> o, rv |-> 0, status |-> Desired(o, v)]

UpdateRequest(o, v) == [obj |-> o, rv |-> v.rv, status |-> Desired(o, v)]

(* The status is as it should be: return without a write.                  *)
ReconcileUnchanged(r, o) ==
    /\ Take(r, o)
    /\ Live(cache[r][o])
    /\ ~NeedsUpdate(o, cache[r][o])
    /\ queue' = [queue EXCEPT ![r] = @ \ {o}]
    /\ UNCHANGED <<store, seen, cache, inFlight, orphans, reports, faults>>

(* Status().Update is called with the object as it was read.               *)
ReconcileSubmit(r, o) ==
    /\ Take(r, o)
    /\ Live(cache[r][o])
    /\ NeedsUpdate(o, cache[r][o])
    /\ queue' = [queue EXCEPT ![r] = @ \ {o}]
    /\ inFlight' = [inFlight EXCEPT ![r] = @ \cup {UpdateRequest(o, cache[r][o])}]
    /\ UNCHANGED <<store, seen, cache, orphans, reports, faults>>

(* Seeded bug: an update error is swallowed.                               *)
RequeuedNever(o) == {}

(* The objects a worker puts back when its reconcile returns an error.     *)
Requeued(o) == {o}

UpdateCommitted(r, q) ==
    /\ q \in inFlight[r]
    /\ Admissible(q)
    /\ Apply(q)
    /\ inFlight' = [inFlight EXCEPT ![r] = @ \ {q}]
    /\ UNCHANGED <<cache, queue, orphans, reports, faults>>

(* Conflict, or the object is gone: either way the error is returned.      *)
UpdateRejected(r, q) ==
    /\ q \in inFlight[r]
    /\ ~Admissible(q)
    /\ inFlight' = [inFlight EXCEPT ![r] = @ \ {q}]
    /\ queue' = [queue EXCEPT ![r] = @ \cup Requeued(q.obj)]
    /\ UNCHANGED <<store, seen, cache, orphans, reports, faults>>

(* The call times out or its connection breaks: the worker sees an error,  *)
(* and the request may or may not be carried out.                          *)
UpdateAbandoned(r, q) ==
    /\ q \in inFlight[r]
    /\ faults < MaxFaults
    /\ faults' = faults + 1
    /\ inFlight' = [inFlight EXCEPT ![r] = @ \ {q}]
    /\ orphans' = orphans \cup {q}
    /\ queue' = [queue EXCEPT ![r] = @ \cup Requeued(q.obj)]
    /\ UNCHANGED <<store, seen, cache, reports>>

OrphanArrives(q) ==
    /\ q \in orphans
    /\ Admissible(q)
    /\ Apply(q)
    /\ orphans' = orphans \ {q}
    /\ UNCHANGED <<cache, queue, inFlight, reports, faults>>

-----------------------------------------------------------------------------
(* The process dies and comes back: its first list may be served by an API *)
(* server that is itself behind, so the cache may even move back.  Every   *)
(* object in it is queued.                                                 *)
Restart(r) ==
    /\ faults < MaxFaults
    /\ faults' = faults + 1
    /\ \E listed \in [Objects -> UNION {seen[o] : o \in Objects}] :
          /\ \A o \in Objects : listed[o] \in seen[o]
          /\ cache' = [cache EXCEPT ![r] = listed]
          /\ queue' = [queue EXCEPT ![r] = {o \in Objects : Live(listed[o])}]
    /\ inFlight' = [inFlight EXCEPT ![r] = {}]
    /\ orphans' = orphans \cup inFlight[r]
    /\ UNCHANGED <<store, seen, reports>>

-----------------------------------------------------------------------------
Environment(o) == Create(o) \/ EditSpec(o) \/ Delete(o) \/ EngineReport(o)

Reconcile(r, o) ==
    \/ ReconcileNotFound(r, o)
    \/ ReconcileUnchanged(r, o)
    \/ ReconcileSubmit(r, o)

Answered(r) == \E q \in inFlight[r] : UpdateCommitted(r, q) \/ UpdateRejected(r, q)

Next ==
    \/ \E o \in Objects : Environment(o)
    \/ \E r \in Replicas, o \in Objects :
          WatchEvent(r, o) \/ Reconcile(r, o) \/ ReconcileGetFailed(r, o)
    \/ \E r \in Replicas : Answered(r) \/ Restart(r)
    \/ \E r \in Replicas : \E q \in inFlight[r] : UpdateAbandoned(r, q)
    \/ \E q \in orphans : OrphanArrives(q)

(* Events reach the caches, queues are worked off and requests that are    *)
(* waited for are answered.  Nothing is assumed of the environment, of     *)
(* faults, or of requests nobody waits for.                                *)
Fairness ==
    /\ \A r \in Replicas : WF_vars(Answered(r))
    /\ \A r \in Replicas, o \in Objects :
          WF_vars(WatchEvent(r, o)) /\ WF_vars(Reconcile(r, o))

Spec == Init /\ [][Next]_vars

FairSpec == Spec /\ Fairness

-----------------------------------------------------------------------------
(* Properties.                                                             *)

(* No status ever claims a generation its object has not reached, although *)
(* statuses are computed from versions that may be out of date or belong   *)
(* to an earlier object of the same name (Reconcile, Status().Update).     *)
ObservedNotAhead ==
    \A o \in Objects :
        /\ store[o].status.observedGeneration <= store[o].generation
        /\ store[o].status.acceptedGeneration = store[o].status.observedGeneration

(* While an object lives, the generation its controller has acknowledged   *)
(* never moves back: a replica working from an older version cannot undo   *)
(* the acknowledgement of a newer one.                                     *)
ObservedMonotone ==
    [][\A o \in Objects :
          store[o].uid = store'[o].uid /\ Live(store'[o]) =>
             store[o].status.observedGeneration
                 <= store'[o].status.observedGeneration]_vars

(* A phase somebody has reported is changed by its reporters alone; the    *)
(* Promotion reconciler only ever fills in a phase that is missing         *)
(* (promotion_controller.go, the test on Phase == "").                     *)
PhaseBelongsToEngine ==
    [][\A o \in Objects :
          /\ store[o].uid = store'[o].uid
          /\ Live(store'[o])
          /\ store[o].status.phase # NoPhase
          /\ store[o].status.phase # store'[o].status.phase
          => reports' = reports + 1]_vars

(* The reconcilers are idempotent (doc.go): they never write a version     *)
(* that says what the one before it said.                                  *)
NoEmptyWrite ==
    [][\A o \in Objects :
          store[o].rv # store'[o].rv =>
             [store[o] EXCEPT !.rv = 0] # [store'[o] EXCEPT !.rv = 0]]_vars

Acknowledged(o) ==
    /\ store[o].status.observedGeneration = store[o].generation
    /\ store[o].status.accepted = "True"
    /\ KindOf[o] = "Promotion" => store[o].status.phase # NoPhase

(* Once owners and engines are still, every object that exists ends up     *)
(* acknowledged and stays so, whatever calls failed and processes died on  *)
(* the way.                                                                *)
EventuallyAcknowledged ==
    \A o \in Objects : <>[](Live(store[o]) => Acknowledged(o))

(* The manager keeps the promise of StatusContract: an update that is      *)
(* accepted acknowledges the generation and keeps the reports that are     *)
(* current when it is accepted, not those that were current when the       *)
(* worker read them.                                                       *)
Contract == INSTANCE StatusContract WITH
    obj <- [o \in Objects |->
              [uid |-> store[o].uid, generation |-> store[o].generation,
               status |-> store[o].status]]

KeepsContract == Contract!Spec

-----------------------------------------------------------------------------
(* The inductive strengthening: a resource version names one version, the  *)
(* current one carries the highest, and every update under way asks for    *)
(* exactly what its reconciler makes of the version it names.              *)
VersionsUnique ==
    \A o \in Objects :
        /\ store[o] \in seen[o]
        /\ \A v \in seen[o] : v.rv <= store[o].rv
        /\ \A v, w \in seen[o] : v.rv = w.rv => v = w

VersionsSound ==
    \A o \in Objects : \A v \in seen[o] :
        /\ Live(v) => v.rv > 0
        /\ v.status.observedGeneration <= v.generation
        /\ v.status.acceptedGeneration = v.status.observedGeneration

FromSeen(q) ==
    \E v \in seen[q.obj] :
        Live(v) /\ NeedsUpdate(q.obj, v) /\ q = UpdateRequest(q.obj, v)

RequestsFromSeen ==
    /\ \A r \in Replicas : \A q \in inFlight[r] : FromSeen(q)
    /\ \A q \in orphans : FromSeen(q)

CachesFromSeen == \A r \in Replicas, o \in Objects : cache[r][o] \in seen[o]

(* Whatever is under way or cached is a faithful picture of one version    *)
(* that existed, and a version is named by its resource version alone.     *)
Coherent ==
    /\ VersionsUnique
    /\ VersionsSound
    /\ RequestsFromSeen
    /\ CachesFromSeen
=============================================================================
