------------------------ MODULE StatusReconcileProofs ------------------------
(***************************************************************************)
(* Proofs about StatusReconcile, for any set of objects and replicas and   *)
(* any bounds.                                                             *)
(***************************************************************************)
EXTENDS StatusReconcile, TLAPS

(* Whatever the kind, Reconcile yields a well-formed status that carries   *)
(* the generation it was given twice and keeps a phase that is there.      *)
LEMMA ReconciledShape ==
    ASSUME NEW k \in Kinds, NEW s \in Status, NEW g \in Nat
    PROVE  /\ Reconciled(k, s, g) \in Status
           /\ Reconciled(k, s, g).observedGeneration = g
           /\ Reconciled(k, s, g).acceptedGeneration = g
           /\ s.phase # NoPhase => Reconciled(k, s, g).phase = s.phase
<1>1. /\ Accept(s, g) \in Status
      /\ Accept(s, g).observedGeneration = g
      /\ Accept(s, g).acceptedGeneration = g
      /\ Accept(s, g).phase = s.phase
  BY DEF Accept, SetStatusCondition, Status, ConditionStatus
<1>2. /\ PromotionReconciler(s, g) \in Status
      /\ PromotionReconciler(s, g).observedGeneration = g
      /\ PromotionReconciler(s, g).acceptedGeneration = g
      /\ s.phase # NoPhase => PromotionReconciler(s, g).phase = s.phase
  BY PhasesAssumption
     DEF PromotionReconciler, Accept, SetStatusCondition, Status, ConditionStatus
<1>3. Reconciled(k, s, g) \in {Accept(s, g), PromotionReconciler(s, g)}
  BY DEF Reconciled, Kinds, ApplicationReconciler, ApprovalReconciler,
         CellReconciler, DeploymentReconciler, DeploymentTargetReconciler,
         EnvironmentReconciler, FreezeWindowReconciler, HealthCheckReconciler,
         NotifierReconciler, PromotionPolicyReconciler, ReleaseReconciler,
         SourceReconciler, SyncPlanReconciler, SyncRunReconciler
<1>4. QED
  BY <1>1, <1>2, <1>3

(* A request built from a version is a well-formed request.                *)
LEMMA UpdateRequestType ==
    ASSUME NEW o \in Objects, NEW v \in Version
    PROVE  /\ Desired(o, v) \in Status
           /\ UpdateRequest(o, v) \in Request
  BY ReconciledShape, ConstantsAssumption
     DEF Desired, UpdateRequest, Request, Version

-----------------------------------------------------------------------------
(* The status a new object starts with is a status.                        *)
LEMMA EmptyStatusType ==
    /\ EmptyStatus \in Status
    /\ EmptyStatus.observedGeneration = 0
    /\ EmptyStatus.acceptedGeneration = 0
  BY DEF EmptyStatus, Status, ConditionStatus

(* The versions the writers make of a version.                             *)
LEMMA NextVersion ==
    ASSUME NEW v \in Version, NEW s \in Status
    PROVE  /\ [uid |-> v.uid + 1, rv |-> v.rv + 1, generation |-> 1,
               status |-> EmptyStatus] \in Version
           /\ [v EXCEPT !.generation = @ + 1, !.rv = @ + 1] \in Version
           /\ [v EXCEPT !.generation = 0, !.rv = @ + 1,
                        !.status = EmptyStatus] \in Version
           /\ [v EXCEPT !.rv = @ + 1, !.status = s] \in Version
<1>1. v.uid + 1 \in Nat /\ v.rv + 1 \in Nat /\ v.generation + 1 \in Nat
  BY DEF Version
<1>2. \A n, m \in Nat : /\ [v EXCEPT !.generation = n, !.rv = m] \in Version
                        /\ [v EXCEPT !.rv = m, !.status = s] \in Version
                        /\ [v EXCEPT !.generation = 0, !.rv = m,
                                     !.status = EmptyStatus] \in Version
  BY EmptyStatusType DEF Version
<1>3. QED
  BY <1>1, <1>2, EmptyStatusType DEF Version

(* Each write to the store installs a version, and only one with the next  *)
(* resource version.                                                       *)
LEMMA PutType ==
    ASSUME TypeOK, NEW o \in Objects, NEW v \in Version, Put(o, v)
    PROVE  store' \in [Objects -> Version] /\ seen' \in [Objects -> SUBSET Version]
  BY DEF TypeOK, Put

(* Applying a request leaves well-formed versions.                         *)
LEMMA ApplyType ==
    ASSUME TypeOK, NEW q \in Request, Apply(q)
    PROVE  store' \in [Objects -> Version] /\ seen' \in [Objects -> SUBSET Version]
<1>1. [store[q.obj] EXCEPT !.rv = @ + 1, !.status = q.status] \in Version
  BY NextVersion DEF TypeOK, Request
<1>2. q.obj \in Objects
  BY DEF Request
<1>3. QED
  BY <1>1, <1>2, PutType DEF Apply

(* The state always has the types TypeOK gives it.                         *)
THEOREM TypeCorrect == Spec => []TypeOK
<1>1. Init => TypeOK
  <2>1. NeverCreated \in Version
    BY EmptyStatusType DEF NeverCreated, Version
  <2>2. QED
    BY <2>1, ConstantsAssumption DEF Init, TypeOK
<1>2. TypeOK /\ [Next]_vars => TypeOK'
  <2> SUFFICES ASSUME TypeOK, [Next]_vars PROVE TypeOK'
    OBVIOUS
  <2>1. ASSUME NEW o \in Objects, Create(o) PROVE TypeOK'
    <3>1. store[o] \in Version
      BY DEF TypeOK
    <3>2. QED
      BY <2>1, <3>1, EmptyStatusType, NextVersion, PutType DEF Create, TypeOK
  <2>2. ASSUME NEW o \in Objects, EditSpec(o) PROVE TypeOK'
    <3>1. store[o] \in Version
      BY DEF TypeOK
    <3>2. QED
      BY <2>2, <3>1, EmptyStatusType, NextVersion, PutType DEF EditSpec, TypeOK
  <2>3. ASSUME NEW o \in Objects, Delete(o) PROVE TypeOK'
    <3>1. store[o] \in Version
      BY DEF TypeOK
    <3>2. QED
      BY <2>3, <3>1, EmptyStatusType, NextVersion, PutType DEF Delete, TypeOK
  <2>4. ASSUME NEW o \in Objects, EngineReport(o) PROVE TypeOK'
    <3>1. PICK p \in Phases, c \in {store[o].status.accepted, "False"} :
             Put(o, [store[o] EXCEPT !.rv = @ + 1, !.status.phase = p,
                                     !.status.accepted = c])
      BY <2>4 DEF EngineReport
    <3>2. store[o] \in Version /\ store[o].status \in Status
      <4>1. store[o] \in Version
        BY DEF TypeOK
      <4>2. QED
        BY <4>1 DEF Version
    <3>3. [store[o].status EXCEPT !.phase = p, !.accepted = c] \in Status
      BY <3>2 DEF Status, ConditionStatus
    <3>4. [store[o] EXCEPT !.rv = @ + 1, !.status.phase = p,
                           !.status.accepted = c] \in Version
      <4>1. [store[o] EXCEPT !.rv = @ + 1, !.status.phase = p, !.status.accepted = c]
              = [store[o] EXCEPT !.rv = @ + 1,
                   !.status = [store[o].status EXCEPT !.phase = p, !.accepted = c]]
        BY <3>2 DEF Version, Status
      <4>2. QED
        BY <3>2, <3>3, <4>1, NextVersion
    <3>5. reports' \in 0..MaxReports
      BY <2>4, ConstantsAssumption DEF EngineReport, TypeOK
    <3>6. QED
      BY <2>4, <3>1, <3>4, <3>5, PutType DEF EngineReport, TypeOK
  <2>5. ASSUME NEW r \in Replicas, NEW o \in Objects, WatchEvent(r, o) PROVE TypeOK'
    BY <2>5 DEF WatchEvent, TypeOK
  <2>6. ASSUME NEW r \in Replicas, NEW o \in Objects, Reconcile(r, o) PROVE TypeOK'
    <3>1. cache[r][o] \in Version
      BY DEF TypeOK
    <3>2. CASE ReconcileNotFound(r, o)
      BY <3>2 DEF ReconcileNotFound, TypeOK
    <3>3. CASE ReconcileUnchanged(r, o)
      BY <3>3 DEF ReconcileUnchanged, TypeOK
    <3>4. CASE ReconcileSubmit(r, o)
      BY <3>1, <3>4, UpdateRequestType DEF ReconcileSubmit, TypeOK
    <3>5. QED
      BY <2>6, <3>2, <3>3, <3>4 DEF Reconcile
  <2>7. ASSUME NEW r \in Replicas, NEW o \in Objects, ReconcileGetFailed(r, o)
        PROVE  TypeOK'
    BY <2>7, ConstantsAssumption DEF ReconcileGetFailed, TypeOK
  <2>8. ASSUME NEW r \in Replicas, NEW q \in inFlight[r], UpdateCommitted(r, q)
        PROVE  TypeOK'
    BY <2>8, ApplyType DEF UpdateCommitted, TypeOK
  <2>9. ASSUME NEW r \in Replicas, NEW q \in inFlight[r], UpdateRejected(r, q)
        PROVE  TypeOK'
    <3>1. q.obj \in Objects
      BY DEF TypeOK, Request
    <3>2. QED
      BY <2>9, <3>1 DEF UpdateRejected, Requeued, TypeOK
  <2>10. ASSUME NEW r \in Replicas, Restart(r) PROVE TypeOK'
    <3>1. PICK listed \in [Objects -> UNION {seen[o] : o \in Objects}] :
             /\ \A o \in Objects : listed[o] \in seen[o]
             /\ cache' = [cache EXCEPT ![r] = listed]
             /\ queue' = [queue EXCEPT ![r] = {o \in Objects : Live(listed[o])}]
      BY <2>10 DEF Restart
    <3>2. listed \in [Objects -> Version]
      BY <3>1 DEF TypeOK
    <3>3. /\ cache' \in [Replicas -> [Objects -> Version]]
          /\ queue' \in [Replicas -> SUBSET Objects]
      BY <3>1, <3>2 DEF TypeOK
    <3>4. QED
      BY <2>10, <3>3, ConstantsAssumption DEF Restart, TypeOK
  <2>11. ASSUME NEW r \in Replicas, NEW q \in inFlight[r], UpdateAbandoned(r, q)
         PROVE  TypeOK'
    <3>1. q \in Request /\ q.obj \in Objects
      BY DEF TypeOK, Request
    <3>2. QED
      BY <2>11, <3>1, ConstantsAssumption DEF UpdateAbandoned, Requeued, TypeOK
  <2>12. ASSUME NEW q \in orphans, OrphanArrives(q) PROVE TypeOK'
    BY <2>12, ApplyType DEF OrphanArrives, TypeOK
  <2>13. CASE UNCHANGED vars
    BY <2>13 DEF vars, TypeOK
  <2>14. QED
    BY <2>1, <2>2, <2>3, <2>4, <2>5, <2>6, <2>7, <2>8, <2>9, <2>10, <2>11,
       <2>12, <2>13 DEF Next, Environment, Answered
<1>3. QED
  BY <1>1, <1>2, PTL DEF Spec

-----------------------------------------------------------------------------
(* An update the API server admits was computed from the version that is   *)
(* current: the resource version it names is that of one version only.     *)
LEMMA AdmittedIsCurrent ==
    ASSUME TypeOK, VersionsUnique, VersionsSound,
           NEW q \in Request, FromSeen(q), Admissible(q)
    PROVE  /\ NeedsUpdate(q.obj, store[q.obj])
           /\ q = UpdateRequest(q.obj, store[q.obj])
<1>1. PICK v \in seen[q.obj] :
         Live(v) /\ NeedsUpdate(q.obj, v) /\ q = UpdateRequest(q.obj, v)
  BY DEF FromSeen
<1>2. q.obj \in Objects /\ q.rv = v.rv
  BY <1>1 DEF Request, UpdateRequest
<1>3. v \in Version /\ v.rv > 0
  BY <1>1, <1>2 DEF TypeOK, VersionsSound
<1>4. v.rv # 0
  BY <1>3 DEF Version
<1>5. v = store[q.obj]
  BY <1>1, <1>2, <1>4 DEF Admissible, VersionsUnique
<1>6. QED
  BY <1>1, <1>5

(* What a new version must satisfy for the history to stay coherent.       *)
Succeeds(o, v) ==
    /\ v.rv = store[o].rv + 1
    /\ v.status.observedGeneration <= v.generation
    /\ v.status.acceptedGeneration = v.status.observedGeneration

(* Writing a sound successor of the current version keeps versions sound.  *)
LEMMA PutCoherent ==
    ASSUME TypeOK, VersionsUnique, VersionsSound,
           NEW o \in Objects, NEW v \in Version, Put(o, v), Succeeds(o, v)
    PROVE  /\ VersionsUnique'
           /\ VersionsSound'
           /\ \A p \in Objects : seen[p] \subseteq seen'[p]
<1>1. store[o].rv \in Nat /\ v.rv \in Nat /\ \A w \in seen[o] : w.rv \in Nat
  BY DEF TypeOK, Version
<1>2. /\ store' = [store EXCEPT ![o] = v]
      /\ seen' = [seen EXCEPT ![o] = @ \cup {v}]
      /\ store \in [Objects -> Version]
      /\ seen \in [Objects -> SUBSET Version]
  BY DEF Put, TypeOK
<1>3. \A w \in seen[o] : w.rv < v.rv
  BY <1>1 DEF VersionsUnique, Succeeds
<1>4. VersionsUnique'
  <2> SUFFICES ASSUME NEW p \in Objects
               PROVE  /\ store'[p] \in seen'[p]
                      /\ \A w \in seen'[p] : w.rv <= store'[p].rv
                      /\ \A w, x \in seen'[p] : w.rv = x.rv => w = x
    BY DEF VersionsUnique
  <2>1. CASE p = o
    <3>1. store'[p] = v /\ seen'[p] = seen[o] \cup {v}
      BY <1>2, <2>1
    <3>2. \A w, x \in seen[o] : w.rv = x.rv => w = x
      BY DEF VersionsUnique
    <3>3. QED
      BY <1>1, <1>3, <3>1, <3>2
  <2>2. CASE p # o
    BY <1>2, <2>2 DEF VersionsUnique
  <2>3. QED
    BY <2>1, <2>2
<1>5. VersionsSound'
  <2> SUFFICES ASSUME NEW p \in Objects, NEW w \in seen'[p]
               PROVE  /\ Live(w) => w.rv > 0
                      /\ w.status.observedGeneration <= w.generation
                      /\ w.status.acceptedGeneration = w.status.observedGeneration
    BY DEF VersionsSound
  <2>1. CASE w \in seen[p]
    BY <2>1 DEF VersionsSound
  <2>2. CASE w \notin seen[p]
    <3>1. p = o /\ w = v
      BY <1>2, <2>2
    <3>2. w.rv > 0
      BY <1>1, <3>1 DEF Succeeds
    <3>3. QED
      BY <3>1, <3>2 DEF Succeeds
  <2>3. QED
    BY <2>1, <2>2
<1>6. \A p \in Objects : seen[p] \subseteq seen'[p]
  BY <1>2
<1>7. QED
  BY <1>4, <1>5, <1>6

(* Requests and cached versions stay accounted for as the history grows.   *)
LEMMA FromSeenKept ==
    ASSUME NEW q \in Request, FromSeen(q),
           \A p \in Objects : seen[p] \subseteq seen'[p]
    PROVE  FromSeen(q)'
<1>1. q.obj \in Objects
  BY DEF Request
<1>2. QED
  BY <1>1 DEF FromSeen

(* The current version is one of the sound versions.                       *)
LEMMA StoreSound ==
    ASSUME TypeOK, VersionsUnique, VersionsSound, NEW o \in Objects
    PROVE  /\ store[o] \in Version
           /\ store[o].status \in Status
           /\ store[o].uid \in Nat /\ store[o].rv \in Nat /\ store[o].generation \in Nat
           /\ store[o].status.observedGeneration \in Nat
           /\ store[o].status.observedGeneration <= store[o].generation
           /\ store[o].status.acceptedGeneration = store[o].status.observedGeneration
<1>1. store[o] \in Version /\ store[o] \in seen[o]
  BY DEF TypeOK, VersionsUnique
<1>2. /\ store[o].status \in Status
      /\ store[o].uid \in Nat /\ store[o].rv \in Nat /\ store[o].generation \in Nat
  BY <1>1 DEF Version
<1>3. store[o].status.observedGeneration \in Nat
  BY <1>2 DEF Status
<1>4. QED
  BY <1>1, <1>2, <1>3 DEF VersionsSound

(* Owners and engines write successors of the current version.             *)
LEMMA EnvironmentPuts ==
    ASSUME TypeOK, VersionsUnique, VersionsSound, NEW o \in Objects, Environment(o)
    PROVE  \E v \in Version : Put(o, v) /\ Succeeds(o, v)
<1> DEFINE cur == store[o]
<1>1. /\ cur \in Version /\ cur.status \in Status
      /\ cur.rv \in Nat /\ cur.generation \in Nat
      /\ cur.status.observedGeneration \in Nat
      /\ cur.status.observedGeneration <= cur.generation
      /\ cur.status.acceptedGeneration = cur.status.observedGeneration
  BY StoreSound
<1>2. CASE Create(o)
  <2> DEFINE v == [uid |-> cur.uid + 1, rv |-> cur.rv + 1, generation |-> 1,
                   status |-> EmptyStatus]
  <2>1. v \in Version
    BY <1>1, NextVersion
  <2>2. v.rv = cur.rv + 1 /\ v.generation = 1 /\ v.status = EmptyStatus
    OBVIOUS
  <2>3. Succeeds(o, v)
    BY <2>2, EmptyStatusType DEF Succeeds
  <2>4. Put(o, v)
    BY <1>2 DEF Create
  <2>5. QED
    BY <2>1, <2>3, <2>4
<1>3. CASE EditSpec(o)
  <2> DEFINE v == [cur EXCEPT !.generation = @ + 1, !.rv = @ + 1]
  <2>1. v \in Version
    BY <1>1, NextVersion
  <2>2. v.rv = cur.rv + 1 /\ v.generation = cur.generation + 1 /\ v.status = cur.status
    BY <1>1 DEF Version
  <2>3. Succeeds(o, v)
    BY <1>1, <2>2 DEF Succeeds
  <2>4. Put(o, v)
    BY <1>3 DEF EditSpec
  <2>5. QED
    BY <2>1, <2>3, <2>4
<1>4. CASE Delete(o)
  <2> DEFINE v == [cur EXCEPT !.generation = 0, !.rv = @ + 1, !.status = EmptyStatus]
  <2>1. v \in Version
    BY <1>1, NextVersion
  <2>2. v.rv = cur.rv + 1 /\ v.generation = 0 /\ v.status = EmptyStatus
    BY <1>1 DEF Version
  <2>3. Succeeds(o, v)
    BY <2>2, EmptyStatusType DEF Succeeds
  <2>4. Put(o, v)
    BY <1>4 DEF Delete
  <2>5. QED
    BY <2>1, <2>3, <2>4
<1>5. CASE EngineReport(o)
  <2>1. PICK p \in Phases, c \in {cur.status.accepted, "False"} :
           Put(o, [cur EXCEPT !.rv = @ + 1, !.status.phase = p, !.status.accepted = c])
    BY <1>5 DEF EngineReport
  <2> DEFINE s == [cur.status EXCEPT !.phase = p, !.accepted = c]
             v == [cur EXCEPT !.rv = @ + 1, !.status = s]
  <2>2. s \in Status
    BY <1>1 DEF Status, ConditionStatus
  <2>3. v = [cur EXCEPT !.rv = @ + 1, !.status.phase = p, !.status.accepted = c]
    BY <1>1 DEF Version, Status
  <2>4. v \in Version
    BY <1>1, <2>2, NextVersion
  <2>5. v.rv = cur.rv + 1 /\ v.generation = cur.generation /\ v.status = s
    BY <1>1 DEF Version
  <2>6. /\ s.observedGeneration = cur.status.observedGeneration
        /\ s.acceptedGeneration = cur.status.acceptedGeneration
    BY <1>1 DEF Status
  <2>7. Succeeds(o, v)
    BY <1>1, <2>5, <2>6 DEF Succeeds
  <2>8. QED
    BY <2>1, <2>3, <2>4, <2>7
<1>6. QED
  BY <1>2, <1>3, <1>4, <1>5 DEF Environment

(* So does an admitted status update: it acknowledges exactly the          *)
(* generation that is current.                                             *)
LEMMA ApplyPuts ==
    ASSUME TypeOK, VersionsUnique, VersionsSound,
           NEW q \in Request, FromSeen(q), Admissible(q), Apply(q)
    PROVE  \E v \in Version : Put(q.obj, v) /\ Succeeds(q.obj, v)
<1> DEFINE cur == store[q.obj]
           v == [cur EXCEPT !.rv = @ + 1, !.status = q.status]
<1>1. q.obj \in Objects /\ q.status \in Status
  BY DEF Request
<1>2. cur \in Version /\ cur.status \in Status /\ cur.generation \in Nat
  BY <1>1, StoreSound
<1>3. q.status = Desired(q.obj, cur)
  BY AdmittedIsCurrent DEF UpdateRequest
<1>kind. KindOf[q.obj] \in Kinds
  BY <1>1, ConstantsAssumption
<1>4. /\ q.status.observedGeneration = cur.generation
      /\ q.status.acceptedGeneration = cur.generation
  BY <1>2, <1>3, <1>kind, ReconciledShape DEF Desired
<1>5. v \in Version
  BY <1>1, <1>2, NextVersion
<1>6. v.rv = cur.rv + 1 /\ v.generation = cur.generation /\ v.status = q.status
  BY <1>2 DEF Version
<1>7. Succeeds(q.obj, v)
  BY <1>2, <1>4, <1>6 DEF Succeeds
<1>8. QED
  BY <1>5, <1>7 DEF Apply

(* The four parts of Coherent after a write to the store that neither      *)
(* sends a request nor fills a cache.                                      *)
LEMMA WriteCoherent ==
    ASSUME TypeOK, Coherent, NEW o \in Objects, NEW v \in Version,
           Put(o, v), Succeeds(o, v),
           \A r \in Replicas : inFlight'[r] \subseteq inFlight[r],
           orphans' \subseteq orphans, cache' = cache
    PROVE  Coherent'
<1>1. /\ VersionsUnique'
      /\ VersionsSound'
      /\ \A p \in Objects : seen[p] \subseteq seen'[p]
  BY PutCoherent DEF Coherent
<1>2. RequestsFromSeen'
  <2>1. ASSUME NEW r \in Replicas, NEW q \in inFlight'[r] PROVE FromSeen(q)'
    <3>1. q \in Request /\ FromSeen(q)
      BY DEF Coherent, RequestsFromSeen, TypeOK
    <3>2. QED
      BY <1>1, <3>1, FromSeenKept
  <2>2. ASSUME NEW q \in orphans' PROVE FromSeen(q)'
    <3>1. q \in Request /\ FromSeen(q)
      BY DEF Coherent, RequestsFromSeen, TypeOK
    <3>2. QED
      BY <1>1, <3>1, FromSeenKept
  <2>3. QED
    BY <2>1, <2>2 DEF RequestsFromSeen
<1>3. CachesFromSeen'
  BY <1>1 DEF Coherent, CachesFromSeen
<1>4. QED
  BY <1>1, <1>2, <1>3 DEF Coherent

(* The same after a step that leaves the store alone.                      *)
LEMMA QuietCoherent ==
    ASSUME TypeOK, Coherent, UNCHANGED <<store, seen>>,
           \A r \in Replicas : \A q \in inFlight'[r] : FromSeen(q),
           \A q \in orphans' : FromSeen(q),
           \A r \in Replicas, o \in Objects : cache'[r][o] \in seen[o]
    PROVE  Coherent'
<1>1. VersionsUnique' /\ VersionsSound'
  BY DEF Coherent, VersionsUnique, VersionsSound
<1>2. RequestsFromSeen' /\ CachesFromSeen'
  BY DEF RequestsFromSeen, CachesFromSeen, FromSeen
<1>3. QED
  BY <1>1, <1>2 DEF Coherent

(* One step keeps the state coherent.                                      *)
LEMMA CoherentStep == TypeOK /\ Coherent /\ [Next]_vars => Coherent'
<1> SUFFICES ASSUME TypeOK, Coherent, [Next]_vars PROVE Coherent'
  OBVIOUS
<1> USE DEF Coherent
<1>0. /\ \A r \in Replicas : \A q \in inFlight[r] : FromSeen(q) /\ q \in Request
      /\ \A q \in orphans : FromSeen(q) /\ q \in Request
      /\ \A r \in Replicas, o \in Objects : cache[r][o] \in seen[o]
  BY DEF RequestsFromSeen, CachesFromSeen, TypeOK
<1>1. ASSUME NEW o \in Objects, Environment(o) PROVE Coherent'
  <2>1. UNCHANGED <<cache, inFlight, orphans>>
    BY <1>1 DEF Environment, Create, EditSpec, Delete, EngineReport
  <2>2. QED
    BY <1>1, <2>1, EnvironmentPuts, WriteCoherent
<1>2. ASSUME NEW r \in Replicas, NEW o \in Objects, WatchEvent(r, o) PROVE Coherent'
  <2>1. \A s \in Replicas, p \in Objects : cache'[s][p] \in seen[p]
    BY <1>0, <1>2 DEF WatchEvent, TypeOK
  <2>2. QED
    BY <1>0, <1>2, <2>1, QuietCoherent DEF WatchEvent
<1>3. ASSUME NEW r \in Replicas, NEW o \in Objects, Reconcile(r, o) PROVE Coherent'
  <2>1. CASE ReconcileNotFound(r, o) \/ ReconcileUnchanged(r, o)
    BY <1>0, <2>1, QuietCoherent DEF ReconcileNotFound, ReconcileUnchanged
  <2>2. CASE ReconcileSubmit(r, o)
    <3>1. cache[r][o] \in seen[o] /\ cache[r][o] \in Version
      BY <1>0 DEF TypeOK
    <3>2. UpdateRequest(o, cache[r][o]).obj = o
      BY DEF UpdateRequest
    <3>3. FromSeen(UpdateRequest(o, cache[r][o]))
      BY <2>2, <3>1, <3>2 DEF FromSeen, ReconcileSubmit
    <3>4. \A s \in Replicas : \A q \in inFlight'[s] : FromSeen(q)
      BY <1>0, <2>2, <3>3 DEF ReconcileSubmit, TypeOK
    <3>5. QED
      BY <1>0, <2>2, <3>4, QuietCoherent DEF ReconcileSubmit
  <2>3. QED
    BY <1>3, <2>1, <2>2 DEF Reconcile
<1>4. ASSUME NEW r \in Replicas, NEW o \in Objects, ReconcileGetFailed(r, o)
      PROVE  Coherent'
  BY <1>0, <1>4, QuietCoherent DEF ReconcileGetFailed
<1>5. ASSUME NEW r \in Replicas, NEW q \in inFlight[r], UpdateCommitted(r, q)
      PROVE  Coherent'
  <2>1. FromSeen(q) /\ q \in Request /\ q.obj \in Objects
    BY <1>0 DEF Request
  <2>2. PICK v \in Version : Put(q.obj, v) /\ Succeeds(q.obj, v)
    BY <1>5, <2>1, ApplyPuts DEF UpdateCommitted
  <2>3. \A s \in Replicas : inFlight'[s] \subseteq inFlight[s]
    BY <1>5 DEF UpdateCommitted, TypeOK
  <2>4. QED
    BY <1>5, <2>1, <2>2, <2>3, WriteCoherent DEF UpdateCommitted
<1>6. ASSUME NEW r \in Replicas, NEW q \in inFlight[r], UpdateRejected(r, q)
      PROVE  Coherent'
  <2>1. \A s \in Replicas : inFlight'[s] \subseteq inFlight[s]
    BY <1>6 DEF UpdateRejected, TypeOK
  <2>2. QED
    BY <1>0, <1>6, <2>1, QuietCoherent DEF UpdateRejected
<1>7. ASSUME NEW r \in Replicas, Restart(r) PROVE Coherent'
  <2>1. \A s \in Replicas : inFlight'[s] \subseteq inFlight[s]
    BY <1>7 DEF Restart, TypeOK
  <2>2. \A q \in orphans' : FromSeen(q)
    BY <1>0, <1>7 DEF Restart
  <2>3. \A s \in Replicas, o \in Objects : cache'[s][o] \in seen[o]
    BY <1>0, <1>7 DEF Restart, TypeOK
  <2>4. QED
    BY <1>0, <1>7, <2>1, <2>2, <2>3, QuietCoherent DEF Restart
<1>8. ASSUME NEW r \in Replicas, NEW q \in inFlight[r], UpdateAbandoned(r, q)
      PROVE  Coherent'
  <2>1. \A s \in Replicas : inFlight'[s] \subseteq inFlight[s]
    BY <1>8 DEF UpdateAbandoned, TypeOK
  <2>2. \A p \in orphans' : FromSeen(p)
    BY <1>0, <1>8 DEF UpdateAbandoned
  <2>3. QED
    BY <1>0, <1>8, <2>1, <2>2, QuietCoherent DEF UpdateAbandoned
<1>9. ASSUME NEW q \in orphans, OrphanArrives(q) PROVE Coherent'
  <2>1. FromSeen(q) /\ q \in Request /\ q.obj \in Objects
    BY <1>0 DEF Request
  <2>2. PICK v \in Version : Put(q.obj, v) /\ Succeeds(q.obj, v)
    BY <1>9, <2>1, ApplyPuts DEF OrphanArrives
  <2>3. QED
    BY <1>9, <2>1, <2>2, WriteCoherent DEF OrphanArrives
<1>10. CASE UNCHANGED vars
  BY <1>0, <1>10, QuietCoherent DEF vars
<1>11. QED
  BY <1>1, <1>2, <1>3, <1>4, <1>5, <1>6, <1>7, <1>8, <1>9, <1>10
     DEF Next, Answered

(* Every request under way and every cached object is a true picture of    *)
(* one version of its object, at every moment of every behaviour.          *)
THEOREM AlwaysCoherent == Spec => []Coherent
<1>1. Init => Coherent
  BY EmptyStatusType DEF Init, Coherent, VersionsUnique, VersionsSound,
     RequestsFromSeen, CachesFromSeen, NeverCreated, Live
<1>2. QED
  BY <1>1, TypeCorrect, CoherentStep, PTL DEF Spec

(* No status claims a generation its object has not reached.               *)
THEOREM NeverAhead == Spec => []ObservedNotAhead
<1>1. TypeOK /\ Coherent => ObservedNotAhead
  BY StoreSound DEF Coherent, ObservedNotAhead
<1>2. QED
  BY <1>1, TypeCorrect, AlwaysCoherent, PTL

-----------------------------------------------------------------------------
(* Every step leaves the store alone, is a step of an owner or an engine,  *)
(* or stores what the reconciler of an object makes of its current version *)
(* and only if that changes it.                                            *)
Acknowledges(o) ==
    /\ Live(store[o])
    /\ NeedsUpdate(o, store[o])
    /\ store' = [store EXCEPT ![o] = [store[o] EXCEPT !.rv = @ + 1,
                                         !.status = Desired(o, store[o])]]
    /\ UNCHANGED reports

(* Each kind of step, by what it does to the stored object.                *)
LEMMA StoreSteps ==
    ASSUME TypeOK, Coherent, [Next]_vars
    PROVE  \/ UNCHANGED store
           \/ \E o \in Objects : Environment(o)
           \/ \E o \in Objects : Acknowledges(o)
<1>1. ASSUME NEW q \in Request, FromSeen(q), Admissible(q), Apply(q), UNCHANGED reports
      PROVE  \E o \in Objects : Acknowledges(o)
  <2>1. q.obj \in Objects
    BY DEF Request
  <2>2. /\ NeedsUpdate(q.obj, store[q.obj])
        /\ q = UpdateRequest(q.obj, store[q.obj])
    BY <1>1, AdmittedIsCurrent DEF Coherent
  <2>3. q.status = Desired(q.obj, store[q.obj])
    BY <2>2 DEF UpdateRequest
  <2>4. Acknowledges(q.obj)
    BY <1>1, <2>2, <2>3 DEF Acknowledges, Admissible, Apply, Put
  <2>5. QED
    BY <2>1, <2>4
<1>2. ASSUME NEW r \in Replicas, NEW q \in inFlight[r], UpdateCommitted(r, q)
      PROVE  \E o \in Objects : Acknowledges(o)
  BY <1>1, <1>2 DEF UpdateCommitted, Coherent, RequestsFromSeen, TypeOK
<1>3. ASSUME NEW q \in orphans, OrphanArrives(q)
      PROVE  \E o \in Objects : Acknowledges(o)
  BY <1>1, <1>3 DEF OrphanArrives, Coherent, RequestsFromSeen, TypeOK
<1>4. QED
  BY <1>2, <1>3
     DEF Next, vars, Answered, Reconcile, WatchEvent, ReconcileNotFound,
         ReconcileUnchanged, ReconcileSubmit, ReconcileGetFailed, UpdateRejected,
         UpdateAbandoned, Restart

(* What an acknowledgement leaves in the store.                            *)
LEMMA AcknowledgedStore ==
    ASSUME TypeOK, Coherent, NEW o \in Objects, Acknowledges(o)
    PROVE  /\ \A p \in Objects : p # o => store'[p] = store[p]
           /\ store'[o].uid = store[o].uid
           /\ store'[o].generation = store[o].generation
           /\ store'[o].status = Desired(o, store[o])
           /\ store'[o].status.observedGeneration = store[o].generation
           /\ store[o].status.phase # NoPhase =>
                 store'[o].status.phase = store[o].status.phase
<1>1. store[o] \in Version /\ store[o].status \in Status /\ store[o].generation \in Nat
  BY StoreSound DEF Coherent
<1>2. store'[o] = [store[o] EXCEPT !.rv = @ + 1, !.status = Desired(o, store[o])]
  BY DEF Acknowledges, TypeOK
<1>3. /\ store'[o].uid = store[o].uid
      /\ store'[o].generation = store[o].generation
      /\ store'[o].status = Desired(o, store[o])
  BY <1>1, <1>2 DEF Version
<1>4. \A p \in Objects : p # o => store'[p] = store[p]
  BY DEF Acknowledges, TypeOK
<1>5. QED
  BY <1>1, <1>3, <1>4, ReconciledShape, ConstantsAssumption DEF Desired

(* What owners and engines leave in it.                                    *)
LEMMA EnvironmentStore ==
    ASSUME TypeOK, Coherent, NEW o \in Objects, Environment(o)
    PROVE  /\ \A p \in Objects : p # o => store'[p] = store[p]
           /\ \/ store'[o].uid # store[o].uid
              \/ ~Live(store'[o])
              \/ /\ store'[o].status.observedGeneration
                         = store[o].status.observedGeneration
                 /\ \/ store'[o].status.phase = store[o].status.phase
                    \/ reports' = reports + 1
<1>1. /\ store[o] \in Version /\ store[o].status \in Status /\ store[o].uid \in Nat
      /\ store \in [Objects -> Version]
  BY StoreSound DEF Coherent, TypeOK
<1>2. \A p \in Objects : p # o => store'[p] = store[p]
  BY <1>1 DEF Environment, Create, EditSpec, Delete, EngineReport, Put
<1>3. CASE Create(o)
  BY <1>1, <1>2, <1>3 DEF Create, Put
<1>4. CASE EditSpec(o)
  BY <1>1, <1>2, <1>4 DEF EditSpec, Put, Version
<1>5. CASE Delete(o)
  BY <1>1, <1>2, <1>5 DEF Delete, Put, Version, Live
<1>6. CASE EngineReport(o)
  BY <1>1, <1>2, <1>6 DEF EngineReport, Put, Version, Status
<1>7. QED
  BY <1>3, <1>4, <1>5, <1>6 DEF Environment

(* The acknowledged generation of a living object never moves back.        *)
THEOREM NeverBack == Spec => ObservedMonotone
<1> DEFINE Kept == \A o \in Objects :
              store[o].uid = store'[o].uid /\ Live(store'[o]) =>
                 store[o].status.observedGeneration
                     <= store'[o].status.observedGeneration
<1>1. ASSUME TypeOK, Coherent, [Next]_vars PROVE Kept
  <2>0. \A o \in Objects : /\ store[o].status.observedGeneration \in Nat
                           /\ store[o].status.observedGeneration <= store[o].generation
    BY <1>1, StoreSound DEF Coherent
  <2>1. CASE UNCHANGED store
    BY <2>0, <2>1
  <2>2. ASSUME NEW o \in Objects, Environment(o) PROVE Kept
    BY <1>1, <2>0, <2>2, EnvironmentStore
  <2>3. ASSUME NEW o \in Objects, Acknowledges(o) PROVE Kept
    BY <1>1, <2>0, <2>3, AcknowledgedStore
  <2>4. QED
    BY <1>1, <2>1, <2>2, <2>3, StoreSteps
<1>2. QED
  BY <1>1, TypeCorrect, AlwaysCoherent, PTL DEF Spec, ObservedMonotone

(* A phase that has been reported is changed by its reporters alone.       *)
THEOREM ReportsSurvive == Spec => PhaseBelongsToEngine
<1> DEFINE Kept == \A o \in Objects :
              /\ store[o].uid = store'[o].uid
              /\ Live(store'[o])
              /\ store[o].status.phase # NoPhase
              /\ store[o].status.phase # store'[o].status.phase
              => reports' = reports + 1
<1>1. ASSUME TypeOK, Coherent, [Next]_vars PROVE Kept
  <2>1. CASE UNCHANGED store
    BY <2>1
  <2>2. ASSUME NEW o \in Objects, Environment(o) PROVE Kept
    BY <1>1, <2>2, EnvironmentStore
  <2>3. ASSUME NEW o \in Objects, Acknowledges(o) PROVE Kept
    BY <1>1, <2>3, AcknowledgedStore
  <2>4. QED
    BY <1>1, <2>1, <2>2, <2>3, StoreSteps
<1>2. QED
  BY <1>1, TypeCorrect, AlwaysCoherent, PTL DEF Spec, PhaseBelongsToEngine

(* Owners and engines change more of an object than its resource version.  *)
LEMMA EnvironmentTells ==
    ASSUME TypeOK, Coherent, NEW o \in Objects, Environment(o)
    PROVE  \/ store'[o].uid # store[o].uid
           \/ store'[o].generation # store[o].generation
           \/ store'[o].status # store[o].status
<1>1. /\ store[o] \in Version /\ store[o].status \in Status
      /\ store[o].uid \in Nat /\ store[o].generation \in Nat
      /\ store \in [Objects -> Version]
  BY StoreSound DEF Coherent, TypeOK, Version
<1>2. CASE Create(o)
  BY <1>1, <1>2 DEF Create, Put
<1>3. CASE EditSpec(o)
  BY <1>1, <1>3 DEF EditSpec, Put, Version
<1>4. CASE Delete(o)
  BY <1>1, <1>4 DEF Delete, Put, Version, Live
<1>5. CASE EngineReport(o)
  <2>1. PICK p \in Phases, c \in {store[o].status.accepted, "False"} :
           /\ <<p, c>> # <<store[o].status.phase, store[o].status.accepted>>
           /\ store' = [store EXCEPT ![o] =
                         [store[o] EXCEPT !.rv = @ + 1, !.status.phase = p,
                                          !.status.accepted = c]]
    BY <1>5 DEF EngineReport, Put
  <2>2. store'[o].status.phase = p /\ store'[o].status.accepted = c
    BY <1>1, <2>1 DEF Version, Status
  <2>3. QED
    BY <2>1, <2>2
<1>6. QED
  BY <1>2, <1>3, <1>4, <1>5 DEF Environment

(* No write, of a reconciler or of anybody else, repeats the version it    *)
(* replaces: a reconciler compares before it sends, and what it sends is   *)
(* admitted only against the version it compared with.                     *)
THEOREM WritesTell == Spec => NoEmptyWrite
<1> DEFINE Tells == \A o \in Objects :
              store[o].rv # store'[o].rv =>
                 [store[o] EXCEPT !.rv = 0] # [store'[o] EXCEPT !.rv = 0]
<1>1. ASSUME TypeOK, TypeOK', Coherent, [Next]_vars PROVE Tells
  <2>0. \A o \in Objects : store[o] \in Version /\ store'[o] \in Version
    BY <1>1 DEF TypeOK
  <2>1. ASSUME NEW o \in Objects,
               \/ store'[o].uid # store[o].uid
               \/ store'[o].generation # store[o].generation
               \/ store'[o].status # store[o].status
        PROVE  [store[o] EXCEPT !.rv = 0] # [store'[o] EXCEPT !.rv = 0]
    <3> DEFINE v == store[o]
               w == store'[o]
    <3>1. v \in Version /\ w \in Version
      BY <2>0
    <3>2. \/ w.uid # v.uid \/ w.generation # v.generation \/ w.status # v.status
      BY <2>1
    <3> HIDE DEF v, w
    <3>3. [v EXCEPT !.rv = 0] # [w EXCEPT !.rv = 0]
      BY <3>1, <3>2 DEF Version
    <3>4. QED
      BY <3>3 DEF v, w
  <2>2. CASE UNCHANGED store
    BY <2>2
  <2>3. ASSUME NEW o \in Objects, Environment(o) PROVE Tells
    BY <1>1, <2>1, <2>3, EnvironmentStore, EnvironmentTells
  <2>4. ASSUME NEW o \in Objects, Acknowledges(o) PROVE Tells
    BY <1>1, <2>1, <2>4, AcknowledgedStore DEF Acknowledges, NeedsUpdate
  <2>5. QED
    BY <1>1, <2>2, <2>3, <2>4, StoreSteps
<1>2. QED
  BY <1>1, TypeCorrect, AlwaysCoherent, PTL DEF Spec, NoEmptyWrite

-----------------------------------------------------------------------------
(* The instance of StatusContract has the reconcilers' operators too.      *)
LEMMA SameOperators ==
    /\ Contract!EmptyStatus = EmptyStatus
    /\ Contract!ConditionStatus = ConditionStatus
    /\ \A k, t, g : Contract!Reconciled(k, t, g) = Reconciled(k, t, g)
  BY DEF EmptyStatus, Contract!EmptyStatus, ConditionStatus, Contract!ConditionStatus,
         Reconciled, Kinds, Accept, SetStatusCondition, NoPhase,
         ApplicationReconciler, ApprovalReconciler, CellReconciler,
         DeploymentReconciler, DeploymentTargetReconciler,
         EnvironmentReconciler, FreezeWindowReconciler, HealthCheckReconciler,
         NotifierReconciler, PromotionReconciler, PromotionPolicyReconciler,
         ReleaseReconciler, SourceReconciler, SyncPlanReconciler,
         SyncRunReconciler, Contract!Reconciled, Contract!Accept,
         Contract!SetStatusCondition, Contract!NoPhase,
         Contract!ApplicationReconciler, Contract!ApprovalReconciler,
         Contract!CellReconciler, Contract!DeploymentReconciler,
         Contract!DeploymentTargetReconciler, Contract!EnvironmentReconciler,
         Contract!FreezeWindowReconciler, Contract!HealthCheckReconciler,
         Contract!NotifierReconciler, Contract!PromotionReconciler,
         Contract!PromotionPolicyReconciler, Contract!ReleaseReconciler,
         Contract!SourceReconciler, Contract!SyncPlanReconciler,
         Contract!SyncRunReconciler

(* The manager with all its caches, queues and replicas keeps the promise  *)
(* of StatusContract: seen from outside, every step is a step of an owner  *)
(* or an engine, or acknowledges what is current at that very moment.      *)
THEOREM Refinement == Spec => KeepsContract
<1> DEFINE obj == [o \in Objects |->
              [uid |-> store[o].uid, generation |-> store[o].generation,
               status |-> store[o].status]]
<1>1. Init => Contract!Init
  BY SameOperators DEF Init, Contract!Init, Contract!Absent, NeverCreated
<1>2. ASSUME TypeOK, Coherent, [Next]_vars
      PROVE  [Contract!Next]_obj
  <2>0. /\ \A o \in Objects : /\ store[o] \in Version
                              /\ store[o].status \in Status
                              /\ store[o].generation \in Nat
        /\ store \in [Objects -> Version]
    BY <1>2, StoreSound DEF Coherent, TypeOK
  <2>1. CASE UNCHANGED store
    BY <2>1
  <2>2. ASSUME NEW o \in Objects, Create(o) PROVE Contract!Create(o)
    BY <2>0, <2>2, SameOperators DEF Create, Put, Live, Contract!Create, Contract!Live
  <2>3. ASSUME NEW o \in Objects, EditSpec(o) PROVE Contract!EditSpec(o)
    BY <2>0, <2>3 DEF EditSpec, Put, Live, Version, Contract!EditSpec, Contract!Live
  <2>4. ASSUME NEW o \in Objects, Delete(o) PROVE Contract!Delete(o)
    BY <2>0, <2>4, SameOperators DEF Delete, Put, Live, Version, Contract!Delete, Contract!Live
  <2>5. ASSUME NEW o \in Objects, EngineReport(o) PROVE Contract!EngineReport(o)
    <3>1. PICK p \in Phases, c \in {store[o].status.accepted, "False"} :
             store' = [store EXCEPT ![o] =
                         [store[o] EXCEPT !.rv = @ + 1, !.status.phase = p,
                                          !.status.accepted = c]]
      BY <2>5 DEF EngineReport, Put
    <3>2. c \in Contract!ConditionStatus
      BY <2>0, SameOperators DEF Status, ConditionStatus
    <3>3. /\ store'[o].uid = store[o].uid
          /\ store'[o].generation = store[o].generation
          /\ store'[o].status = [store[o].status EXCEPT !.phase = p, !.accepted = c]
          /\ \A x \in Objects : x # o => store'[x] = store[x]
      BY <2>0, <3>1 DEF Version, Status
    <3>4. obj' = [obj EXCEPT ![o].status.phase = p, ![o].status.accepted = c]
      BY <2>0, <3>3
    <3>5. Contract!Live(o)
      BY <2>5 DEF EngineReport, Live, Contract!Live
    <3>6. \E p1 \in Phases, c1 \in Contract!ConditionStatus :
             obj' = [obj EXCEPT ![o].status.phase = p1, ![o].status.accepted = c1]
      <4> HIDE DEF obj
      <4>1. QED
        BY <3>2, <3>4
    <3>7. QED
      BY <3>5, <3>6 DEF Contract!EngineReport
  <2>6. ASSUME NEW o \in Objects, Acknowledges(o) PROVE Contract!Acknowledge(o)
    BY <2>0, <2>6, SameOperators DEF Acknowledges, Desired, Live, Version, Contract!Acknowledge,
       Contract!Live
  <2>7. QED
    BY <1>2, <2>1, <2>2, <2>3, <2>4, <2>5, <2>6, StoreSteps
       DEF Environment, Contract!Next
<1>3. QED
  BY <1>1, <1>2, TypeCorrect, AlwaysCoherent, PTL DEF Spec, KeepsContract, Contract!Spec
=============================================================================
