---------------------------- MODULE AuditProofs ----------------------------
(***************************************************************************)
(* Proofs about the audit path.  First, that the webhook keeps             *)
(* write-then-act and refuses requests only on failure, for any number of  *)
(* requests, contents and faults.  Then, that the redaction its snapshots  *)
(* go through hides what the redaction table names and nothing else, for   *)
(* every Kubernetes object and every order of the walk.                    *)
(***************************************************************************)
EXTENDS AuditAdmission, Redaction, SequenceTheorems, TLAPS

(* Every verb an audited operation maps to is registered with the payload  *)
(* the handler sends (handler.go verbFor, payloads/registry.go Registry).  *)
LEMMA PairingHolds ==
    ASSUME NEW op \in Operations, verbFor(op) # NoVerb
    PROVE  /\ verbFor(op) \in Verbs
           /\ validatePayloadForVerb(verbFor(op), "crd.write.v1")
  BY DEF Operations, verbFor, NoVerb, Verbs, validatePayloadForVerb, Registry

(* A snapshot holds no secret (handler.go redactedSnapshot).               *)
LEMMA SnapshotsRedacted ==
    ASSUME NEW obj \in Object \cup {None}
    PROVE  redactedSnapshot(obj) \in Snapshot
  BY AuditAssumption DEF redactedSnapshot, Snapshot, Object, RedactedObject

(* The envelope of an audited request is a well-formed event.              *)
LEMMA EnvelopeIsEvent ==
    ASSUME NEW q \in Requests, NEW r \in RequestState, verbFor(r.op) # NoVerb
    PROVE  buildEnvelope(q, r) \in Event
  <1>1. verbFor(r.op) \in Verbs
    BY PairingHolds DEF RequestState
  <1>2. /\ redactedSnapshot(r.old) \in Snapshot
        /\ redactedSnapshot(r.new) \in Snapshot
    BY SnapshotsRedacted DEF RequestState
  <1> QED
    BY <1>1, <1>2 DEF buildEnvelope, Envelope, Event, RequestState

-----------------------------------------------------------------------------
(* The initial state is well formed.                                      *)
LEMMA TypeInit == Init => TypeOK
  BY AuditAssumption DEF Init, TypeOK, RequestState, Stages, Operations

(* Every step keeps the state well formed.                                 *)
LEMMA TypeNext == TypeOK /\ [Next]_vars => TypeOK'
  <1> SUFFICES ASSUME TypeOK, [Next]_vars PROVE TypeOK'
    OBVIOUS
  <1> USE AuditAssumption
  <1>1. ASSUME NEW q \in Requests, NEW from, NEW to \in Stages, Moved(q, from, to)
        PROVE  req' \in [Requests -> RequestState]
    BY <1>1 DEF Moved, TypeOK, RequestState
  <1>2. ASSUME NEW q \in Requests, Receive(q) PROVE TypeOK'
    <2>1. PICK op \in Operations, v \in Object, d \in {"yes", "no"} :
            req' = [req EXCEPT ![q] =
                      [stage |-> "received", op |-> op, dryRun |-> d,
                       new |-> IF op \in {"CREATE", "UPDATE"} THEN v ELSE None,
                       old |-> None, rv |-> 0]]
      BY <1>2 DEF Receive
    <2>2. req' \in [Requests -> RequestState]
      BY <2>1 DEF TypeOK, RequestState, Stages
    <2> QED  BY <1>2, <2>2 DEF Receive, TypeOK
  <1>3. ASSUME NEW q \in Requests, CallWebhook(q) PROVE TypeOK'
    <2> DEFINE r == [req[q] EXCEPT !.stage = "admission", !.old = store.value,
                                   !.rv = store.rv]
    <2>1. req[q] \in RequestState /\ store.value \in Object \cup {None} /\ store.rv \in Nat
      BY DEF TypeOK
    <2>2. r \in RequestState
      BY <2>1 DEF RequestState, Stages
    <2>3. req' = [req EXCEPT ![q] = r]
      BY <1>3 DEF CallWebhook, TypeOK
    <2>4. req' \in [Requests -> RequestState]
      BY <2>2, <2>3 DEF TypeOK
    <2> QED  BY <1>3, <2>4 DEF CallWebhook, TypeOK
  <1>4. ASSUME NEW q \in Requests, Inapplicable(q) PROVE TypeOK'
    BY <1>1, <1>4 DEF Inapplicable, TypeOK, Stages
  <1>5. ASSUME NEW q \in Requests, HandleUnaudited(q) PROVE TypeOK'
    BY <1>1, <1>5 DEF HandleUnaudited, TypeOK, Stages
  <1>6. ASSUME NEW q \in Requests, HandleUndecodable(q) PROVE TypeOK'
    BY <1>1, <1>6 DEF HandleUndecodable, TypeOK, Stages
  <1>7. ASSUME NEW q \in Requests, HandleEmit(q) PROVE TypeOK'
    <2>1. buildEnvelope(q, req[q]) \in Event
      BY <1>7, EnvelopeIsEvent DEF HandleEmit, Audited, TypeOK
    <2>2. events' \in Seq(Event)
      BY <1>7, <2>1 DEF HandleEmit, TypeOK
    <2>3. req' \in [Requests -> RequestState]
      BY <1>1, <1>7 DEF HandleEmit, Stages
    <2> QED  BY <1>7, <2>2, <2>3 DEF HandleEmit, TypeOK
  <1>8. ASSUME NEW q \in Requests, HandleEmitFailed(q) PROVE TypeOK'
    <2>1. req' \in [Requests -> RequestState]
      BY <1>1, <1>8 DEF HandleEmitFailed, verdictOnEmitError, Stages
    <2> QED  BY <1>8, <2>1 DEF HandleEmitFailed, TypeOK
  <1>9. ASSUME NEW q \in Requests, HandleAllowed(q) PROVE TypeOK'
    BY <1>1, <1>9 DEF HandleAllowed, TypeOK, Stages
  <1>10. ASSUME NEW q \in Requests, WebhookTimeout(q) PROVE TypeOK'
    <2>1. req' \in [Requests -> RequestState]
      <3>1. Moved(q, req[q].stage, "refused")
        BY <1>10 DEF WebhookTimeout, Moved
      <3> QED  BY <3>1, <1>1 DEF Stages
    <2>2. Audited(q) => buildEnvelope(q, req[q]) \in Event
      BY EnvelopeIsEvent DEF Audited, TypeOK
    <2>3. late' \in SUBSET Event
      BY <1>10, <2>2 DEF WebhookTimeout, TypeOK
    <2> QED  BY <1>10, <2>1, <2>3 DEF WebhookTimeout, TypeOK
  <1>11. ASSUME NEW e \in late, LateEmit(e) PROVE TypeOK'
    <2>1. e \in Event
      BY DEF TypeOK
    <2> QED  BY <1>11, <2>1 DEF LateEmit, TypeOK
  <1>12. ASSUME NEW q \in Requests, Commit(q) PROVE TypeOK'
    <2>1. req' \in [Requests -> RequestState]
      BY <1>1, <1>12 DEF Commit, Stages
    <2>2. req[q].new \in Object \cup {None} /\ store.rv + 1 \in Nat
      BY DEF TypeOK, RequestState
    <2>3. store' \in [value : Object \cup {None}, rv : Nat]
      BY <1>12, <2>2 DEF Commit, TypeOK
    <2> QED  BY <1>12, <2>1, <2>3 DEF Commit, TypeOK
  <1>13. ASSUME NEW q \in Requests, Conflict(q) PROVE TypeOK'
    BY <1>1, <1>13 DEF Conflict, TypeOK, Stages
  <1>14. CASE UNCHANGED vars
    BY <1>14 DEF vars, TypeOK
  <1> QED
    BY <1>2, <1>3, <1>4, <1>5, <1>6, <1>7, <1>8, <1>9, <1>10, <1>11, <1>12, <1>13, <1>14
    DEF Next, Handle

(* The webhook's state is always well formed; in particular no secret is   *)
(* ever in a published event (handler.go buildEnvelope, redactedSnapshot). *)
THEOREM TypeCorrect == Spec => []TypeOK
  BY TypeInit, TypeNext, PTL DEF Spec

-----------------------------------------------------------------------------
(* A request that has passed the webhook holds the object as it was at the *)
(* version it was read at.                                                 *)
ReadIsSound(q) ==
    req[q].stage \in {"admission", "emitted", "allowed"} =>
        /\ req[q].rv <= store.rv
        /\ req[q].rv = store.rv => req[q].old = store.value

Published(e) == \E i \in DOMAIN events : events[i] = e

(* A request about to be allowed has its event in the trail.               *)
EventIsOut(q) ==
    req[q].stage \in {"emitted", "allowed"} /\ Audited(q) =>
        Published(buildEnvelope(q, req[q]))

(* WriteThenAct needs what the server read and what the handler published  *)
(* to be still about the stored object when the write is committed.        *)
AuditInv ==
    /\ TypeOK
    /\ \A q \in Requests : ReadIsSound(q) /\ EventIsOut(q)

(* Publishing keeps what is published and adds the new event.              *)
LEMMA PublishedGrows ==
    ASSUME TypeOK, NEW e \in Event, events' = Append(events, e)
    PROVE  /\ \E i \in DOMAIN events' : events'[i] = e
           /\ \A f : Published(f) => Published(f)'
  <1>1. events \in Seq(Event)
    BY DEF TypeOK
  <1>2. /\ Len(events) + 1 \in DOMAIN events' /\ events'[Len(events) + 1] = e
        /\ \A i \in DOMAIN events : i \in DOMAIN events' /\ events'[i] = events[i]
    BY <1>1
  <1> QED  BY <1>2 DEF Published

(* A step that leaves the store and the trail's past alone does not        *)
(* disturb the requests it does not touch.                                 *)
LEMMA OthersKeep ==
    ASSUME AuditInv, NEW p \in Requests, req'[p] = req[p],
           store' = store, \A f : Published(f) => Published(f)'
    PROVE  ReadIsSound(p)' /\ EventIsOut(p)'
  BY DEF AuditInv, ReadIsSound, EventIsOut, Audited, buildEnvelope, Envelope

(* A step that only moves one request on keeps the invariant if it leaves  *)
(* the webhook, or goes from one stage of it to the next with its event    *)
(* published.                                                              *)
LEMMA MovedKeeps ==
    ASSUME AuditInv, NEW q \in Requests, NEW from, NEW to, Moved(q, from, to),
           store' = store, \A f : Published(f) => Published(f)',
           \/ to \notin {"admission", "emitted", "allowed"}
           \/ /\ from \in {"admission", "emitted", "allowed"}
              /\ Audited(q) => \E i \in DOMAIN events' :
                                  events'[i] = buildEnvelope(q, req[q])
    PROVE  \A p \in Requests : ReadIsSound(p)' /\ EventIsOut(p)'
  <1>1. \A p \in Requests : p # q => req'[p] = req[p]
    BY DEF Moved, AuditInv, TypeOK
  <1>2. /\ req'[q].stage = to /\ req'[q].op = req[q].op /\ req'[q].dryRun = req[q].dryRun
        /\ req'[q].new = req[q].new /\ req'[q].old = req[q].old /\ req'[q].rv = req[q].rv
    BY DEF Moved, AuditInv, TypeOK, RequestState
  <1>3. buildEnvelope(q, req'[q]) = buildEnvelope(q, req[q])
    BY <1>2 DEF buildEnvelope, Envelope
  <1>4. ReadIsSound(q)' /\ EventIsOut(q)'
    <2>1. CASE to \notin {"admission", "emitted", "allowed"}
      BY <1>2, <2>1 DEF ReadIsSound, EventIsOut
    <2>2. CASE /\ from \in {"admission", "emitted", "allowed"}
               /\ Audited(q) => \E i \in DOMAIN events' :
                                  events'[i] = buildEnvelope(q, req[q])
      BY <1>2, <1>3, <2>2 DEF ReadIsSound, EventIsOut, AuditInv, Moved, Audited, Published
    <2> QED  BY <2>1, <2>2
  <1> QED  BY <1>1, <1>4, OthersKeep
-----------------------------------------------------------------------------
(* The invariant holds before the first request.                           *)
LEMMA AuditInvInit == Init => AuditInv
  BY TypeInit DEF Init, AuditInv, ReadIsSound, EventIsOut

(* Every step of the server, the handler or a late handler keeps it.       *)
LEMMA AuditInvNext == AuditInv /\ [Next]_vars => AuditInv'
  <1> SUFFICES ASSUME AuditInv, [Next]_vars
               PROVE  \A p \in Requests : ReadIsSound(p)' /\ EventIsOut(p)'
    BY TypeNext DEF AuditInv
  <1>0. TypeOK
    BY DEF AuditInv
  <1>1. events' = events => \A f : Published(f) => Published(f)'
    BY DEF Published
  <1>2. ASSUME NEW q \in Requests, Receive(q)
        PROVE  \A p \in Requests : ReadIsSound(p)' /\ EventIsOut(p)'
    <2>1. \A p \in Requests : p # q => req'[p] = req[p]
      BY <1>0, <1>2 DEF Receive, TypeOK
    <2>2. req'[q].stage = "received"
      BY <1>0, <1>2 DEF Receive, TypeOK
    <2>3. ReadIsSound(q)' /\ EventIsOut(q)'
      BY <2>2 DEF ReadIsSound, EventIsOut
    <2> QED  BY <1>1, <1>2, <2>1, <2>3, OthersKeep DEF Receive
  <1>3. ASSUME NEW q \in Requests, CallWebhook(q)
        PROVE  \A p \in Requests : ReadIsSound(p)' /\ EventIsOut(p)'
    <2>1. \A p \in Requests : p # q => req'[p] = req[p]
      BY <1>0, <1>3 DEF CallWebhook, TypeOK
    <2>2. /\ req'[q].stage = "admission"
          /\ req'[q].old = store.value /\ req'[q].rv = store.rv
      BY <1>0, <1>3 DEF CallWebhook, TypeOK, RequestState
    <2>3. ReadIsSound(q)' /\ EventIsOut(q)'
      BY <1>0, <1>3, <2>2 DEF CallWebhook, ReadIsSound, EventIsOut, TypeOK
    <2> QED  BY <1>1, <1>3, <2>1, <2>3, OthersKeep DEF CallWebhook
  <1>4. ASSUME NEW q \in Requests, Inapplicable(q)
        PROVE  \A p \in Requests : ReadIsSound(p)' /\ EventIsOut(p)'
    BY <1>1, <1>4, MovedKeeps DEF Inapplicable
  <1>5. ASSUME NEW q \in Requests, HandleUnaudited(q)
        PROVE  \A p \in Requests : ReadIsSound(p)' /\ EventIsOut(p)'
    BY <1>1, <1>5, MovedKeeps DEF HandleUnaudited
  <1>6. ASSUME NEW q \in Requests, HandleUndecodable(q)
        PROVE  \A p \in Requests : ReadIsSound(p)' /\ EventIsOut(p)'
    BY <1>1, <1>6, MovedKeeps DEF HandleUndecodable
  <1>7. ASSUME NEW q \in Requests, HandleEmit(q)
        PROVE  \A p \in Requests : ReadIsSound(p)' /\ EventIsOut(p)'
    <2>1. buildEnvelope(q, req[q]) \in Event
      BY <1>0, <1>7, EnvelopeIsEvent DEF HandleEmit, Audited, TypeOK
    <2>2. /\ \E i \in DOMAIN events' : events'[i] = buildEnvelope(q, req[q])
          /\ \A f : Published(f) => Published(f)'
      BY <1>0, <1>7, <2>1, PublishedGrows DEF HandleEmit
    <2> QED  BY <1>7, <2>2, MovedKeeps DEF HandleEmit
  <1>8. ASSUME NEW q \in Requests, HandleEmitFailed(q)
        PROVE  \A p \in Requests : ReadIsSound(p)' /\ EventIsOut(p)'
    BY <1>1, <1>8, MovedKeeps DEF HandleEmitFailed, verdictOnEmitError
  <1>9. ASSUME NEW q \in Requests, HandleAllowed(q)
        PROVE  \A p \in Requests : ReadIsSound(p)' /\ EventIsOut(p)'
    <2>1. Audited(q) => \E i \in DOMAIN events' : events'[i] = buildEnvelope(q, req[q])
      BY <1>9 DEF HandleAllowed, Moved, AuditInv, EventIsOut, Published
    <2> QED  BY <1>1, <1>9, <2>1, MovedKeeps DEF HandleAllowed
  <1>10. ASSUME NEW q \in Requests, WebhookTimeout(q)
         PROVE  \A p \in Requests : ReadIsSound(p)' /\ EventIsOut(p)'
    <2>1. Moved(q, req[q].stage, "refused")
      BY <1>10 DEF WebhookTimeout, Moved
    <2> QED  BY <1>1, <1>10, <2>1, MovedKeeps DEF WebhookTimeout
  <1>11. ASSUME NEW e \in late, LateEmit(e)
         PROVE  \A p \in Requests : ReadIsSound(p)' /\ EventIsOut(p)'
    <2>1. \A f : Published(f) => Published(f)'
      BY <1>0, <1>11, PublishedGrows DEF LateEmit, TypeOK
    <2> QED  BY <1>11, <2>1, OthersKeep DEF LateEmit
  <1>12. ASSUME NEW q \in Requests, Commit(q)
         PROVE  \A p \in Requests : ReadIsSound(p)' /\ EventIsOut(p)'
    <2>1. CASE store' = store
      BY <1>1, <1>12, <2>1, MovedKeeps DEF Commit
    <2>2. CASE store' # store
      <3>1. store'.rv = store.rv + 1
        BY <1>12, <2>2 DEF Commit
      <3>2. \A p \in Requests : p # q => req'[p] = req[p]
        BY <1>0, <1>12 DEF Commit, Moved, TypeOK
      <3>3. req'[q].stage = "done"
        BY <1>0, <1>12 DEF Commit, Moved, TypeOK, RequestState
      <3>4. ReadIsSound(q)' /\ EventIsOut(q)'
        BY <3>3 DEF ReadIsSound, EventIsOut
      <3>5. ASSUME NEW p \in Requests, p # q PROVE ReadIsSound(p)' /\ EventIsOut(p)'
        <4>1. req[p].rv \in Nat /\ store.rv \in Nat
          BY <1>0 DEF TypeOK, RequestState
        <4>2. ReadIsSound(p)'
          BY <3>1, <3>2, <3>5, <4>1 DEF ReadIsSound, AuditInv
        <4>3. EventIsOut(p)'
          BY <1>1, <1>12, <3>2, <3>5
          DEF Commit, EventIsOut, Audited, AuditInv, buildEnvelope, Envelope
        <4> QED  BY <4>2, <4>3
      <3> QED  BY <3>4, <3>5
    <2> QED  BY <2>1, <2>2
  <1>13. ASSUME NEW q \in Requests, Conflict(q)
         PROVE  \A p \in Requests : ReadIsSound(p)' /\ EventIsOut(p)'
    BY <1>1, <1>13, MovedKeeps DEF Conflict
  <1>14. CASE UNCHANGED vars
    BY <1>1, <1>14, OthersKeep DEF vars
  <1> QED
    BY <1>2, <1>3, <1>4, <1>5, <1>6, <1>7, <1>8, <1>9, <1>10, <1>11, <1>12, <1>13, <1>14
    DEF Next, Handle

-----------------------------------------------------------------------------
(* Only a commit changes the store, and it stores what its event says.     *)
LEMMA CommitIsDescribed ==
    ASSUME AuditInv, NEW q \in Requests, Commit(q), store' # store
    PROVE  \E i \in DOMAIN events : Describes(events[i], store.value, store'.value)
  <1>1. /\ req[q].op \in Operations \ {"CONNECT"} /\ req[q].dryRun = "no"
        /\ store'.value = req[q].new /\ req[q].old = store.value
        /\ req[q].stage = "allowed"
    BY DEF Commit, Moved, AuditInv, TypeOK, RequestState, ReadIsSound
  <1>2. Audited(q)
    BY <1>1 DEF Audited, verbFor, NoVerb, Operations
  <1>3. PICK i \in DOMAIN events : events[i] = buildEnvelope(q, req[q])
    BY <1>1, <1>2 DEF AuditInv, EventIsOut, Published
  <1>4. Describes(events[i], store.value, store'.value)
    BY <1>1, <1>3 DEF Describes, buildEnvelope, Envelope
  <1> QED  BY <1>4

(* Whatever the number of writers, contents and faults, no change of the   *)
(* stored object escapes without an event published before it that says    *)
(* what changed (webhook/doc.go, handler.go Handle).                       *)
THEOREM NoUnauditedChange == Spec => WriteThenAct
  <1>1. AuditInv /\ [Next]_vars =>
          [store' # store =>
             \E i \in DOMAIN events : Describes(events[i], store.value, store'.value)]_vars
    <2> SUFFICES ASSUME AuditInv, Next, store' # store
                 PROVE  \E i \in DOMAIN events :
                           Describes(events[i], store.value, store'.value)
      BY DEF vars
    <2>1. PICK q \in Requests : Commit(q)
      BY DEF Next, Handle, Receive, CallWebhook, Inapplicable, HandleUnaudited,
             HandleUndecodable, HandleEmit, HandleEmitFailed, HandleAllowed,
             WebhookTimeout, LateEmit, Conflict
    <2> QED  BY <2>1, CommitIsDescribed
  <1> QED  BY <1>1, AuditInvInit, AuditInvNext, PTL DEF Spec, WriteThenAct

(* The handler refuses a request only when building or publishing the      *)
(* event failed: verbFor, buildEnvelope and the payload registry agree.    *)
THEOREM NoNeedlessRefusal == Spec => []RefusesOnlyOnFailure
  <1>1. Init => RefusesOnlyOnFailure
    BY DEF Init, RefusesOnlyOnFailure
  <1>2. TypeOK /\ RefusesOnlyOnFailure /\ [Next]_vars => RefusesOnlyOnFailure'
    <2> SUFFICES ASSUME TypeOK, RefusesOnlyOnFailure, [Next]_vars
                 PROVE  RefusesOnlyOnFailure'
      OBVIOUS
    <2>1. faults \in Nat
      BY AuditAssumption DEF TypeOK
    <2>2. ASSUME NEW q \in Requests, HandleEmitFailed(q) PROVE faults' = faults + 1
      <3>1. EmitValid(q)
        BY <2>2, PairingHolds DEF HandleEmitFailed, Audited, EmitValid, TypeOK, RequestState
      <3> QED  BY <2>2, <3>1 DEF HandleEmitFailed
    <2>3. \/ refusals' = refusals /\ (faults' = faults \/ faults' = faults + 1)
          \/ faults' = faults + 1
      BY <2>2 DEF Next, vars, Handle, Receive, CallWebhook, Inapplicable, HandleUnaudited,
             HandleUndecodable, HandleEmit, HandleAllowed, WebhookTimeout, LateEmit,
             Commit, Conflict
    <2> QED  BY <2>1, <2>3 DEF RefusesOnlyOnFailure
  <1> QED  BY <1>1, <1>2, TypeInit, TypeNext, PTL DEF Spec
-----------------------------------------------------------------------------
(* A request that may still be stored has its event behind all the events  *)
(* that explain the store.                                                 *)
EventIsLast(I, q) ==
    req[q].stage \in {"emitted", "allowed"} /\ Audited(q) /\ req[q].rv = store.rv =>
        \E p \in DOMAIN events :
            (\A i \in I : i < p) /\ events[p] = buildEnvelope(q, req[q])

Trail(I) == Explains(I) /\ \A q \in Requests : EventIsLast(I, q)

(* TrailReachesStore says nothing about writes under way; when one is      *)
(* stored, its event must continue the ones that explain the store.        *)
TrailInv == \E I \in SUBSET DOMAIN events : Trail(I)

(* What events lead to depends on nothing but these events.                *)
LEMMA ReadingKept ==
    ASSUME NEW s, NEW t, NEW I \in SUBSET Nat, NEW n, NEW c,
           \A i \in I : t[i] = s[i], LeadsTo(s, I, n, c)
    PROVE  LeadsTo(t, I, n, c)
  BY DEF LeadsTo

(* Behind the last of the events, the position does not matter.            *)
LEMMA ReadingAtEnd ==
    ASSUME NEW s, NEW I \in SUBSET Nat, NEW m, NEW n, NEW c,
           \A i \in I : i < m /\ i < n, LeadsTo(s, I, m, c)
    PROVE  LeadsTo(s, I, n, c)
  BY DEF LeadsTo

(* An event behind the others leaves their reading as it was and decides   *)
(* what is read behind it.                                                 *)
LEMMA ReadingExtended ==
    ASSUME NEW s, NEW I \in SUBSET Nat, NEW p \in Nat, \A i \in I : i < p,
           NEW n \in Nat
    PROVE  /\ \A c : n <= p /\ LeadsTo(s, I, n, c) => LeadsTo(s, I \cup {p}, n, c)
           /\ p < n => LeadsTo(s, I \cup {p}, n, s[p].after)
  <1>1. \A i \in I : i \in Nat /\ i < p
    OBVIOUS
  <1>2. ASSUME NEW c, n <= p, LeadsTo(s, I, n, c)
        PROVE  LeadsTo(s, I \cup {p}, n, c)
    <2>1. \A i \in I \cup {p} : i < n => i \in I
      BY <1>2
    <2> QED  BY <1>2, <2>1 DEF LeadsTo
  <1>3. ASSUME p < n PROVE LeadsTo(s, I \cup {p}, n, s[p].after)
    <2>1. \A i \in I \cup {p} : i <= p
      BY <1>1
    <2> QED  BY <1>3, <2>1 DEF LeadsTo
  <1> QED  BY <1>2, <1>3

(* Steps that publish at most one event and store nothing keep a trail for *)
(* the store, and each request's event in its place.                       *)
LEMMA TrailKept ==
    ASSUME TypeOK, NEW I \in SUBSET DOMAIN events, Explains(I), store' = store,
           events' = events \/ \E e \in Event : events' = Append(events, e)
    PROVE  /\ I \in SUBSET DOMAIN events' /\ Explains(I)'
           /\ \A i \in DOMAIN events : i \in DOMAIN events' /\ events'[i] = events[i]
  <1>1. events \in Seq(Event) /\ events' \in Seq(Event)
    BY DEF TypeOK
  <1>2. /\ Len(events) \in Nat /\ Len(events') \in Nat /\ Len(events) <= Len(events')
        /\ DOMAIN events = 1..Len(events) /\ DOMAIN events' = 1..Len(events')
    BY <1>1
  <1>3. \A i \in DOMAIN events : i \in DOMAIN events' /\ events'[i] = events[i]
    BY <1>1
  <1>4. I \in SUBSET Nat /\ \A i \in I : i \in Nat /\ events'[i] = events[i]
    <2>1. \A i \in I : i \in DOMAIN events
      OBVIOUS
    <2>2. \A i \in I : i \in Nat
      <3>1. \A i \in DOMAIN events : i \in Nat
        BY <1>1
      <3> QED  BY <2>1, <3>1, Zenon
    <2>3. \A i \in I : events'[i] = events[i]
      BY <1>3, <2>1
    <2> QED  BY <2>2, <2>3
  <1>5. PICK s : s = events
    OBVIOUS
  <1>6. PICK t : t = events'
    OBVIOUS
  <1>7. PICK c : c = redactedSnapshot(store.value)
    OBVIOUS
  <1>8. \A i \in I : t[i] = s[i]
    BY <1>4, <1>5, <1>6
  <1>9. ASSUME NEW i \in I
        PROVE  t[i].dryRun = "no" /\ LeadsTo(t, I, i, t[i].before)
    <2>1. s[i].dryRun = "no" /\ LeadsTo(s, I, i, s[i].before)
      BY <1>5 DEF Explains
    <2> QED  BY <2>1, <1>4, <1>8, ReadingKept
  <1>10. LeadsTo(t, I, Len(t) + 1, c)
    <2>1. LeadsTo(s, I, Len(s) + 1, c)
      BY <1>5, <1>7 DEF Explains
    <2>2. LeadsTo(t, I, Len(s) + 1, c)
      BY <2>1, <1>4, <1>8, ReadingKept
    <2>3. ASSUME NEW i \in I PROVE i < Len(s) + 1 /\ i < Len(t) + 1
      <3>1. i \in DOMAIN events /\ i \in DOMAIN events'
        BY <1>3
      <3>2. PICK m, n : m = Len(s) /\ n = Len(t)
        OBVIOUS
      <3>3. m \in Nat /\ n \in Nat /\ i \in 1..m /\ i \in 1..n
        BY <1>2, <1>5, <1>6, <3>1, <3>2, Zenon
      <3>4. i < m + 1 /\ i < n + 1
        BY <3>3
      <3> QED  BY <3>2, <3>4
    <2> QED  BY <2>2, <2>3, <1>4, ReadingAtEnd
  <1>11. Explains(I)'
    BY <1>6, <1>7, <1>9, <1>10 DEF Explains
  <1> QED  BY <1>2, <1>3, <1>11

(* A request that a step leaves alone keeps its event where it was.        *)
LEMMA OtherIsLast ==
    ASSUME NEW I \in SUBSET DOMAIN events, NEW p \in Requests, EventIsLast(I, p),
           store' = store,
           req'[p].rv = req[p].rv, Audited(p)' <=> Audited(p),
           buildEnvelope(p, req'[p]) = buildEnvelope(p, req[p]),
           req'[p].stage \in {"emitted", "allowed"} => req[p].stage \in {"emitted", "allowed"},
           \A i \in DOMAIN events : i \in DOMAIN events' /\ events'[i] = events[i]
    PROVE  EventIsLast(I, p)'
  BY DEF EventIsLast

(* Moving a request changes nothing of it but its stage, and nothing of    *)
(* the others.                                                             *)
LEMMA MovedIs ==
    ASSUME TypeOK, NEW q \in Requests, NEW from, NEW to, Moved(q, from, to),
           NEW p \in Requests
    PROVE  /\ req'[p].rv = req[p].rv /\ (Audited(p)' <=> Audited(p))
           /\ buildEnvelope(p, req'[p]) = buildEnvelope(p, req[p])
           /\ req'[p].stage = IF p = q THEN to ELSE req[p].stage
  <1>1. CASE p = q
    <2>1. /\ req'[q].stage = to /\ req'[q].op = req[q].op /\ req'[q].dryRun = req[q].dryRun
          /\ req'[q].new = req[q].new /\ req'[q].old = req[q].old /\ req'[q].rv = req[q].rv
      BY DEF Moved, TypeOK, RequestState
    <2> QED  BY <1>1, <2>1 DEF buildEnvelope, Envelope, Audited
  <1>2. CASE p # q
    <2>1. req'[p] = req[p]
      BY <1>2 DEF Moved, TypeOK
    <2> QED  BY <1>2, <2>1 DEF Audited
  <1> QED  BY <1>1, <1>2

(* The trail is kept by a step that moves one request without publishing   *)
(* or storing anything, if it does not enter the stages after the emit.    *)
LEMMA TrailMoved ==
    ASSUME TypeOK, NEW I \in SUBSET DOMAIN events, Trail(I),
           NEW q \in Requests, NEW from, NEW to, Moved(q, from, to),
           store' = store, events' = events,
           to \in {"emitted", "allowed"} /\ Audited(q) => from \in {"emitted", "allowed"}
    PROVE  I \in SUBSET DOMAIN events' /\ Trail(I)'
  <1>1. I \in SUBSET DOMAIN events' /\ Explains(I)'
    BY TrailKept DEF Trail
  <1>2. ASSUME NEW p \in Requests PROVE EventIsLast(I, p)'
    <2>1. /\ req'[p].rv = req[p].rv /\ (Audited(p)' <=> Audited(p))
          /\ buildEnvelope(p, req'[p]) = buildEnvelope(p, req[p])
          /\ req'[p].stage = IF p = q THEN to ELSE req[p].stage
      BY MovedIs
    <2>2. EventIsLast(I, p)
      BY DEF Trail
    <2>3. CASE p = q
      <3>1. req[q].stage = from
        BY DEF Moved
      <3> QED  BY <2>1, <2>2, <2>3, <3>1 DEF EventIsLast
    <2>4. CASE p # q
      BY <2>1, <2>2, <2>4, OtherIsLast
    <2> QED  BY <2>3, <2>4
  <1> QED  BY <1>1, <1>2 DEF Trail
(* The trail is kept when an event about no request that may be stored is  *)
(* published, and when a request's own event is: it is behind all others.  *)
LEMMA TrailPublished ==
    ASSUME TypeOK, NEW I \in SUBSET DOMAIN events, Trail(I),
           NEW e \in Event, events' = Append(events, e), store' = store
    PROVE  /\ I \in SUBSET DOMAIN events' /\ Explains(I)'
           /\ Len(events') \in DOMAIN events' /\ events'[Len(events')] = e
           /\ \A i \in I : i < Len(events')
           /\ \A i \in DOMAIN events : i \in DOMAIN events' /\ events'[i] = events[i]
  <1>1. events \in Seq(Event) /\ Explains(I)
    BY DEF TypeOK, Trail
  <1>2. /\ I \in SUBSET DOMAIN events' /\ Explains(I)'
        /\ \A i \in DOMAIN events : i \in DOMAIN events' /\ events'[i] = events[i]
    BY <1>1, TrailKept
  <1>3. /\ DOMAIN events = 1..Len(events) /\ Len(events) \in Nat
        /\ DOMAIN events' = 1..Len(events') /\ Len(events') = Len(events) + 1
        /\ events'[Len(events')] = e
    BY <1>1
  <1>4. ASSUME NEW i \in I PROVE i < Len(events')
    <2>1. i \in DOMAIN events
      OBVIOUS
    <2> QED  BY <1>3, <2>1
  <1>5. Len(events') \in DOMAIN events'
    BY <1>3
  <1> QED  BY <1>2, <1>3, <1>4, <1>5

(* A commit stores what the request's event says: added behind the events  *)
(* that explained the store, it explains the new one.                      *)
LEMMA TrailCommitted ==
    ASSUME AuditInv, NEW I \in SUBSET DOMAIN events, Trail(I),
           NEW q \in Requests, Commit(q), store' # store
    PROVE  TrailInv'
  <1>0. TypeOK /\ events \in Seq(Event) /\ events' = events
    BY DEF AuditInv, TypeOK, Commit
  <1>1. /\ req[q].op \in Operations \ {"CONNECT"} /\ req[q].dryRun = "no"
        /\ store'.value = req[q].new /\ req[q].old = store.value
        /\ req[q].stage = "allowed" /\ req[q].rv = store.rv /\ store'.rv = store.rv + 1
    BY DEF Commit, Moved, AuditInv, TypeOK, RequestState, ReadIsSound
  <1>2. Audited(q)
    BY <1>1 DEF Audited, verbFor, NoVerb, Operations
  <1>3. PICK p \in DOMAIN events :
          (\A i \in I : i < p) /\ events[p] = buildEnvelope(q, req[q])
    BY <1>1, <1>2 DEF Trail, EventIsLast
  <1>4. /\ events[p].dryRun = "no"
        /\ events[p].before = redactedSnapshot(store.value)
        /\ events[p].after = redactedSnapshot(store'.value)
    BY <1>1, <1>3 DEF buildEnvelope, Envelope
  <1>5. /\ Len(events) \in Nat /\ DOMAIN events = 1..Len(events)
        /\ p \in Nat /\ p < Len(events) + 1
    BY <1>0
  <1>6. \A i \in I : i \in Nat /\ i < Len(events) + 1
    <2>1. \A i \in I : i \in DOMAIN events
      OBVIOUS
    <2> QED  BY <1>5, <2>1
  <1> DEFINE J == I \cup {p}
  <1>7. Explains(J)'
    <2>1. PICK s : s = events
      OBVIOUS
    <2>2. PICK c : c = redactedSnapshot(store.value)
      OBVIOUS
    <2>3. PICK n : n = Len(events) + 1
      OBVIOUS
    <2>4. n \in Nat /\ p < n /\ I \in SUBSET Nat /\ (\A i \in I : i \in Nat /\ i < n /\ i < p)
      BY <1>3, <1>5, <1>6, <2>3
    <2>5. LeadsTo(s, I, n, c) /\ \A i \in I : s[i].dryRun = "no" /\ LeadsTo(s, I, i, s[i].before)
      BY <2>1, <2>2, <2>3 DEF Trail, Explains
    <2>6. LeadsTo(s, I, p, c)
      BY <1>5, <2>4, <2>5, ReadingAtEnd
    <2>7. LeadsTo(s, J, p, s[p].before) /\ s[p].dryRun = "no"
      <3>1. s[p].before = c /\ s[p].dryRun = "no"
        BY <1>4, <2>1, <2>2
      <3>2. LeadsTo(s, J, p, c)
        <4>1. p \in Nat /\ p <= p
          BY <1>5
        <4> QED  BY <2>4, <2>6, <4>1, ReadingExtended
      <3> QED  BY <3>1, <3>2
    <2>8. ASSUME NEW i \in I PROVE LeadsTo(s, J, i, s[i].before)
      <3>1. i \in Nat /\ i <= p /\ LeadsTo(s, I, i, s[i].before)
        BY <1>5, <2>4, <2>5
      <3> QED  BY <1>5, <2>4, <3>1, ReadingExtended
    <2>9. LeadsTo(s, J, n, s[p].after)
      BY <1>5, <2>4, ReadingExtended
    <2>10. \A i \in J : s[i].dryRun = "no" /\ LeadsTo(s, J, i, s[i].before)
      BY <2>5, <2>7, <2>8
    <2> HIDE DEF J
    <2>11. events' = s /\ Len(events') + 1 = n /\ redactedSnapshot(store'.value) = s[p].after
      BY <1>0, <1>4, <2>1, <2>3
    <2> QED  BY <2>9, <2>10, <2>11 DEF Explains
  <1>8. ASSUME NEW r \in Requests PROVE EventIsLast(J, r)'
    <2>1. Moved(q, "allowed", "done")
      BY DEF Commit
    <2>2. /\ req'[r].rv = req[r].rv
          /\ req'[r].stage = IF r = q THEN "done" ELSE req[r].stage
      BY <1>0, <2>1, MovedIs
    <2>3. req'[r].stage \in {"emitted", "allowed"} => req'[r].rv <= store.rv
      BY <2>2 DEF AuditInv, ReadIsSound
    <2>4. req[r].rv \in Nat /\ store.rv \in Nat
      BY <1>0 DEF TypeOK, RequestState
    <2>5. ~(req'[r].stage \in {"emitted", "allowed"} /\ req'[r].rv = store'.rv)
      BY <1>1, <2>2, <2>3, <2>4
    <2> QED  BY <2>5 DEF EventIsLast
  <1>9. J \in SUBSET DOMAIN events'
    BY <1>0, <1>3
  <1> HIDE DEF J
  <1> QED  BY <1>7, <1>8, <1>9 DEF TrailInv, Trail

(* Nothing is stored before the first request.                             *)
LEMMA TrailInit == Init => TrailInv
  <1> SUFFICES ASSUME Init PROVE Trail({})
    BY DEF TrailInv
  <1>1. Explains({})
    BY DEF Init, Explains, LeadsTo, redactedSnapshot
  <1> QED  BY <1>1 DEF Init, Trail, EventIsLast

(* Every step keeps a part of the trail that explains the store.           *)
LEMMA TrailNext == AuditInv /\ TrailInv /\ [Next]_vars => TrailInv'
  <1> SUFFICES ASSUME AuditInv, TrailInv, [Next]_vars PROVE TrailInv'
    OBVIOUS
  <1>0. TypeOK
    BY DEF AuditInv
  <1>1. PICK I \in SUBSET DOMAIN events : Trail(I)
    BY DEF TrailInv
  <1>2. Explains(I) /\ \A p \in Requests : EventIsLast(I, p)
    BY <1>1 DEF Trail
  <1>3. ASSUME NEW q \in Requests, NEW from, NEW to, Moved(q, from, to),
               store' = store, events' = events,
               to \in {"emitted", "allowed"} /\ Audited(q) => from \in {"emitted", "allowed"}
        PROVE  TrailInv'
    BY <1>0, <1>1, <1>3, TrailMoved DEF TrailInv
  <1>4. ASSUME NEW q \in Requests, Receive(q) \/ CallWebhook(q) PROVE TrailInv'
    <2>1. store' = store /\ events' = events
      BY <1>4 DEF Receive, CallWebhook
    <2>2. /\ I \in SUBSET DOMAIN events' /\ Explains(I)'
          /\ \A i \in DOMAIN events : i \in DOMAIN events' /\ events'[i] = events[i]
      BY <1>0, <1>2, <2>1, TrailKept
    <2>3. req'[q].stage \in {"received", "admission"}
      BY <1>0, <1>4 DEF Receive, CallWebhook, TypeOK, RequestState
    <2>4. ASSUME NEW p \in Requests PROVE EventIsLast(I, p)'
      <3>1. CASE p = q
        BY <2>3, <3>1 DEF EventIsLast
      <3>2. CASE p # q
        <4>1. req'[p] = req[p]
          BY <1>0, <1>4, <3>2 DEF Receive, CallWebhook, TypeOK
        <4> QED  BY <1>2, <2>1, <2>2, <4>1, OtherIsLast DEF Audited
      <3> QED  BY <3>1, <3>2
    <2> QED  BY <2>2, <2>4 DEF TrailInv, Trail
  <1>5. ASSUME NEW q \in Requests, Inapplicable(q) \/ HandleUnaudited(q) \/ HandleAllowed(q)
        PROVE  TrailInv'
    <2>1. CASE Inapplicable(q)
      BY <1>3, <2>1 DEF Inapplicable
    <2>2. CASE HandleUnaudited(q)
      BY <1>3, <2>2 DEF HandleUnaudited
    <2>3. CASE HandleAllowed(q)
      BY <1>3, <2>3 DEF HandleAllowed
    <2> QED  BY <1>5, <2>1, <2>2, <2>3
  <1>6. ASSUME NEW q \in Requests, HandleUndecodable(q) \/ HandleEmitFailed(q)
        PROVE  TrailInv'
    <2>1. CASE HandleUndecodable(q)
      BY <1>3, <2>1 DEF HandleUndecodable
    <2>2. CASE HandleEmitFailed(q)
      BY <1>3, <2>2 DEF HandleEmitFailed, verdictOnEmitError
    <2> QED  BY <1>6, <2>1, <2>2
  <1>7. ASSUME NEW q \in Requests, HandleEmit(q) PROVE TrailInv'
    <2>1. buildEnvelope(q, req[q]) \in Event
      BY <1>0, <1>7, EnvelopeIsEvent DEF HandleEmit, Audited, TypeOK
    <2>2. store' = store /\ Moved(q, "admission", "emitted")
      BY <1>7 DEF HandleEmit
    <2>3. /\ I \in SUBSET DOMAIN events' /\ Explains(I)'
          /\ Len(events') \in DOMAIN events'
          /\ events'[Len(events')] = buildEnvelope(q, req[q])
          /\ \A i \in I : i < Len(events')
          /\ \A i \in DOMAIN events : i \in DOMAIN events' /\ events'[i] = events[i]
      BY <1>0, <1>1, <1>7, <2>1, <2>2, TrailPublished DEF HandleEmit
    <2>4. ASSUME NEW p \in Requests PROVE EventIsLast(I, p)'
      <3>1. /\ req'[p].rv = req[p].rv /\ (Audited(p)' <=> Audited(p))
            /\ buildEnvelope(p, req'[p]) = buildEnvelope(p, req[p])
            /\ req'[p].stage = IF p = q THEN "emitted" ELSE req[p].stage
        BY <1>0, <2>2, MovedIs
      <3>2. CASE p = q
        BY <2>3, <3>1, <3>2 DEF EventIsLast
      <3>3. CASE p # q
        BY <1>2, <2>2, <2>3, <3>1, <3>3, OtherIsLast
      <3> QED  BY <3>2, <3>3
    <2> QED  BY <2>3, <2>4 DEF TrailInv, Trail
  <1>8. ASSUME NEW q \in Requests, WebhookTimeout(q) PROVE TrailInv'
    <2>1. Moved(q, req[q].stage, "refused")
      BY <1>8 DEF WebhookTimeout, Moved
    <2> QED  BY <1>3, <1>8, <2>1 DEF WebhookTimeout
  <1>9. ASSUME NEW e \in late, LateEmit(e) PROVE TrailInv'
    <2>1. e \in Event /\ store' = store /\ req' = req /\ events' = Append(events, e)
      BY <1>0, <1>9 DEF LateEmit, TypeOK
    <2>2. /\ I \in SUBSET DOMAIN events' /\ Explains(I)'
          /\ \A i \in DOMAIN events : i \in DOMAIN events' /\ events'[i] = events[i]
      BY <1>0, <1>1, <2>1, TrailPublished
    <2>3. ASSUME NEW p \in Requests PROVE EventIsLast(I, p)'
      BY <1>2, <2>1, <2>2, OtherIsLast DEF Audited
    <2> QED  BY <2>2, <2>3 DEF TrailInv, Trail
  <1>10. ASSUME NEW q \in Requests, Commit(q) PROVE TrailInv'
    <2>1. CASE store' = store
      BY <1>3, <1>10, <2>1 DEF Commit
    <2>2. CASE store' # store
      BY <1>1, <1>10, <2>2, TrailCommitted
    <2> QED  BY <2>1, <2>2
  <1>11. ASSUME NEW q \in Requests, Conflict(q) PROVE TrailInv'
    <2>1. CASE Moved(q, "allowed", "received")
      BY <1>3, <1>11, <2>1 DEF Conflict
    <2>2. CASE Moved(q, "allowed", "refused")
      BY <1>3, <1>11, <2>2 DEF Conflict
    <2> QED  BY <1>11, <2>1, <2>2 DEF Conflict
  <1>12. CASE UNCHANGED vars
    <2>1. store' = store /\ req' = req /\ events' = events
      BY <1>12 DEF vars
    <2>2. /\ I \in SUBSET DOMAIN events' /\ Explains(I)'
          /\ \A i \in DOMAIN events : i \in DOMAIN events' /\ events'[i] = events[i]
      BY <1>0, <1>2, <2>1, TrailKept
    <2>3. ASSUME NEW p \in Requests PROVE EventIsLast(I, p)'
      BY <1>2, <2>1, <2>2, OtherIsLast DEF Audited
    <2> QED  BY <2>2, <2>3 DEF TrailInv, Trail
  <1> QED
    BY <1>4, <1>5, <1>6, <1>7, <1>8, <1>9, <1>10, <1>11, <1>12 DEF Next, Handle

(* The trail and the webhook's view of the requests belong together.       *)
THEOREM TrailInvariant == Spec => [](AuditInv /\ TrailInv)
  BY AuditInvInit, AuditInvNext, TrailInit, TrailNext, PTL DEF Spec

(* However writers race, time out, conflict and start over, the events     *)
(* published explain the stored object: some of them, read in order, lead  *)
(* from nothing to what is stored (webhook/doc.go write-then-act,          *)
(* handler.go Handle).                                                     *)
THEOREM TrailExplainsStore == Spec => []TrailReachesStore
  <1>1. AuditInv /\ TrailInv => TrailReachesStore
    BY DEF TrailInv, Trail, TrailReachesStore
  <1> QED  BY <1>1, TrailInvariant, PTL

-----------------------------------------------------------------------------
(* The segments of keys and paths.  The two that the code itself puts into *)
(* a path are strings, which the provers do not know.                      *)
Segment == STRING \cup {"*", "[]"}

(* The walk as an invariant.  A frame is an active call of walk: depth     *)
(* tells them apart, the node is still the map or the list it was, and     *)
(* what is left to visit are children of it.                               *)
FrameOK(i) ==
    LET f == stack[i] IN
    /\ f.at \in DOMAIN input /\ f.at \in DOMAIN doc
    /\ Len(f.at) = i - 1
    /\ doc[f.at] = input[f.at] /\ input[f.at] # "value"
    /\ \A p \in f.left : /\ p \in DOMAIN input
                         /\ Len(p) = i
                         /\ IsPrefix(f.at, p)

(* The path a call carries: exact down to the second level, and longer     *)
(* than every rule below that.                                             *)
SecondSegment(n) == IF input[SubSeq(n, 1, 1)] = "list" THEN indexSegment ELSE n[2]

PathOK(i) ==
    LET f == stack[i] IN
    /\ i > 1 => f.path \in Seq(Segment)
    /\ i = 1 => f.path = RootPath
    /\ i = 2 => f.path = f.at[1]
    /\ i = 3 => f.path = f.at[1] \o SecondSegment(f.at)
    /\ i > 3 => Len(f.path) >= 3

(* The keys of a Secret's data are never visited one by one.               *)
NotInSecret(i) ==
    ~ (/\ kind = "Secret" /\ i = 2 /\ input[stack[i].at] = "map"
       /\ stack[i].at[1] \in {<<"data">>, <<"stringData">>})

Pending(p) == \E i \in DOMAIN stack : p \in stack[i].left

(* A pending node does not hold an active call, and nothing below it has   *)
(* been touched.                                                           *)
Untouched(p) ==
    /\ \A i \in DOMAIN stack : ~ IsPrefix(p, stack[i].at)
    /\ \A m \in DOMAIN input : IsPrefix(p, m) => m \in DOMAIN doc /\ doc[m] = input[m]

(* The rows of the table that the matcher can match: all but the one for   *)
(* TLS material, whose two patterns are split at their escaped dot         *)
(* (redact.go:137, 146).                                                   *)
Covered(n) ==
    IF ~ IsField(n) THEN NoRule
    ELSE IF InSecret(n) THEN "secret-bytes"
    ELSE IF IsWebhookSecret(n) THEN "webhook-secret"
    ELSE IF IsToken(n) THEN "bearer-token"
    ELSE NoRule

Hidden(n) == n \in DOMAIN doc /\ doc[n] = Covered(n) /\ Below(doc, n) = {}

(* RestKept, with what the rules cover in the place of what the table      *)
(* names: the walk touches no more than that.                              *)
RestUntouched ==
    \A n \in DOMAIN input :
        \/ n \in DOMAIN doc /\ doc[n] = input[n]
        \/ \E m \in DOMAIN input : IsPrefix(m, n) /\ Covered(m) # NoRule

WalkInv ==
    /\ IsObject(input)
    /\ DOMAIN doc \subseteq DOMAIN input
    /\ stack \in Seq([at : DOMAIN input, path : Seq(Segment) \cup {RootPath},
                     left : SUBSET DOMAIN input])
    /\ \A i \in DOMAIN stack : FrameOK(i) /\ PathOK(i) /\ NotInSecret(i)
    /\ \A p \in DOMAIN input : Pending(p) => Untouched(p)
    /\ \A n \in DOMAIN input : Covered(n) # NoRule =>
          Hidden(n) \/ \E p \in DOMAIN input : Pending(p) /\ IsPrefix(p, n)
    /\ RestUntouched

-----------------------------------------------------------------------------
(* A prefix, element by element.                                           *)
LEMMA PrefixElements ==
    ASSUME NEW S, NEW s \in Seq(S), NEW t \in Seq(S)
    PROVE  IsPrefix(s, t) <=> Len(s) <= Len(t) /\ \A i \in 1..Len(s) : s[i] = t[i]
  <1>1. ASSUME NEW k \in 0..Len(t)
        PROVE  /\ SubSeq(t, 1, k) \in Seq(S)
               /\ Len(SubSeq(t, 1, k)) = k
               /\ \A i \in 1..k : SubSeq(t, 1, k)[i] = t[i]
    BY <1>1
  <1>2. SubSeq(s, 1, Len(s)) = s
    BY SubSeqFull
  <1>3. ASSUME IsPrefix(s, t)
        PROVE  Len(s) <= Len(t) /\ \A i \in 1..Len(s) : s[i] = t[i]
    BY <1>1, <1>2, <1>3 DEF IsPrefix
  <1>4. ASSUME Len(s) <= Len(t), \A i \in 1..Len(s) : s[i] = t[i]
        PROVE  s = SubSeq(t, 1, Len(s))
    <2>1. Len(s) \in 0..Len(t)  BY <1>4
    <2> QED  BY <1>1, <1>4, <2>1, SeqEqual
  <1> QED  BY <1>2, <1>3, <1>4 DEF IsPrefix

(* Two prefixes of one sequence: the shorter is a prefix of the longer.    *)
LEMMA PrefixesNested ==
    ASSUME NEW S, NEW s \in Seq(S), NEW t \in Seq(S), NEW u \in Seq(S),
           IsPrefix(s, u), IsPrefix(t, u), Len(s) <= Len(t)
    PROVE  IsPrefix(s, t)
  BY PrefixElements, Len(s) \in Nat, Len(t) \in Nat, Len(u) \in Nat

(* Being a prefix is transitive.                                           *)
LEMMA PrefixTrans ==
    ASSUME NEW S, NEW s \in Seq(S), NEW t \in Seq(S), NEW u \in Seq(S),
           IsPrefix(s, t), IsPrefix(t, u)
    PROVE  IsPrefix(s, u)
  BY PrefixElements, Len(s) \in Nat, Len(t) \in Nat, Len(u) \in Nat

(* A prefix of the same length is the sequence itself.                     *)
LEMMA PrefixWhole ==
    ASSUME NEW S, NEW s \in Seq(S), NEW t \in Seq(S),
           IsPrefix(s, t), Len(s) >= Len(t)
    PROVE  s = t
  BY PrefixElements, SeqEqual, Len(s) \in Nat, Len(t) \in Nat

(* The first i keys of a node lead to an ancestor of it.                   *)
LEMMA PrefixCut ==
    ASSUME NEW S, NEW t \in Seq(S), NEW i \in 0..Len(t)
    PROVE  /\ SubSeq(t, 1, i) \in Seq(S)
           /\ Len(SubSeq(t, 1, i)) = i
           /\ \A j \in 1..i : SubSeq(t, 1, i)[j] = t[j]
           /\ IsPrefix(SubSeq(t, 1, i), t)
  <1>1. /\ SubSeq(t, 1, i) \in Seq(S)
        /\ Len(SubSeq(t, 1, i)) = i
        /\ \A j \in 1..i : SubSeq(t, 1, i)[j] = t[j]
    OBVIOUS
  <1>2. i <= Len(t)
    OBVIOUS
  <1> DEFINE s == SubSeq(t, 1, i)
  <1> HIDE DEF s
  <1>3. s \in Seq(S) /\ Len(s) <= Len(t) /\ \A j \in 1..Len(s) : s[j] = t[j]
    BY <1>1, <1>2 DEF s
  <1>4. IsPrefix(s, t)
    BY <1>3, PrefixElements
  <1> QED  BY <1>1, <1>4 DEF s

(* A proper prefix is one of the cuts.                                     *)
LEMMA PrefixIsCut ==
    ASSUME NEW S, NEW s \in Seq(S), NEW t \in Seq(S), IsPrefix(s, t)
    PROVE  s = SubSeq(t, 1, Len(s)) /\ Len(s) \in 0..Len(t)
  <1>1. SubSeq(s, 1, Len(s)) = s
    BY SubSeqFull
  <1> QED  BY <1>1 DEF IsPrefix

-----------------------------------------------------------------------------
(* The rules, one by one (redact.go DefaultRules).                         *)
LEMMA RuleTable ==
    /\ DOMAIN DefaultRules = 1..8
    /\ DefaultRules[1] = Rule("Secret", <<"data", "*">>, "secret-bytes")
    /\ DefaultRules[2] = Rule("Secret", <<"stringData", "*">>, "secret-bytes")
    /\ DefaultRules[3] = Rule(AnyKind, <<"spec", "webhook", "secret">>, "webhook-secret")
    /\ DefaultRules[4] = Rule(AnyKind, <<"spec", "webhook", "secretRef">>, "webhook-secret")
    /\ DefaultRules[5] = Rule(AnyKind, <<"data", "tls\\", "crt">>, "tls-material")
    /\ DefaultRules[6] = Rule(AnyKind, <<"data", "tls\\", "key">>, "tls-material")
    /\ DefaultRules[7] = Rule(AnyKind, <<"*", "token">>, "bearer-token")
    /\ DefaultRules[8] = Rule(AnyKind, <<"*", "bearerToken">>, "bearer-token")
  BY DEF DefaultRules

(* A pattern of two segments.                                              *)
LEMMA MatchTwo ==
    ASSUME NEW a, NEW b, NEW path \in Seq(Segment)
    PROVE  pathMatches(<<a, b>>, path)
             <=> Len(path) = 2 /\ a \in {"*", path[1]} /\ b \in {"*", path[2]}
  <1>1. Len(<<a, b>>) = 2 /\ DOMAIN <<a, b>> = 1..2
    OBVIOUS
  <1>2. <<a, b>>[1] = a /\ <<a, b>>[2] = b
    OBVIOUS
  <1>3. \A i : i \in 1..2 <=> i = 1 \/ i = 2
    OBVIOUS
  <1> QED  BY <1>1, <1>2, <1>3 DEF pathMatches

(* A pattern of three segments.                                            *)
LEMMA MatchThree ==
    ASSUME NEW a, NEW b, NEW c, NEW path \in Seq(Segment)
    PROVE  pathMatches(<<a, b, c>>, path)
             <=> /\ Len(path) = 3 /\ a \in {"*", path[1]} /\ b \in {"*", path[2]}
                 /\ c \in {"*", path[3]}
  <1>1. Len(<<a, b, c>>) = 3 /\ DOMAIN <<a, b, c>> = 1..3
    OBVIOUS
  <1>2. <<a, b, c>>[1] = a /\ <<a, b, c>>[2] = b /\ <<a, b, c>>[3] = c
    OBVIOUS
  <1>3. \A i : i \in 1..3 <=> i = 1 \/ i = 2 \/ i = 3
    OBVIOUS
  <1> QED  BY <1>1, <1>2, <1>3 DEF pathMatches

(* The rules that apply to a path.                                         *)
Hits(k, path) == {i \in DOMAIN DefaultRules :
                     /\ DefaultRules[i].ParentKind \in {AnyKind, k}
                     /\ pathMatches(DefaultRules[i].FieldPath, path)}

(* When each rule applies.                                                 *)
LEMMA RuleHits ==
    ASSUME NEW k, NEW path \in Seq(Segment)
    PROVE  /\ Hits(k, path) \subseteq 1..8
           /\ 1 \in Hits(k, path) <=>
                 k = "Secret" /\ Len(path) = 2 /\ path[1] = "data"
           /\ 2 \in Hits(k, path) <=>
                 k = "Secret" /\ Len(path) = 2 /\ path[1] = "stringData"
           /\ 3 \in Hits(k, path) <=>
                 Len(path) = 3 /\ path[1] = "spec" /\ path[2] = "webhook" /\ path[3] = "secret"
           /\ 4 \in Hits(k, path) <=>
                 Len(path) = 3 /\ path[1] = "spec" /\ path[2] = "webhook" /\ path[3] = "secretRef"
           /\ 5 \in Hits(k, path) <=>
                 Len(path) = 3 /\ path[1] = "data" /\ path[2] = "tls\\" /\ path[3] = "crt"
           /\ 6 \in Hits(k, path) <=>
                 Len(path) = 3 /\ path[1] = "data" /\ path[2] = "tls\\" /\ path[3] = "key"
           /\ 7 \in Hits(k, path) <=>
                 Len(path) = 2 /\ path[2] = "token"
           /\ 8 \in Hits(k, path) <=>
                 Len(path) = 2 /\ path[2] = "bearerToken"
  <1>1. \A i \in 1..8 : i \in Hits(k, path)
           <=> /\ DefaultRules[i].ParentKind \in {AnyKind, k}
               /\ pathMatches(DefaultRules[i].FieldPath, path)
    BY RuleTable DEF Hits
  <1>a. AnyKind # "Secret"
    BY Zenon DEF AnyKind
  <1>2. Hits(k, path) \subseteq 1..8
    BY RuleTable DEF Hits
  <1>3. 1 \in Hits(k, path) <=>
           k = "Secret" /\ Len(path) = 2 /\ path[1] = "data"
    <2>1. /\ DefaultRules[1].ParentKind = "Secret"
          /\ DefaultRules[1].FieldPath = <<"data", "*">>
      BY RuleTable DEF Rule
    <2>2. pathMatches(<<"data", "*">>, path) <=>
             Len(path) = 2 /\ path[1] = "data"
      BY MatchTwo
    <2>3. 1 \in Hits(k, path)
            <=> "Secret" \in {AnyKind, k} /\ pathMatches(<<"data", "*">>, path)
      BY <1>1, <2>1
    <2> QED  BY <1>a, <2>2, <2>3
  <1>4. 2 \in Hits(k, path) <=>
           k = "Secret" /\ Len(path) = 2 /\ path[1] = "stringData"
    <2>1. /\ DefaultRules[2].ParentKind = "Secret"
          /\ DefaultRules[2].FieldPath = <<"stringData", "*">>
      BY RuleTable DEF Rule
    <2>2. pathMatches(<<"stringData", "*">>, path) <=>
             Len(path) = 2 /\ path[1] = "stringData"
      BY MatchTwo
    <2>3. 2 \in Hits(k, path)
            <=> "Secret" \in {AnyKind, k} /\ pathMatches(<<"stringData", "*">>, path)
      BY <1>1, <2>1
    <2> QED  BY <1>a, <2>2, <2>3
  <1>5. 3 \in Hits(k, path) <=>
           Len(path) = 3 /\ path[1] = "spec" /\ path[2] = "webhook" /\ path[3] = "secret"
    <2>1. /\ DefaultRules[3].ParentKind = AnyKind
          /\ DefaultRules[3].FieldPath = <<"spec", "webhook", "secret">>
      BY RuleTable DEF Rule
    <2>2. pathMatches(<<"spec", "webhook", "secret">>, path) <=>
             Len(path) = 3 /\ path[1] = "spec" /\ path[2] = "webhook" /\ path[3] = "secret"
      BY MatchThree
    <2>3. 3 \in Hits(k, path)
            <=> AnyKind \in {AnyKind, k} /\ pathMatches(<<"spec", "webhook", "secret">>, path)
      BY <1>1, <2>1
    <2> QED  BY <1>a, <2>2, <2>3
  <1>6. 4 \in Hits(k, path) <=>
           Len(path) = 3 /\ path[1] = "spec" /\ path[2] = "webhook" /\ path[3] = "secretRef"
    <2>1. /\ DefaultRules[4].ParentKind = AnyKind
          /\ DefaultRules[4].FieldPath = <<"spec", "webhook", "secretRef">>
      BY RuleTable DEF Rule
    <2>2. pathMatches(<<"spec", "webhook", "secretRef">>, path) <=>
             Len(path) = 3 /\ path[1] = "spec" /\ path[2] = "webhook" /\ path[3] = "secretRef"
      BY MatchThree
    <2>3. 4 \in Hits(k, path)
            <=> AnyKind \in {AnyKind, k} /\ pathMatches(<<"spec", "webhook", "secretRef">>, path)
      BY <1>1, <2>1
    <2> QED  BY <1>a, <2>2, <2>3
  <1>7. 5 \in Hits(k, path) <=>
           Len(path) = 3 /\ path[1] = "data" /\ path[2] = "tls\\" /\ path[3] = "crt"
    <2>1. /\ DefaultRules[5].ParentKind = AnyKind
          /\ DefaultRules[5].FieldPath = <<"data", "tls\\", "crt">>
      BY RuleTable DEF Rule
    <2>2. pathMatches(<<"data", "tls\\", "crt">>, path) <=>
             Len(path) = 3 /\ path[1] = "data" /\ path[2] = "tls\\" /\ path[3] = "crt"
      BY MatchThree
    <2>3. 5 \in Hits(k, path)
            <=> AnyKind \in {AnyKind, k} /\ pathMatches(<<"data", "tls\\", "crt">>, path)
      BY <1>1, <2>1
    <2> QED  BY <1>a, <2>2, <2>3
  <1>8. 6 \in Hits(k, path) <=>
           Len(path) = 3 /\ path[1] = "data" /\ path[2] = "tls\\" /\ path[3] = "key"
    <2>1. /\ DefaultRules[6].ParentKind = AnyKind
          /\ DefaultRules[6].FieldPath = <<"data", "tls\\", "key">>
      BY RuleTable DEF Rule
    <2>2. pathMatches(<<"data", "tls\\", "key">>, path) <=>
             Len(path) = 3 /\ path[1] = "data" /\ path[2] = "tls\\" /\ path[3] = "key"
      BY MatchThree
    <2>3. 6 \in Hits(k, path)
            <=> AnyKind \in {AnyKind, k} /\ pathMatches(<<"data", "tls\\", "key">>, path)
      BY <1>1, <2>1
    <2> QED  BY <1>a, <2>2, <2>3
  <1>9. 7 \in Hits(k, path) <=>
           Len(path) = 2 /\ path[2] = "token"
    <2>1. /\ DefaultRules[7].ParentKind = AnyKind
          /\ DefaultRules[7].FieldPath = <<"*", "token">>
      BY RuleTable DEF Rule
    <2>2. pathMatches(<<"*", "token">>, path) <=>
             Len(path) = 2 /\ path[2] = "token"
      BY MatchTwo
    <2>3. 7 \in Hits(k, path)
            <=> AnyKind \in {AnyKind, k} /\ pathMatches(<<"*", "token">>, path)
      <3>1. 7 \in Hits(k, path)
              <=> /\ DefaultRules[7].ParentKind \in {AnyKind, k}
                  /\ pathMatches(DefaultRules[7].FieldPath, path)
        BY <1>1, SMT
      <3> QED  BY <2>1, <3>1, Zenon
    <2> QED  BY <1>a, <2>2, <2>3
  <1>10. 8 \in Hits(k, path) <=>
           Len(path) = 2 /\ path[2] = "bearerToken"
    <2>1. /\ DefaultRules[8].ParentKind = AnyKind
          /\ DefaultRules[8].FieldPath = <<"*", "bearerToken">>
      BY RuleTable DEF Rule
    <2>2. pathMatches(<<"*", "bearerToken">>, path) <=>
             Len(path) = 2 /\ path[2] = "bearerToken"
      BY MatchTwo
    <2>3. 8 \in Hits(k, path)
            <=> AnyKind \in {AnyKind, k} /\ pathMatches(<<"*", "bearerToken">>, path)
      <3>1. 8 \in Hits(k, path)
              <=> /\ DefaultRules[8].ParentKind \in {AnyKind, k}
                  /\ pathMatches(DefaultRules[8].FieldPath, path)
        BY <1>1, SMT
      <3> QED  BY <2>1, <3>1, Zenon
    <2> QED  BY <1>a, <2>2, <2>3
  <1> QED  BY <1>2, <1>3, <1>4, <1>5, <1>6, <1>7, <1>8, <1>9, <1>10

(* The first of the rules that apply gives the class.                      *)
LEMMA FirstHit ==
    ASSUME NEW k, NEW path, NEW i \in Hits(k, path),
           \A j \in Hits(k, path) : i <= j
    PROVE  matchRule(k, path) = DefaultRules[i].Class
  <1> DEFINE H == Hits(k, path)
             c == CHOOSE h \in H : \A j \in H : h <= j
  <1>1. matchRule(k, path) = IF H = {} THEN NoRule ELSE DefaultRules[c].Class
    BY DEF matchRule, Hits
  <1>2. H \subseteq 1..8
    BY RuleTable DEF Hits
  <1>3. c \in H /\ \A j \in H : c <= j
    <2> HIDE DEF H
    <2> QED  BY DEF H
  <1>4. c = i
    <2> HIDE DEF H, c
    <2> QED  BY <1>2, <1>3 DEF H
  <1> HIDE DEF c
  <1> QED  BY <1>1, <1>4

(* No rule applies: no class.                                              *)
LEMMA NoHit ==
    ASSUME NEW k, NEW path, Hits(k, path) = {}
    PROVE  matchRule(k, path) = NoRule
  BY DEF matchRule, Hits

(* The class of the first matching rule, for each length of path.          *)
LEMMA MatchTable ==
    ASSUME NEW k, NEW path \in Seq(Segment)
    PROVE  /\ Len(path) \notin {2, 3} => matchRule(k, path) = NoRule
           /\ Len(path) = 2 => matchRule(k, path) =
                IF k = "Secret" /\ path[1] \in {"data", "stringData"} THEN "secret-bytes"
                ELSE IF path[2] \in {"token", "bearerToken"} THEN "bearer-token"
                ELSE NoRule
           /\ Len(path) = 3 /\ ~ (path[1] = "data" /\ path[2] = "tls\\") =>
                matchRule(k, path) =
                IF /\ path[1] = "spec" /\ path[2] = "webhook"
                   /\ path[3] \in {"secret", "secretRef"}
                THEN "webhook-secret" ELSE NoRule
  <1> DEFINE H == Hits(k, path)
  <1>1. \A i \in H : i \in {1, 2, 3, 4, 5, 6, 7, 8}
    <2>1. \A i \in H : i \in 1..8  BY RuleHits
    <2> HIDE DEF H
    <2> QED  BY <2>1
  <1>2. /\ DefaultRules[1].Class = "secret-bytes" /\ DefaultRules[2].Class = "secret-bytes"
        /\ DefaultRules[3].Class = "webhook-secret" /\ DefaultRules[4].Class = "webhook-secret"
        /\ DefaultRules[7].Class = "bearer-token" /\ DefaultRules[8].Class = "bearer-token"
    BY RuleTable DEF Rule
  <1>3. \A i \in H : (\A j \in H : i <= j) => matchRule(k, path) = DefaultRules[i].Class
    BY FirstHit
  <1>4. H = {} => matchRule(k, path) = NoRule
    BY NoHit
  <1>5. ASSUME Len(path) \notin {2, 3} PROVE matchRule(k, path) = NoRule
    <2>1. \A i \in {1, 2, 3, 4, 5, 6, 7, 8} : i \notin H
      BY RuleHits, <1>5
    <2> HIDE DEF H
    <2>2. H = {}
      BY <1>1, <2>1
    <2> QED  BY <1>4, <2>2
  <1>6. ASSUME Len(path) = 2
        PROVE  matchRule(k, path) =
                IF k = "Secret" /\ path[1] \in {"data", "stringData"} THEN "secret-bytes"
                ELSE IF path[2] \in {"token", "bearerToken"} THEN "bearer-token"
                ELSE NoRule
    <2>1. /\ 1 \in H <=> k = "Secret" /\ path[1] = "data"
          /\ 2 \in H <=> k = "Secret" /\ path[1] = "stringData"
          /\ 3 \notin H /\ 4 \notin H /\ 5 \notin H /\ 6 \notin H
          /\ 7 \in H <=> path[2] = "token"
          /\ 8 \in H <=> path[2] = "bearerToken"
      BY RuleHits, <1>6
    <2> HIDE DEF H
    <2>2. CASE k = "Secret" /\ path[1] = "data"
      BY <2>1, <2>2, <1>1, <1>2, <1>3
    <2>3. CASE k = "Secret" /\ path[1] = "stringData"
      BY <2>1, <2>3, <1>1, <1>2, <1>3
    <2>4. CASE ~ (k = "Secret" /\ path[1] \in {"data", "stringData"}) /\ path[2] = "token"
      BY <2>1, <2>4, <1>1, <1>2, <1>3
    <2>5. CASE ~ (k = "Secret" /\ path[1] \in {"data", "stringData"}) /\ path[2] = "bearerToken"
      BY <2>1, <2>5, <1>1, <1>2, <1>3
    <2>6. CASE /\ ~ (k = "Secret" /\ path[1] \in {"data", "stringData"})
               /\ path[2] \notin {"token", "bearerToken"}
      <3>1. H = {}
        BY <2>1, <2>6, <1>1
      <3> QED  BY <3>1, <1>4, <2>6
    <2> QED  BY <2>2, <2>3, <2>4, <2>5, <2>6
  <1>7. ASSUME Len(path) = 3, ~ (path[1] = "data" /\ path[2] = "tls\\")
        PROVE  matchRule(k, path) =
                IF /\ path[1] = "spec" /\ path[2] = "webhook"
                   /\ path[3] \in {"secret", "secretRef"}
                THEN "webhook-secret" ELSE NoRule
    <2>1. /\ 1 \notin H /\ 2 \notin H /\ 5 \notin H /\ 6 \notin H /\ 7 \notin H /\ 8 \notin H
          /\ 3 \in H <=> path[1] = "spec" /\ path[2] = "webhook" /\ path[3] = "secret"
          /\ 4 \in H <=> path[1] = "spec" /\ path[2] = "webhook" /\ path[3] = "secretRef"
      BY RuleHits, <1>7
    <2> HIDE DEF H
    <2>2. CASE path[1] = "spec" /\ path[2] = "webhook" /\ path[3] = "secret"
      BY <2>1, <2>2, <1>1, <1>2, <1>3
    <2>3. CASE path[1] = "spec" /\ path[2] = "webhook" /\ path[3] = "secretRef"
      BY <2>1, <2>3, <1>1, <1>2, <1>3
    <2>4. CASE ~ (/\ path[1] = "spec" /\ path[2] = "webhook"
                  /\ path[3] \in {"secret", "secretRef"})
      <3>1. H = {}
        BY <2>1, <2>4, <1>1
      <3> QED  BY <3>1, <1>4, <2>4
    <2> QED  BY <2>2, <2>3, <2>4
  <1> QED  BY <1>5, <1>6, <1>7

(* A Secret's data and stringData are the containers a rule covers.        *)
LEMMA ContainerTable ==
    ASSUME NEW k, NEW path \in Seq(Segment), Len(path) >= 1
    PROVE  matchRule(k, path \o <<"*">>) =
             IF k = "Secret" /\ Len(path) = 1 /\ path[1] \in {"data", "stringData"}
             THEN "secret-bytes" ELSE NoRule
  <1> DEFINE q == path \o <<"*">>
  <1>0. "*" \in Segment /\ Len(path) \in Nat /\ Len(path) >= 1
    BY DEF Segment
  <1>1. /\ q \in Seq(Segment) /\ Len(q) = Len(path) + 1
        /\ q[Len(path) + 1] = "*" /\ q[1] = path[1]
    BY <1>0
  <1> HIDE DEF q
  <1>a. (Len(q) = 2 <=> Len(path) = 1) /\ (Len(q) = 3 <=> Len(path) = 2)
    <2>1. PICK l \in Nat, m \in Nat : l = Len(path) /\ m = Len(q) /\ m = l + 1
      BY <1>0, <1>1
    <2>2. (m = 2 <=> l = 1) /\ (m = 3 <=> l = 2)
      BY <2>1
    <2> QED  BY <2>1, <2>2
  <1>2. CASE Len(q) \notin {2, 3}
    <2>1. matchRule(k, q) = NoRule  BY <1>1, <1>2, MatchTable
    <2>2. Len(path) # 1  BY <1>a, <1>2, Zenon
    <2> QED  BY <2>1, <2>2 DEF q
  <1>3. CASE Len(q) = 2
    <2>0. Len(path) = 1  BY <1>a, <1>3, Zenon
    <2>1. Len(path) = 1 /\ q[2] = "*"  BY <2>0, <1>1, 1 + 1 = 2
    <2>2. matchRule(k, q) =
            IF k = "Secret" /\ q[1] \in {"data", "stringData"} THEN "secret-bytes"
            ELSE IF q[2] \in {"token", "bearerToken"} THEN "bearer-token"
            ELSE NoRule
      BY <1>1, <1>3, MatchTable
    <2> QED  BY <1>1, <2>1, <2>2 DEF q
  <1>4. CASE Len(q) = 3
    <2>0. Len(path) = 2  BY <1>a, <1>4, Zenon
    <2>1. Len(path) # 1 /\ q[3] = "*"  BY <2>0, <1>1, 2 + 1 = 3
    <2>2. matchRule(k, q) = NoRule
      <3> DEFINE H == Hits(k, q)
      <3>1. H \subseteq 1..8 /\ \A i \in {1, 2, 3, 4, 5, 6, 7, 8} : i \notin H
        BY RuleHits, <1>1, <1>4, <2>1
      <3> HIDE DEF H
      <3>2. \A i : i \in 1..8 <=> i \in {1, 2, 3, 4, 5, 6, 7, 8}
        OBVIOUS
      <3>3. H = {}
        BY <3>1, <3>2
      <3> QED  BY <3>3, NoHit DEF H
    <2> QED  BY <2>1, <2>2 DEF q
  <1> QED  BY <1>2, <1>3, <1>4

-----------------------------------------------------------------------------
(* The path of the root has one segment.                                   *)
LEMMA RootPathIs == Len(RootPath) = 1
  <1>1. PICK s : RootPath = <<s>>
    BY Zenon DEF RootPath
  <1> QED  BY <1>1

(* A longer path is another one.                                           *)
LEMMA LongerPath == ASSUME NEW p, Len(p) >= 2 PROVE p # RootPath
  BY RootPathIs

(* The segment that stands for an index.                                   *)
LEMMA IndexIs ==
    /\ indexSegment \in Seq(Segment) /\ Len(indexSegment) = 1 /\ indexSegment[1] = "[]"
    /\ Len(indexSegment) \in Nat /\ Len(indexSegment) >= 1
  <1>1. "[]" \in Segment
    BY DEF Segment
  <1>2. indexSegment \in Seq(Segment) /\ Len(indexSegment) = 1 /\ indexSegment[1] = "[]"
    BY <1>1 DEF indexSegment
  <1>3. Len(indexSegment) \in Nat /\ Len(indexSegment) >= 1
    BY <1>2
  <1> QED  BY <1>2, <1>3

(* A key is a sequence of at least one segment.                            *)
LEMMA KeyIs == \A k \in Key : k \in Seq(Segment) /\ Len(k) \in Nat /\ Len(k) >= 1
  <1>1. STRING \subseteq Segment
    BY DEF Segment
  <1>2. \A k \in Key : k \in Seq(STRING) /\ k # << >>
    BY DEF Key
  <1>3. \A k \in Key : k \in Seq(Segment)
    BY <1>1, <1>2, SeqMonotonic
  <1> QED  BY <1>2, <1>3

(* What the invariant says of the top call and a node it has yet to visit. *)
LEMMA TopFacts ==
    ASSUME WalkInv, Len(stack) >= 1, NEW n \in Top.left
    PROVE  /\ Len(stack) \in Nat /\ Len(stack) >= 1 /\ Len(stack) \in DOMAIN stack
           /\ n \in DOMAIN input /\ n \in Seq(Key) /\ Len(n) = Len(stack)
           /\ Top.at \in DOMAIN input /\ Top.at \in DOMAIN doc /\ Top.at \in Seq(Key)
           /\ Len(Top.at) = Len(stack) - 1
           /\ IsPrefix(Top.at, n)
           /\ \A j \in 1..(Len(stack) - 1) : Top.at[j] = n[j]
           /\ doc[Top.at] = input[Top.at]
           /\ Pending(n) /\ Untouched(n)
           /\ n \in DOMAIN doc /\ doc[n] = input[n] /\ input[n] \in Shapes
  <1>1. Len(stack) \in Nat /\ Len(stack) >= 1 /\ Len(stack) \in DOMAIN stack
    BY DEF WalkInv
  <1>2. FrameOK(Len(stack))
    BY <1>1 DEF WalkInv
  <1>3. /\ n \in DOMAIN input /\ Len(n) = Len(stack) /\ IsPrefix(Top.at, n)
        /\ Top.at \in DOMAIN input /\ Top.at \in DOMAIN doc
        /\ Len(Top.at) = Len(stack) - 1 /\ doc[Top.at] = input[Top.at]
    BY <1>2 DEF FrameOK, Top
  <1>4. n \in Seq(Key) /\ Top.at \in Seq(Key) /\ input[n] \in Shapes
    BY <1>3 DEF WalkInv, IsObject
  <1>5. \A j \in 1..(Len(stack) - 1) : Top.at[j] = n[j]
    BY <1>3, <1>4, PrefixElements
  <1>6. Pending(n)
    BY <1>1 DEF Pending, Top
  <1>7. Untouched(n)
    BY <1>3, <1>6 DEF WalkInv
  <1>8. IsPrefix(n, n)
    BY <1>4, PrefixElements, Len(n) \in Nat
  <1> QED  BY <1>1, <1>3, <1>4, <1>5, <1>6, <1>7, <1>8 DEF Untouched

(* Two segment sequences joined: the lengths add up.                       *)
LEMMA JoinIs ==
    ASSUME NEW p \in Seq(Segment), NEW s \in Seq(Segment), p # RootPath
    PROVE  /\ joinPath(p, s) = p \o s
           /\ joinPath(p, s) \in Seq(Segment)
           /\ Len(joinPath(p, s)) = Len(p) + Len(s)
  <1>1. joinPath(p, s) = p \o s
    BY DEF joinPath
  <1> QED  BY <1>1, ConcatProperties

(* The second segments of a path have the right type.                      *)
LEMMA SecondSegmentIs ==
    ASSUME NEW n \in Seq(Key), Len(n) >= 2
    PROVE  SecondSegment(n) \in Seq(Segment) /\ Len(SecondSegment(n)) >= 1
  <1>1. n[2] \in Key
    OBVIOUS
  <1>2. n[2] \in Seq(Segment) /\ Len(n[2]) >= 1
    BY <1>1, KeyIs
  <1>3. CASE input[SubSeq(n, 1, 1)] = "list"
    BY <1>3, IndexIs, Zenon DEF SecondSegment
  <1>4. CASE input[SubSeq(n, 1, 1)] # "list"
    BY <1>2, <1>4, Zenon DEF SecondSegment
  <1> QED  BY <1>3, <1>4

(* The path with which walk sees a child (redact.go walk, joinPath): exact *)
(* for the fields a rule may name, longer than every rule further down.    *)
LEMMA ChildPathIs ==
    ASSUME WalkInv, Len(stack) >= 1, NEW n \in Top.left
    PROVE  /\ childPath(n) \in Seq(Segment) /\ Len(childPath(n)) >= 1
           /\ Len(n) = 1 => childPath(n) = n[1]
           /\ Len(n) = 2 => childPath(n) = n[1] \o SecondSegment(n)
           /\ Len(n) = 3 => /\ Len(childPath(n)) >= 3
                            /\ doc[Top.at] = "map" =>
                                 childPath(n) = (n[1] \o SecondSegment(n)) \o n[3]
           /\ Len(n) > 3 => Len(childPath(n)) >= 4
  <1> DEFINE at  == Top.at
             seg == IF doc[at] = "list" THEN indexSegment ELSE n[Len(n)]
             d   == Len(n)
  <1>1. /\ d \in Nat /\ d >= 1 /\ n \in Seq(Key) /\ Len(stack) = d /\ d \in DOMAIN stack
        /\ at \in DOMAIN input /\ at \in Seq(Key) /\ Len(at) = d - 1
        /\ \A j \in 1..(d - 1) : at[j] = n[j]
        /\ doc[at] = input[at] /\ n \in DOMAIN input
    BY TopFacts
  <1>2. \A j \in 1..d : n[j] \in Seq(Segment) /\ Len(n[j]) \in Nat /\ Len(n[j]) >= 1
    <2>1. \A j \in 1..d : n[j] \in Key
      BY <1>1
    <2> HIDE DEF d
    <2> QED  BY <2>1, KeyIs
  <1>3. seg \in Seq(Segment) /\ Len(seg) \in Nat /\ Len(seg) >= 1
    <2>1. n[d] \in Seq(Segment) /\ Len(n[d]) \in Nat /\ Len(n[d]) >= 1
      <3> HIDE DEF d
      <3> QED  BY <1>1, <1>2
    <2>2. CASE doc[at] = "list"
      BY <2>2, IndexIs, Zenon
    <2>3. CASE doc[at] # "list"
      BY <2>1, <2>3, Zenon
    <2> QED  BY <2>2, <2>3
  <1>4. childPath(n) = joinPath(Top.path, seg)
    BY DEF childPath
  <1>5. PathOK(d)
    BY <1>1 DEF WalkInv
  <1>6. /\ d > 1 => Top.path \in Seq(Segment)
        /\ d = 1 => Top.path = RootPath
        /\ d = 2 => Top.path = at[1]
        /\ d = 3 => Top.path = at[1] \o SecondSegment(at)
        /\ d > 3 => Len(Top.path) >= 3
    BY <1>1, <1>5 DEF PathOK, Top
  <1> HIDE DEF d, seg
  <1>7. CASE d = 1
    <2>1. at = << >>
      BY <1>1, <1>7, EmptySeq
    <2>2. doc[at] = "map"
      BY <1>1, <2>1 DEF WalkInv, IsObject
    <2>3. seg = n[1]
      BY <1>7, <2>2 DEF seg, d
    <2>4. childPath(n) = n[1]
      BY <1>4, <1>6, <1>7, <2>3 DEF joinPath
    <2> QED  BY <1>2, <1>7, <2>4 DEF d
  <1>8. CASE d = 2
    <2>1. Top.path = n[1]
      BY <1>1, <1>6, <1>8
    <2>2. n[1] # RootPath
      BY <1>1 DEF WalkInv, IsObject, d
    <2>3. at = SubSeq(n, 1, 1)
      <3>1. IsPrefix(at, n)  BY TopFacts
      <3>2. at = SubSeq(n, 1, Len(at))
        BY <1>1, <3>1, PrefixIsCut
      <3>3. Len(at) = 1  BY <1>1, <1>8
      <3> QED  BY <3>2, <3>3
    <2>4. seg = SecondSegment(n)
      BY <1>1, <1>8, <2>3 DEF seg, d, SecondSegment
    <2>5. n[1] \in Seq(Segment) /\ Len(n[1]) \in Nat /\ Len(n[1]) >= 1
      BY <1>2, <1>8
    <2>6. childPath(n) = n[1] \o seg /\ childPath(n) \in Seq(Segment)
          /\ Len(childPath(n)) = Len(n[1]) + Len(seg)
      <3>1. childPath(n) = joinPath(n[1], seg)
        BY <1>4, <2>1, Zenon
      <3>2. PICK p : p = n[1]
        OBVIOUS
      <3>3. /\ joinPath(p, seg) = p \o seg /\ joinPath(p, seg) \in Seq(Segment)
            /\ Len(joinPath(p, seg)) = Len(p) + Len(seg)
        BY <1>3, <2>2, <2>5, <3>2, JoinIs, Zenon
      <3> QED  BY <3>1, <3>2, <3>3, Zenon
    <2>7. Len(childPath(n)) >= 1
      BY <1>3, <2>5, <2>6
    <2> QED  BY <1>8, <2>4, <2>6, <2>7 DEF d
  <1>9. CASE d = 3
    <2>1. at[1] = n[1] /\ at[2] = n[2]
      BY <1>1, <1>9
    <2>2. SubSeq(at, 1, 1) = SubSeq(n, 1, 1)
      <3>1. Len(at) = 2 /\ Len(n) = 3  BY <1>1, <1>9 DEF d
      <3>a. 1 \in 0..Len(at) /\ 1 \in 0..Len(n) /\ 1 \in 1..1
        BY <3>1
      <3>2. /\ SubSeq(at, 1, 1) \in Seq(Key) /\ Len(SubSeq(at, 1, 1)) = 1
            /\ SubSeq(at, 1, 1)[1] = at[1]
        BY <1>1, <3>a, PrefixCut, Zenon
      <3>3. /\ SubSeq(n, 1, 1) \in Seq(Key) /\ Len(SubSeq(n, 1, 1)) = 1
            /\ SubSeq(n, 1, 1)[1] = n[1]
        BY <1>1, <3>a, PrefixCut, Zenon
      <3> QED  BY <2>1, <3>2, <3>3, SeqEqual
    <2>3. SecondSegment(at) = SecondSegment(n)
      BY <2>1, <2>2 DEF SecondSegment
    <2>4. n[1] \in Seq(Segment) /\ Len(n[1]) \in Nat /\ Len(n[1]) >= 1
      BY <1>2, <1>9
    <2>5. SecondSegment(n) \in Seq(Segment) /\ Len(SecondSegment(n)) >= 1
      BY <1>1, <1>9, SecondSegmentIs DEF d
    <2> DEFINE p == n[1] \o SecondSegment(n)
    <2>6. p \in Seq(Segment) /\ Len(p) = Len(n[1]) + Len(SecondSegment(n))
      BY <2>4, <2>5, ConcatProperties
    <2>7. Len(p) \in Nat /\ Len(p) >= 2
      BY <2>4, <2>5, <2>6
    <2>8. Top.path = p
      BY <1>6, <1>9, <2>1, <2>3
    <2> HIDE DEF p
    <2>9. p # RootPath
      BY <2>7, LongerPath, Zenon
    <2>10. childPath(n) = p \o seg /\ childPath(n) \in Seq(Segment)
           /\ Len(childPath(n)) = Len(p) + Len(seg)
      BY <1>3, <1>4, <2>6, <2>8, <2>9, JoinIs
    <2>11. Len(childPath(n)) >= 3
      BY <1>3, <2>7, <2>10
    <2>12. doc[at] = "map" => seg = n[3]
      BY <1>9 DEF seg, d
    <2>13. d # 1 /\ d # 2 /\ ~ (d > 3)
      BY <1>9
    <2>14. Len(childPath(n)) >= 1
      BY <1>3, <2>7, <2>10
    <2> QED  BY <1>9, <2>10, <2>11, <2>12, <2>13, <2>14, Zenon DEF d, p
  <1>10. CASE d > 3
    <2>1. Top.path \in Seq(Segment) /\ Len(Top.path) >= 3 /\ Len(Top.path) \in Nat
      BY <1>1, <1>6, <1>10
    <2>2. Top.path # RootPath
      <3> DEFINE q == Top.path
      <3>1. Len(q) >= 2
        <4>1. PICK l \in Nat : l = Len(q) /\ l >= 3
          BY <2>1
        <4> QED  BY <4>1
      <3> HIDE DEF q
      <3>2. q # RootPath
        BY <3>1, LongerPath, Zenon
      <3> QED  BY <3>2 DEF q
    <2>3. childPath(n) \in Seq(Segment) /\ Len(childPath(n)) = Len(Top.path) + Len(seg)
      BY <1>3, <1>4, <2>1, <2>2, JoinIs, Zenon
    <2>4. Len(childPath(n)) >= 4
      BY <1>3, <2>1, <2>3
    <2>5. d # 1 /\ d # 2 /\ d # 3
      BY <1>10
    <2>6. Len(childPath(n)) >= 1
      BY <1>3, <2>1, <2>3
    <2> QED  BY <2>3, <2>4, <2>5, <2>6, Zenon DEF d
  <1>11. d = 1 \/ d = 2 \/ d = 3 \/ d > 3
    BY <1>1
  <1> QED  BY <1>7, <1>8, <1>9, <1>10, <1>11, Zenon

(* A sequence of one element.                                              *)
LEMMA SingleIs ==
    ASSUME NEW S, NEW k \in Seq(S), NEW x
    PROVE  k = <<x>> <=> Len(k) = 1 /\ k[1] = x
  <1>1. ASSUME k = <<x>> PROVE Len(k) = 1 /\ k[1] = x
    BY <1>1
  <1>2. ASSUME Len(k) = 1, k[1] = x PROVE k = <<x>>
    <2>1. x \in S
      BY <1>2
    <2>2. <<x>> \in Seq(S) /\ Len(<<x>>) = 1 /\ <<x>>[1] = x
      BY <2>1
    <2>3. \A i \in 1..Len(k) : k[i] = <<x>>[i]
      BY <1>2, <2>2
    <2> QED  BY <1>2, <2>2, <2>3, SeqEqual, Zenon
  <1> QED  BY <1>1, <1>2

(* The parts of a concatenation.                                           *)
LEMMA JoinParts ==
    ASSUME NEW S, NEW p \in Seq(S), NEW s \in Seq(S)
    PROVE  /\ p \o s \in Seq(S) /\ Len(p \o s) = Len(p) + Len(s)
           /\ \A i \in 1..Len(p) : (p \o s)[i] = p[i]
           /\ \A i \in 1..Len(s) : (p \o s)[Len(p) + i] = s[i]
  <1>1. Len(p) \in Nat /\ Len(s) \in Nat
    OBVIOUS
  <1>2. p \o s \in Seq(S) /\ Len(p \o s) = Len(p) + Len(s)
    BY ConcatProperties, Zenon
  <1>3. \A i \in 1..(Len(p) + Len(s)) :
            (p \o s)[i] = IF i <= Len(p) THEN p[i] ELSE s[i - Len(p)]
    BY ConcatProperties
  <1>4. \A i \in 1..Len(p) : (p \o s)[i] = p[i]
    BY <1>1, <1>3
  <1>5. ASSUME NEW i \in 1..Len(s) PROVE (p \o s)[Len(p) + i] = s[i]
    <2> DEFINE l == Len(p)
    <2>1. l \in Nat /\ l + i \in 1..(l + Len(s)) /\ ~ (l + i <= l) /\ (l + i) - l = i
      BY <1>1
    <2>2. (p \o s)[l + i] = s[(l + i) - l]
      BY <1>3, <2>1
    <2> QED  BY <2>1, <2>2, Zenon
  <1> QED  BY <1>2, <1>4, <1>5

(* What an object's nodes look like (IsObject), for one node.              *)
LEMMA NodeFacts ==
    ASSUME WalkInv, NEW n \in DOMAIN input
    PROVE  /\ n \in Seq(Key) /\ input[n] \in Shapes /\ Len(n) \in Nat
           /\ \A i \in 0..(Len(n) - 1) :
                 /\ SubSeq(n, 1, i) \in DOMAIN input
                 /\ input[SubSeq(n, 1, i)] \in {"map", "list"}
           /\ Len(n) >= 1 => Len(n[1]) = 1 /\ n[1] # RootPath
           /\ Len(n) >= 2 /\ n[1] = <<"spec">> => Len(n[2]) = 1
           /\ Len(n) >= 2 /\ n[1] = <<"data">> => n[2][1] # "tls\\"
           /\ << >> \in DOMAIN input /\ input[<< >>] = "map"
  <1>1. IsObject(input)
    BY DEF WalkInv
  <1>2. ASSUME NEW i \in 0..(Len(n) - 1)
        PROVE  /\ SubSeq(n, 1, i) \in DOMAIN input
               /\ input[SubSeq(n, 1, i)] \in {"map", "list"}
    <2>1. SubSeq(n, 1, i) \in DOMAIN input /\ input[SubSeq(n, 1, i)] # "value"
      BY <1>1 DEF IsObject
    <2>2. input[SubSeq(n, 1, i)] \in Shapes
      BY <1>1, <2>1 DEF IsObject
    <2> QED  BY <2>1, <2>2 DEF Shapes
  <1>3. n \in Seq(Key) /\ input[n] \in Shapes
    BY <1>1 DEF IsObject
  <1>4. Len(n) \in Nat
    BY <1>3
  <1>5. /\ Len(n) >= 1 => Len(n[1]) = 1 /\ n[1] # RootPath
        /\ Len(n) >= 2 /\ n[1] = <<"spec">> => Len(n[2]) = 1
        /\ Len(n) >= 2 /\ n[1] = <<"data">> => n[2][1] # "tls\\"
    BY <1>1, Zenon DEF IsObject
  <1>6. << >> \in DOMAIN input /\ input[<< >>] = "map"
    BY <1>1 DEF IsObject
  <1> QED  BY <1>2, <1>3, <1>4, <1>5, <1>6, Zenon

(* Which nodes are fields, on the levels the rules reach.                  *)
LEMMA FieldLevels ==
    ASSUME WalkInv, NEW n \in DOMAIN input
    PROVE  /\ Len(n) = 2 => (IsField(n) <=> input[SubSeq(n, 1, 1)] = "map")
           /\ Len(n) = 3 => (IsField(n) <=> /\ input[SubSeq(n, 1, 1)] = "map"
                                            /\ input[SubSeq(n, 1, 2)] = "map")
  <1>1. SubSeq(n, 1, 0) = << >>
    BY SubSeqEmpty
  <1>2. input[SubSeq(n, 1, 0)] = "map"
    BY <1>1, NodeFacts
  <1>3. ASSUME Len(n) = 2 PROVE IsField(n) <=> input[SubSeq(n, 1, 1)] = "map"
    <2>1. \A i : i \in 0..(Len(n) - 1) <=> i \in {0, 1}
      BY <1>3
    <2> QED  BY <1>2, <2>1, Zenon DEF IsField
  <1>4. ASSUME Len(n) = 3
        PROVE  IsField(n) <=> /\ input[SubSeq(n, 1, 1)] = "map"
                              /\ input[SubSeq(n, 1, 2)] = "map"
    <2>1. \A i : i \in 0..(Len(n) - 1) <=> i \in {0, 1, 2}
      BY <1>4
    <2> QED  BY <1>2, <2>1, Zenon DEF IsField
  <1> QED  BY <1>3, <1>4

(* The parent of a pending child, as a cut of the child's name.            *)
LEMMA ParentIsCut ==
    ASSUME WalkInv, Len(stack) >= 1, NEW n \in Top.left
    PROVE  Top.at = SubSeq(n, 1, Len(n) - 1)
  <1>1. /\ n \in Seq(Key) /\ Top.at \in Seq(Key) /\ IsPrefix(Top.at, n)
        /\ Len(Top.at) = Len(stack) - 1 /\ Len(n) = Len(stack)
    BY TopFacts
  <1>2. Top.at = SubSeq(n, 1, Len(Top.at))
    BY <1>1, PrefixIsCut
  <1>3. Len(Top.at) = Len(n) - 1
    BY <1>1
  <1> QED  BY <1>2, <1>3, Zenon

(* A field of two levels: the rules and the table agree, Secrets aside.    *)
LEMMA ClassTwo ==
    ASSUME WalkInv, Len(stack) >= 1, NEW n \in Top.left, doc[Top.at] = "map", Len(n) = 2
    PROVE  matchRule(kind, childPath(n)) = Covered(n)
  <1> DEFINE path == childPath(n)
             a == n[1]
             b == n[2]
  <1>1. n \in DOMAIN input /\ doc[Top.at] = input[Top.at] /\ n \in Seq(Key)
        /\ Len(stack) = 2 /\ 2 \in DOMAIN stack /\ \A j \in 1..(Len(stack) - 1) : Top.at[j] = n[j]
    BY TopFacts
  <1>a. Len(n) - 1 = 1 /\ Len(n) >= 2 /\ 1 \in 1..Len(n) /\ 2 \in 1..Len(n)
    OBVIOUS
  <1>2. Top.at = SubSeq(n, 1, 1)
    BY <1>a, ParentIsCut, Zenon
  <1>3. input[SubSeq(n, 1, 1)] = "map"
    BY <1>1, <1>2
  <1>4. IsField(n)
    BY <1>1, <1>3, FieldLevels
  <1>5. path = a \o b
    BY <1>3, ChildPathIs DEF SecondSegment
  <1>6. a \in Key /\ b \in Key
    BY <1>1, <1>a, ElementOfSeq, Zenon
  <1>7. /\ a \in Seq(Segment) /\ b \in Seq(Segment) /\ Len(a) = 1
        /\ Len(b) \in Nat /\ Len(b) >= 1
    BY <1>1, <1>6, KeyIs, NodeFacts
  <1>8. /\ a = <<"spec">> => Len(b) = 1
        /\ a = <<"data">> => b[1] # "tls\\"
    BY <1>1, <1>a, NodeFacts, Zenon
  <1>9. ~ (kind = "Secret" /\ a \in {<<"data">>, <<"stringData">>})
    <2>1. NotInSecret(2)
      BY <1>1 DEF WalkInv
    <2>2. Top = stack[2]
      BY <1>1 DEF Top
    <2>3. Top.at[1] = a
      BY <1>1
    <2> QED  BY <1>1, <2>1, <2>2, <2>3, Zenon DEF NotInSecret
  <1>10. Covered(n) = IF b \in {<<"token">>, <<"bearerToken">>}
                        THEN "bearer-token" ELSE NoRule
    <2>1. ~ InSecret(n)
      BY <1>9, Zenon DEF InSecret
    <2>2. ~ IsWebhookSecret(n)
      BY DEF IsWebhookSecret
    <2>3. IsToken(n) <=> b \in {<<"token">>, <<"bearerToken">>}
      BY Zenon DEF IsToken
    <2> HIDE DEF b
    <2> QED  BY <1>4, <2>1, <2>2, <2>3, Zenon DEF Covered
  <1>11. \A x : a = <<x>> <=> a[1] = x
    <2> HIDE DEF a
    <2> QED  BY <1>7, SingleIs
  <1>12. \A x : b = <<x>> <=> Len(b) = 1 /\ b[1] = x
    <2> HIDE DEF b
    <2> QED  BY <1>7, SingleIs
  <1> HIDE DEF a, b, path
  <1>13. /\ path \in Seq(Segment) /\ Len(path) = Len(a) + Len(b)
         /\ \A i \in 1..Len(a) : path[i] = a[i]
         /\ \A i \in 1..Len(b) : path[Len(a) + i] = b[i]
    <2>1. a \in Seq(Segment) /\ b \in Seq(Segment)
      BY <1>7, Zenon
    <2>2. /\ a \o b \in Seq(Segment) /\ Len(a \o b) = Len(a) + Len(b)
          /\ \A i \in 1..Len(a) : (a \o b)[i] = a[i]
          /\ \A i \in 1..Len(b) : (a \o b)[Len(a) + i] = b[i]
      BY <2>1, JoinParts
    <2> DEFINE q == a \o b
    <2> HIDE DEF q
    <2>3. path = q
      BY <1>5 DEF q
    <2> QED  BY <2>2, <2>3, Zenon DEF q
  <1>14. Len(path) = 1 + Len(b) /\ path[1] = a[1] /\ path[2] = b[1]
    <2>1. 1 \in 1..Len(a) /\ 1 \in 1..Len(b) /\ Len(a) + 1 = 2
      BY <1>7
    <2> QED  BY <1>7, <1>13, <2>1, Zenon
  <1>15. matchRule(kind, path) = IF b \in {<<"token">>, <<"bearerToken">>}
                                 THEN "bearer-token" ELSE NoRule
    <2>1. CASE Len(b) = 1
      <3>1. Len(path) = 2
        BY <1>14, <2>1
      <3>2. matchRule(kind, path) =
              IF kind = "Secret" /\ path[1] \in {"data", "stringData"} THEN "secret-bytes"
              ELSE IF path[2] \in {"token", "bearerToken"} THEN "bearer-token"
              ELSE NoRule
        BY <3>1, <1>13, MatchTable, Zenon
      <3>3. ~ (kind = "Secret" /\ path[1] \in {"data", "stringData"})
        BY <1>9, <1>11, <1>14, Zenon
      <3>4. path[2] \in {"token", "bearerToken"} <=> b \in {<<"token">>, <<"bearerToken">>}
        BY <1>12, <1>14, <2>1, Zenon
      <3> QED  BY <3>2, <3>3, <3>4, Zenon
    <2>2. CASE Len(b) # 1
      <3>1. b \notin {<<"token">>, <<"bearerToken">>}
        BY <1>12, <2>2, Zenon
      <3>2. CASE Len(b) = 2
        <4>1. Len(path) = 3
          BY <1>14, <3>2
        <4>2. ~ (path[1] = "data" /\ path[2] = "tls\\") /\ path[1] # "spec"
          BY <1>8, <1>11, <1>14, <2>2, Zenon
        <4>3. matchRule(kind, path) =
                IF /\ path[1] = "spec" /\ path[2] = "webhook"
                   /\ path[3] \in {"secret", "secretRef"}
                THEN "webhook-secret" ELSE NoRule
          BY <1>13, <4>1, <4>2, MatchTable, Zenon
        <4> QED  BY <3>1, <4>2, <4>3, Zenon
      <3>3. CASE Len(b) # 2
        <4>1. Len(path) \notin {2, 3}
          <5>1. PICK l \in Nat : l = Len(b) /\ l >= 1 /\ l # 1 /\ l # 2
            BY <1>7, <2>2, <3>3, Zenon
          <5>2. Len(path) = 1 + l
            BY <1>14, <5>1, Zenon
          <5>3. 1 + l \notin {2, 3}
            BY <5>1
          <5> QED  BY <5>2, <5>3, Zenon
        <4>2. matchRule(kind, path) = NoRule
          BY <1>13, <4>1, MatchTable, Zenon
        <4> QED  BY <3>1, <4>2, Zenon
      <3> QED  BY <3>2, <3>3
    <2> QED  BY <2>1, <2>2
  <1> QED  BY <1>10, <1>15 DEF path

(* Three parts put together, the first of one segment.                     *)
Joined(w, p, q, r) ==
    /\ w \in Seq(Segment)
    /\ Len(w) = 3 <=> Len(q) = 1 /\ Len(r) = 1
    /\ Len(w) # 2
    /\ w[1] = p[1] /\ w[2] = q[1]
    /\ Len(q) = 1 => w[3] = r[1]

(* A concatenation is such a path.                                         *)
LEMMA JoinThree ==
    ASSUME NEW p \in Seq(Segment), NEW q \in Seq(Segment), NEW r \in Seq(Segment),
           Len(p) = 1, Len(q) >= 1, Len(r) >= 1
    PROVE  Joined((p \o q) \o r, p, q, r)
  <1>1. PICK l \in Nat, m \in Nat : l = Len(q) /\ m = Len(r)
    OBVIOUS
  <1>2. l >= 1 /\ m >= 1
    BY <1>1, Zenon
  <1>3. PICK u : /\ u = p \o q
                 /\ u \in Seq(Segment) /\ Len(u) = Len(p) + Len(q)
                 /\ \A i \in 1..Len(p) : u[i] = p[i]
                 /\ \A i \in 1..Len(q) : u[Len(p) + i] = q[i]
    <2>1. /\ p \o q \in Seq(Segment) /\ Len(p \o q) = Len(p) + Len(q)
          /\ \A i \in 1..Len(p) : (p \o q)[i] = p[i]
          /\ \A i \in 1..Len(q) : (p \o q)[Len(p) + i] = q[i]
      BY JoinParts
    <2> WITNESS p \o q
    <2> QED  BY <2>1
  <1>4. PICK w : /\ w = u \o r
                 /\ w \in Seq(Segment) /\ Len(w) = Len(u) + Len(r)
                 /\ \A i \in 1..Len(u) : w[i] = u[i]
                 /\ \A i \in 1..Len(r) : w[Len(u) + i] = r[i]
    <2>1. u \in Seq(Segment)
      BY <1>3, Zenon
    <2>2. /\ u \o r \in Seq(Segment) /\ Len(u \o r) = Len(u) + Len(r)
          /\ \A i \in 1..Len(u) : (u \o r)[i] = u[i]
          /\ \A i \in 1..Len(r) : (u \o r)[Len(u) + i] = r[i]
      BY <2>1, JoinParts
    <2> WITNESS u \o r
    <2> QED  BY <2>2
  <1>5. Len(u) = 1 + l /\ Len(w) = (1 + l) + m
    BY <1>1, <1>3, <1>4, Zenon
  <1>6. /\ (1 + l) + m = 3 <=> l = 1 /\ m = 1
        /\ (1 + l) + m # 2
    BY <1>2
  <1>7. /\ 1 \in 1..1 /\ 1 \in 1..l /\ 1 \in 1..m /\ 1 + 1 = 2
        /\ 1 \in 1..(1 + l) /\ 2 \in 1..(1 + l)
        /\ l = 1 => (1 + l) + 1 = 3
    BY <1>2
  <1>8. u[1] = p[1] /\ u[2] = q[1]
    BY <1>1, <1>3, <1>7, Zenon
  <1>9. w[1] = p[1] /\ w[2] = q[1]
    BY <1>4, <1>5, <1>7, <1>8, Zenon
  <1>10. l = 1 => w[3] = r[1]
    BY <1>1, <1>4, <1>5, <1>7, Zenon
  <1>11. w = (p \o q) \o r
    BY <1>3, <1>4, Zenon
  <1>12. Len(w) = 3 <=> Len(q) = 1 /\ Len(r) = 1
    BY <1>1, <1>5, <1>6, Zenon
  <1>13. Len(w) # 2
    BY <1>5, <1>6, Zenon
  <1>14. Len(q) = 1 => w[3] = r[1]
    BY <1>1, <1>10, Zenon
  <1>15. w \in Seq(Segment)
    BY <1>4, Zenon
  <1>16. Joined(w, p, q, r)
    BY <1>9, <1>12, <1>13, <1>14, <1>15, Zenon DEF Joined
  <1> QED  BY <1>11, <1>16, Zenon

(* A field of three levels: the rules and the table agree.                 *)
LEMMA ClassThree ==
    ASSUME WalkInv, Len(stack) >= 1, NEW n \in Top.left, doc[Top.at] = "map", Len(n) = 3
    PROVE  matchRule(kind, childPath(n)) = Covered(n)
  <1> DEFINE path == childPath(n)
             a == n[1]
             b == n[2]
             c == n[3]
             s == SecondSegment(n)
  <1>1. n \in DOMAIN input /\ doc[Top.at] = input[Top.at] /\ n \in Seq(Key)
    BY TopFacts
  <1>a. Len(n) - 1 = 2 /\ Len(n) >= 2 /\ 1 \in 1..Len(n) /\ 2 \in 1..Len(n)
        /\ 3 \in 1..Len(n) /\ 1 \in 0..(Len(n) - 1) /\ Len(n) # 2
    OBVIOUS
  <1>2. Top.at = SubSeq(n, 1, 2)
    BY <1>a, ParentIsCut, Zenon
  <1>3. input[SubSeq(n, 1, 2)] = "map"
    BY <1>1, <1>2
  <1>4. IsField(n) <=> input[SubSeq(n, 1, 1)] = "map"
    BY <1>1, <1>3, FieldLevels
  <1>5. path = (a \o s) \o c
    BY <1>3, ChildPathIs, Zenon
  <1>6. a \in Key /\ b \in Key /\ c \in Key
    BY <1>1, <1>a, ElementOfSeq, Zenon
  <1>7. /\ a \in Seq(Segment) /\ b \in Seq(Segment) /\ c \in Seq(Segment)
        /\ Len(a) = 1 /\ Len(b) >= 1 /\ Len(c) >= 1
    <2>1. Len(n) >= 1
      OBVIOUS
    <2>2. Len(a) = 1
      BY <1>1, <2>1, NodeFacts, Zenon
    <2> QED  BY <1>6, <2>2, KeyIs, Zenon
  <1>8. a = <<"data">> => b[1] # "tls\\"
    BY <1>1, <1>a, NodeFacts, Zenon
  <1>9. s \in Seq(Segment) /\ Len(s) >= 1
    BY <1>1, <1>a, SecondSegmentIs, Zenon
  <1>10. Covered(n) = IF IsField(n) /\ IsWebhookSecret(n) THEN "webhook-secret" ELSE NoRule
    <2>1. ~ InSecret(n)
      BY <1>a, Zenon DEF InSecret
    <2>2. ~ IsToken(n)
      BY <1>a, Zenon DEF IsToken
    <2> QED  BY <2>1, <2>2, Zenon DEF Covered
  <1>b. IsWebhookSecret(n) <=> /\ a = <<"spec">> /\ b = <<"webhook">>
                               /\ c \in {<<"secret">>, <<"secretRef">>}
    BY Zenon DEF IsWebhookSecret
  <1>c. input[SubSeq(n, 1, 1)] \in {"map", "list"}
    BY <1>1, <1>a, NodeFacts, Zenon
  <1>d. s = IF input[SubSeq(n, 1, 1)] = "list" THEN indexSegment ELSE b
    BY Zenon DEF SecondSegment
  <1> HIDE DEF a, b, c, s, path
  <1>11. /\ \A x : a = <<x>> <=> a[1] = x
         /\ \A x : b = <<x>> <=> Len(b) = 1 /\ b[1] = x
         /\ \A x : c = <<x>> <=> Len(c) = 1 /\ c[1] = x
    BY <1>7, SingleIs
  <1>12. /\ path \in Seq(Segment)
         /\ Len(path) = 3 <=> Len(s) = 1 /\ Len(c) = 1
         /\ Len(path) # 2
         /\ path[1] = a[1] /\ path[2] = s[1]
         /\ Len(s) = 1 => path[3] = c[1]
    <2>0. PICK p, q, r : p = a /\ q = s /\ r = c
      OBVIOUS
    <2>a. /\ p \in Seq(Segment) /\ q \in Seq(Segment) /\ r \in Seq(Segment)
          /\ Len(p) = 1 /\ Len(q) >= 1 /\ Len(r) >= 1
      BY <1>7, <1>9, <2>0, Zenon
    <2>1. Joined((p \o q) \o r, p, q, r)
      BY <2>a, JoinThree, Zenon
    <2>2. path = (p \o q) \o r
      BY <1>5, <2>0, Zenon
    <2>3. Joined(path, a, s, c)
      BY <2>0, <2>1, <2>2, Zenon
    <2> QED  BY <2>3, Zenon DEF Joined
  <1>13. CASE input[SubSeq(n, 1, 1)] = "list"
    <2>1. s = indexSegment
      BY <1>13, <1>d, Zenon
    <2>2. path[2] = "[]" /\ "[]" # "tls\\" /\ "[]" # "webhook"
      BY <1>12, <2>1, IndexIs
    <2>3. matchRule(kind, path) = NoRule
      <3>1. CASE Len(path) = 3
        BY <1>12, <2>2, <3>1, MatchTable, Zenon
      <3>2. CASE Len(path) # 3
        BY <1>12, <3>2, MatchTable, Zenon
      <3> QED  BY <3>1, <3>2
    <2>4. ~ IsField(n)
      BY <1>4, <1>13, Zenon
    <2> QED  BY <2>3, <2>4, <1>10, Zenon DEF path
  <1>14. CASE input[SubSeq(n, 1, 1)] = "map"
    <2>1. s = b
      BY <1>14, <1>d, Zenon
    <2>2. CASE Len(path) = 3
      <3>1. Len(b) = 1 /\ Len(c) = 1 /\ path[1] = a[1] /\ path[2] = b[1] /\ path[3] = c[1]
        BY <1>12, <2>1, <2>2, Zenon
      <3>2. ~ (path[1] = "data" /\ path[2] = "tls\\")
        BY <1>8, <1>11, <3>1, Zenon
      <3>3. matchRule(kind, path) =
              IF /\ path[1] = "spec" /\ path[2] = "webhook"
                 /\ path[3] \in {"secret", "secretRef"}
              THEN "webhook-secret" ELSE NoRule
        BY <1>12, <2>2, <3>2, MatchTable, Zenon
      <3>4. IsWebhookSecret(n) <=> /\ path[1] = "spec" /\ path[2] = "webhook"
                                   /\ path[3] \in {"secret", "secretRef"}
        BY <1>b, <1>11, <3>1, Zenon
      <3> QED  BY <1>4, <1>10, <1>14, <3>3, <3>4, Zenon DEF path
    <2>3. CASE Len(path) # 3
      <3>1. matchRule(kind, path) = NoRule
        BY <1>12, <2>3, MatchTable, Zenon
      <3>2. ~ IsWebhookSecret(n)
        BY <1>b, <1>11, <1>12, <2>1, <2>3, Zenon
      <3> QED  BY <1>10, <3>1, <3>2, Zenon DEF path
    <2> QED  BY <2>2, <2>3
  <1> QED  BY <1>13, <1>14, <1>c

(* A rule matches a key of a map exactly when the table names the field,   *)
(* and with the same class; the keys of a Secret's data and stringData,    *)
(* which may have dots in them, never come to that (NotInSecret).          *)
LEMMA ClassOfChild ==
    ASSUME WalkInv, Len(stack) >= 1, NEW n \in Top.left, doc[Top.at] = "map"
    PROVE  matchRule(kind, childPath(n)) = Covered(n)
  <1>1. n \in DOMAIN input /\ Len(n) \in Nat /\ Len(n) >= 1
    BY TopFacts
  <1>2. CASE Len(n) \notin {2, 3}
    <2>1. ~ InSecret(n) /\ ~ IsWebhookSecret(n) /\ ~ IsToken(n)
      BY <1>2, Zenon DEF InSecret, IsWebhookSecret, IsToken
    <2>2. Covered(n) = NoRule
      BY <2>1, Zenon DEF Covered
    <2>3. childPath(n) \in Seq(Segment) /\ Len(childPath(n)) \notin {2, 3}
      <3>1. childPath(n) \in Seq(Segment)
        BY ChildPathIs, Zenon
      <3>2. CASE Len(n) = 1
        <4>1. childPath(n) = n[1] /\ Len(n[1]) = 1
          BY <1>1, <3>2, ChildPathIs, NodeFacts, Zenon
        <4>2. 1 # 2 /\ 1 # 3
          OBVIOUS
        <4> QED  BY <3>1, <4>1, <4>2, Zenon
      <3>3. CASE Len(n) > 3
        <4>1. Len(childPath(n)) >= 4
          BY <3>3, ChildPathIs, Zenon
        <4>2. ~ (2 >= 4) /\ ~ (3 >= 4)
          OBVIOUS
        <4> QED  BY <3>1, <4>1, <4>2, Zenon
      <3>4. PICK l \in Nat : l = Len(n)
        BY <1>1, Zenon
      <3>5. l = 1 \/ l > 3
        <4>1. l >= 1 /\ l # 2 /\ l # 3
          BY <1>1, <1>2, <3>4, Zenon
        <4> QED  BY <4>1
      <3> QED  BY <3>2, <3>3, <3>4, <3>5, Zenon
    <2>4. matchRule(kind, childPath(n)) = NoRule
      BY <2>3, MatchTable, Zenon
    <2> QED  BY <2>2, <2>4
  <1> QED  BY <1>2, ClassTwo, ClassThree

(* The containers that are blanketed: a Secret's data and stringData.      *)
LEMMA ContainerIs ==
    ASSUME WalkInv, Len(stack) >= 1, NEW n \in Top.left
    PROVE  Container(n) =
             IF kind = "Secret" /\ Len(n) = 1 /\ n[1] \in {<<"data">>, <<"stringData">>}
             THEN "secret-bytes" ELSE NoRule
  <1> DEFINE path == childPath(n)
  <1>1. n \in DOMAIN input /\ n \in Seq(Key) /\ Len(n) \in Nat /\ Len(n) >= 1
    BY TopFacts
  <1>2. path \in Seq(Segment) /\ Len(path) >= 1
    BY ChildPathIs
  <1>3. Container(n) = IF kind = "Secret" /\ Len(path) = 1 /\ path[1] \in {"data", "stringData"}
                       THEN "secret-bytes" ELSE NoRule
    BY <1>2, ContainerTable, Zenon DEF Container
  <1>4. 1 \in 1..Len(n)
    BY <1>1
  <1>5. n[1] \in Seq(Segment) /\ Len(n[1]) = 1
    BY <1>1, <1>4, ElementOfSeq, KeyIs, NodeFacts
  <1>6. CASE Len(n) = 1
    <2>1. path = n[1]
      BY <1>6, ChildPathIs, Zenon
    <2>2. \A x : n[1] = <<x>> <=> n[1][1] = x
      <3> DEFINE a == n[1]
      <3>1. a \in Seq(Segment) /\ Len(a) = 1
        BY <1>5
      <3> HIDE DEF a
      <3>2. \A x : a = <<x>> <=> a[1] = x
        BY <3>1, SingleIs
      <3> QED  BY <3>2 DEF a
    <2>3. n[1] \in {<<"data">>, <<"stringData">>} <=> n[1][1] \in {"data", "stringData"}
      BY <2>2, Zenon
    <2> QED  BY <1>3, <1>5, <1>6, <2>1, <2>3, Zenon
  <1>7. CASE Len(n) # 1
    <2>1. Len(path) # 1
      <3>0. ~ (1 >= 3) /\ ~ (1 >= 4)
        OBVIOUS
      <3>1. CASE Len(n) = 2
        <4>1. path = n[1] \o SecondSegment(n)
          BY <3>1, ChildPathIs, Zenon
        <4>2. Len(n) >= 2
          BY <3>1
        <4>3. SecondSegment(n) \in Seq(Segment) /\ Len(SecondSegment(n)) >= 1
          BY <1>1, <4>2, SecondSegmentIs, Zenon
        <4>4. PICK l : l = Len(SecondSegment(n)) /\ l >= 1
          BY <4>3, Zenon
        <4>5. l \in Nat
          BY <4>3, <4>4, LenProperties, Zenon
        <4>6. Len(path) = 1 + l
          <5>1. Len(n[1] \o SecondSegment(n)) = Len(n[1]) + Len(SecondSegment(n))
            BY <1>5, <4>3, ConcatProperties
          <5> QED  BY <1>5, <4>1, <4>4, <5>1, Zenon
        <4>7. 1 + l # 1
          BY <4>4, <4>5
        <4> QED  BY <4>6, <4>7, Zenon
      <3>2. CASE Len(n) = 3
        BY <3>0, <3>2, ChildPathIs, Zenon
      <3>3. CASE Len(n) > 3
        BY <3>0, <3>3, ChildPathIs, Zenon
      <3>4. PICK l \in Nat : l = Len(n)
        BY <1>1, Zenon
      <3>5. l = 2 \/ l = 3 \/ l > 3
        <4>1. l >= 1 /\ l # 1
          BY <1>1, <1>7, <3>4, Zenon
        <4> QED  BY <4>1
      <3> QED  BY <3>1, <3>2, <3>3, <3>4, <3>5, Zenon
    <2> QED  BY <1>3, <1>7, <2>1, Zenon
  <1> QED  BY <1>6, <1>7

-----------------------------------------------------------------------------
(* The table's classes are its own: no class is a shape or "no rule", and  *)
(* what it names are fields of the second or the third level.              *)
LEMMA CoveredIs ==
    ASSUME NEW n
    PROVE  /\ Covered(n) \in {NoRule, "secret-bytes", "webhook-secret", "bearer-token"}
           /\ Covered(n) \notin Shapes
           /\ Covered(n) # NoRule =>
                IsField(n) /\ (InSecret(n) \/ IsWebhookSecret(n) \/ IsToken(n))
  BY DEF Covered, NoRule, Shapes

(* No field of the table lies inside another.                              *)
LEMMA CoveredNotNested ==
    ASSUME WalkInv, NEW n \in DOMAIN input, NEW s \in DOMAIN input,
           Covered(n) # NoRule, Covered(s) # NoRule, IsPrefix(n, s)
    PROVE  n = s
  <1>1. n \in Seq(Key) /\ s \in Seq(Key)
    BY NodeFacts, Zenon
  <1>2. /\ Len(n) <= Len(s) /\ \A i \in 1..Len(n) : n[i] = s[i]
    BY <1>1, PrefixElements
  <1>3. /\ InSecret(n) \/ IsWebhookSecret(n) \/ IsToken(n)
        /\ InSecret(s) \/ IsWebhookSecret(s) \/ IsToken(s)
    BY CoveredIs, Zenon
  <1>4. CASE Len(n) >= Len(s)
    BY <1>1, <1>4, PrefixWhole, Zenon
  <1>5. CASE ~ (Len(n) >= Len(s))
    <2>1. IsWebhookSecret(s) /\ Len(n) = 2
      <3>1. Len(n) = 2 \/ Len(n) = 3
        BY <1>3, Zenon DEF InSecret, IsWebhookSecret, IsToken
      <3>2. Len(s) = 2 \/ (Len(s) = 3 /\ IsWebhookSecret(s))
        BY <1>3, Zenon DEF InSecret, IsWebhookSecret, IsToken
      <3>3. 2 >= 2 /\ 3 >= 2 /\ 3 >= 3
        OBVIOUS
      <3> QED  BY <1>5, <3>1, <3>2, <3>3, Zenon
    <2>2. n[1] = <<"spec">> /\ n[2] = <<"webhook">>
      BY <1>2, <2>1 DEF IsWebhookSecret
    <2>3. <<"spec">> # <<"data">> /\ <<"spec">> # <<"stringData">>
          /\ <<"webhook">> # <<"token">> /\ <<"webhook">> # <<"bearerToken">>
      OBVIOUS
    <2>4. ~ IsWebhookSecret(n)
      BY <2>1 DEF IsWebhookSecret
    <2> QED  BY <1>3, <2>2, <2>3, <2>4, Zenon DEF InSecret, IsToken
  <1> QED  BY <1>4, <1>5

(* The table looks at the kind and at the input only.                      *)
LEMMA CoveredStays ==
    ASSUME kind' = kind, input' = input, NEW n
    PROVE  Covered(n)' = Covered(n)
  BY DEF Covered, IsField, InSecret, IsWebhookSecret, IsToken

(* What a pending node and another one hold have nothing in common.        *)
LEMMA OtherPending ==
    ASSUME WalkInv, Len(stack) >= 1, NEW n \in Top.left,
           NEW p \in DOMAIN input, Pending(p), p # n
    PROVE  \A m \in DOMAIN input : IsPrefix(p, m) => ~ IsPrefix(n, m)
  <1>1. /\ n \in DOMAIN input /\ n \in Seq(Key) /\ Len(n) = Len(stack)
        /\ Top.at \in Seq(Key) /\ IsPrefix(Top.at, n) /\ Len(Top.at) = Len(stack) - 1
        /\ Len(stack) \in DOMAIN stack /\ Len(stack) \in Nat
    BY TopFacts, Zenon
  <1>2. PICK j \in DOMAIN stack : p \in stack[j].left
    BY Zenon DEF Pending
  <1>3. Len(p) = j /\ p \in Seq(Key)
    <2>1. FrameOK(j)
      BY Zenon DEF WalkInv
    <2> QED  BY <1>2, <2>1, NodeFacts, Zenon DEF FrameOK
  <1>4. j \in Nat /\ j <= Len(stack)
    BY DEF WalkInv
  <1>5. ~ IsPrefix(n, p)
    <2> SUFFICES ASSUME IsPrefix(n, p) PROVE FALSE
      OBVIOUS
    <2>1. Len(n) >= Len(p)
      BY <1>1, <1>3, <1>4
    <2> QED  BY <1>1, <1>3, <2>1, PrefixWhole, Zenon
  <1>6. ~ IsPrefix(p, n)
    <2> SUFFICES ASSUME IsPrefix(p, n) PROVE FALSE
      OBVIOUS
    <2>1. CASE j = Len(stack)
      <3>1. Len(p) >= Len(n)
        BY <1>1, <1>3, <2>1
      <3> QED  BY <1>1, <1>3, <3>1, PrefixWhole, Zenon
    <2>2. CASE j # Len(stack)
      <3>1. Len(p) <= Len(Top.at)
        BY <1>1, <1>3, <1>4, <2>2
      <3>2. IsPrefix(p, Top.at)
        BY <1>1, <1>3, <3>1, PrefixesNested
      <3>3. Untouched(p)
        BY Zenon DEF WalkInv
      <3> QED  BY <1>1, <3>2, <3>3, Zenon DEF Untouched, Top
    <2> QED  BY <2>1, <2>2
  <1>7. ASSUME NEW m \in DOMAIN input, IsPrefix(p, m), IsPrefix(n, m) PROVE FALSE
    <2>1. m \in Seq(Key)
      BY NodeFacts, Zenon
    <2>2. Len(p) <= Len(n)
      BY <1>1, <1>3, <1>4
    <2>3. IsPrefix(p, n)
      BY <1>1, <1>3, <1>7, <2>1, <2>2, PrefixesNested, Zenon
    <2> QED  BY <1>6, <2>3
  <1> QED  BY <1>7

(* Taking a child off the list of the top call changes nothing else.       *)
LEMMA VisitedFacts ==
    ASSUME WalkInv, Len(stack) >= 1, NEW n \in Top.left, NEW t,
           t = [stack EXCEPT ![Len(stack)].left = @ \ {n}]
    PROVE  /\ t \in Seq([at : DOMAIN input, path : Seq(Segment) \cup {RootPath},
                         left : SUBSET DOMAIN input])
           /\ Len(t) = Len(stack) /\ DOMAIN t = DOMAIN stack
           /\ \A i \in DOMAIN stack : /\ t[i].at = stack[i].at
                                      /\ t[i].path = stack[i].path
                                      /\ t[i].left = stack[i].left \ {n}
  <1> DEFINE F == [at : DOMAIN input, path : Seq(Segment) \cup {RootPath},
                   left : SUBSET DOMAIN input]
             k == Len(stack)
             f == [stack[k] EXCEPT !.left = @ \ {n}]
  <1>1. stack \in Seq(F) /\ k \in Nat /\ k >= 1
    BY DEF WalkInv
  <1>2. k \in 1..Len(stack) /\ DOMAIN stack = 1..Len(stack)
    BY <1>1
  <1>3. stack[k] \in F
    BY <1>1, <1>2, ElementOfSeq, Zenon
  <1>4. f \in F /\ f.at = stack[k].at /\ f.path = stack[k].path /\ f.left = stack[k].left \ {n}
    BY <1>3
  <1>5. t = [stack EXCEPT ![k] = f]
    OBVIOUS
  <1> HIDE DEF F, f, k
  <1>6. t \in Seq(F) /\ Len(t) = Len(stack)
    <2>1. PICK u, j : u = stack /\ j = k
      OBVIOUS
    <2>2. PICK g : g = f
      OBVIOUS
    <2>3. u \in Seq(F) /\ j \in 1..Len(u) /\ g \in F
      BY <1>1, <1>2, <1>4, <2>1, <2>2, Zenon
    <2>4. [u EXCEPT ![j] = g] \in Seq(F) /\ Len([u EXCEPT ![j] = g]) = Len(u)
      BY <2>3, ExceptSeq
    <2> QED  BY <1>5, <2>1, <2>2, <2>4, Zenon
  <1>7. \A i \in DOMAIN stack : t[i] = IF i = k THEN f ELSE stack[i]
    BY <1>1, <1>2, <1>5
  <1>8. ASSUME NEW i \in DOMAIN stack, i # k PROVE stack[i].left = stack[i].left \ {n}
    <2>1. FrameOK(i)
      BY Zenon DEF WalkInv
    <2>2. n \in stack[i].left => Len(n) = i
      BY <2>1, Zenon DEF FrameOK
    <2>3. Len(n) = k
      BY TopFacts, Zenon DEF k
    <2>4. n \notin stack[i].left
      BY <1>8, <2>2, <2>3, Zenon
    <2> QED  BY <2>4
  <1>9. DOMAIN t = DOMAIN stack
    BY <1>1, <1>2, <1>5
  <1>10. ASSUME NEW i \in DOMAIN stack
         PROVE  /\ t[i].at = stack[i].at /\ t[i].path = stack[i].path
                /\ t[i].left = stack[i].left \ {n}
    <2>1. CASE i = k
      BY <1>4, <1>7, <2>1, Zenon
    <2>2. CASE i # k
      BY <1>7, <1>8, <2>2, Zenon
    <2> QED  BY <2>1, <2>2
  <1> QED  BY <1>6, <1>9, <1>10, Zenon DEF F

(* A call that stays active stays well formed.                             *)
LEMMA CallKept ==
    ASSUME WalkInv, kind' = kind, input' = input, NEW i \in DOMAIN stack,
           stack'[i].at = stack[i].at, stack'[i].path = stack[i].path,
           stack'[i].left \subseteq stack[i].left,
           stack[i].at \in DOMAIN doc', doc'[stack[i].at] = doc[stack[i].at]
    PROVE  FrameOK(i)' /\ PathOK(i)' /\ NotInSecret(i)'
  <1>1. FrameOK(i) /\ PathOK(i) /\ NotInSecret(i)
    BY Zenon DEF WalkInv
  <1>2. FrameOK(i)'
    BY <1>1 DEF FrameOK
  <1>3. PathOK(i)'
    BY <1>1, Zenon DEF PathOK, SecondSegment
  <1>4. NotInSecret(i)'
    BY <1>1, Zenon DEF NotInSecret
  <1> QED  BY <1>2, <1>3, <1>4

(* Writing markers of a class over the nodes S (redact.go walk: v[k] =     *)
(* Marker{...}, and the loop over asMap).                                  *)
LEMMA ReplaceFacts ==
    ASSUME NEW S, NEW class, Replace(S, class)
    PROVE  /\ \A m : m \in DOMAIN doc' <=>
                /\ m \in DOMAIN doc
                /\ \A n \in S : ~ (m # n /\ IsPrefix(n, m))
           /\ \A m \in DOMAIN doc' : doc'[m] = IF m \in S THEN class ELSE doc[m]
  <1> DEFINE gone == UNION {Below(doc, n) : n \in S}
  <1>1. doc' = [n \in DOMAIN doc \ gone |-> IF n \in S THEN class ELSE doc[n]]
    BY DEF Replace
  <1>2. \A m \in DOMAIN doc : m \in gone <=> \E n \in S : m # n /\ IsPrefix(n, m)
    BY DEF Below
  <1> HIDE DEF gone
  <1>3. DOMAIN doc' = DOMAIN doc \ gone
    BY <1>1
  <1>4. \A m \in DOMAIN doc' : doc'[m] = IF m \in S THEN class ELSE doc[m]
    BY <1>1, <1>3
  <1>5. \A m : m \in DOMAIN doc' <=> m \in DOMAIN doc /\ m \notin gone
    BY <1>3
  <1> QED  BY <1>2, <1>4, <1>5, Zenon

(* Replacing what the table names inside the child n, when the child is    *)
(* then done with, keeps the invariant.                                    *)
LEMMA ReplaceKeeps ==
    ASSUME WalkInv, Len(stack) >= 1, NEW n \in Top.left,
           NEW S, NEW class,
           \A s \in S : s \in DOMAIN input /\ IsPrefix(n, s) /\ Covered(s) = class,
           class # NoRule,
           \A s \in DOMAIN input : Covered(s) # NoRule /\ IsPrefix(n, s) => s \in S,
           Replace(S, class), Visited(n), kind' = kind, input' = input
    PROVE  WalkInv'
  <1>1. /\ n \in DOMAIN input /\ n \in Seq(Key) /\ Len(n) = Len(stack) /\ Untouched(n)
        /\ Len(stack) \in Nat /\ Len(stack) \in DOMAIN stack
    BY TopFacts, Zenon
  <1>2. \A m \in DOMAIN input : m \in Seq(Key) /\ input[m] \in Shapes /\ IsPrefix(m, m)
    <2>1. ASSUME NEW m \in DOMAIN input PROVE m \in Seq(Key) /\ input[m] \in Shapes
      BY NodeFacts, Zenon
    <2>2. ASSUME NEW m \in Seq(Key) PROVE IsPrefix(m, m)
      BY PrefixElements, Len(m) \in Nat
    <2> QED  BY <2>1, <2>2, Zenon
  <1>3. /\ stack' \in Seq([at : DOMAIN input, path : Seq(Segment) \cup {RootPath},
                           left : SUBSET DOMAIN input])
        /\ Len(stack') = Len(stack) /\ DOMAIN stack' = DOMAIN stack
        /\ \A i \in DOMAIN stack : /\ stack'[i].at = stack[i].at
                                   /\ stack'[i].path = stack[i].path
                                   /\ stack'[i].left = stack[i].left \ {n}
    <2>1. PICK t : t = stack'
      OBVIOUS
    <2>2. t = [stack EXCEPT ![Len(stack)].left = @ \ {n}]
      BY <2>1 DEF Visited
    <2> QED  BY <2>1, <2>2, VisitedFacts, Zenon
  <1>4. \A m : m \in DOMAIN doc' <=>
                /\ m \in DOMAIN doc
                /\ \A s \in S : ~ (m # s /\ IsPrefix(s, m))
    BY ReplaceFacts, Zenon
  <1>5. \A m \in DOMAIN doc' : doc'[m] = IF m \in S THEN class ELSE doc[m]
    BY ReplaceFacts, Zenon
  <1>6. DOMAIN doc' \subseteq DOMAIN doc /\ DOMAIN doc \subseteq DOMAIN input
    BY <1>4 DEF WalkInv
  <1>7. ASSUME NEW m \in DOMAIN doc, ~ IsPrefix(n, m)
        PROVE  m \in DOMAIN doc' /\ doc'[m] = doc[m]
    <2>1. m \in DOMAIN input
      BY <1>6
    <2>2. ASSUME NEW s \in S PROVE ~ IsPrefix(s, m)
      <3>1. s \in Seq(Key) /\ IsPrefix(n, s) /\ m \in Seq(Key)
        BY <1>2, <2>1, Zenon
      <3>2. IsPrefix(s, m) => IsPrefix(n, m)
        BY <1>1, <3>1, PrefixTrans, Zenon
      <3> QED  BY <1>7, <3>2
    <2>3. m \notin S
      BY <1>7
    <2> QED  BY <1>4, <1>5, <2>2, <2>3, Zenon
  <1>8. ASSUME NEW i \in DOMAIN stack PROVE FrameOK(i)' /\ PathOK(i)' /\ NotInSecret(i)'
    <2>1. stack[i].at \in DOMAIN doc /\ stack[i].at \in Seq(Key) /\ Len(stack[i].at) = i - 1
      <3>1. FrameOK(i)
        BY Zenon DEF WalkInv
      <3> QED  BY <1>2, <3>1, Zenon DEF FrameOK
    <2>2. i \in Nat /\ i <= Len(stack)
      BY DEF WalkInv
    <2>3. ~ IsPrefix(n, stack[i].at)
      <3>1. ASSUME NEW a \in Seq(Key), Len(a) = i - 1 PROVE ~ IsPrefix(n, a)
        <4>1. ~ (Len(n) <= Len(a))
          BY <1>1, <2>2, <3>1
        <4> QED  BY <1>1, <4>1, PrefixElements, Zenon
      <3> QED  BY <2>1, <3>1, Zenon
    <2>4. stack[i].at \in DOMAIN doc' /\ doc'[stack[i].at] = doc[stack[i].at]
      BY <1>7, <2>1, <2>3, Zenon
    <2>5. stack'[i].left \subseteq stack[i].left
      BY <1>3
    <2> QED  BY <1>3, <2>4, <2>5, CallKept, Zenon
  <1>9. \A p : Pending(p)' <=> Pending(p) /\ p # n
    BY <1>3, Zenon DEF Pending
  <1>10. ASSUME NEW p \in DOMAIN input, Pending(p)' PROVE Untouched(p)'
    <2>1. Pending(p) /\ p # n
      BY <1>9, <1>10, Zenon
    <2>2. Untouched(p)
      BY <2>1, Zenon DEF WalkInv
    <2>3. \A m \in DOMAIN input : IsPrefix(p, m) => ~ IsPrefix(n, m)
      BY <2>1, OtherPending, Zenon
    <2>4. \A m \in DOMAIN input : IsPrefix(p, m) => m \in DOMAIN doc' /\ doc'[m] = input[m]
      BY <1>7, <2>2, <2>3, Zenon DEF Untouched
    <2>5. \A i \in DOMAIN stack' : ~ IsPrefix(p, stack'[i].at)
      BY <1>3, <2>2, Zenon DEF Untouched
    <2> QED  BY <2>4, <2>5, Zenon DEF Untouched
  <1>11. \A s : Covered(s)' = Covered(s)
    BY CoveredStays, Zenon
  <1>12. ASSUME NEW s \in S PROVE Hidden(s)'
    <2>1. s \in DOMAIN input /\ IsPrefix(n, s) /\ Covered(s) = class
      OBVIOUS
    <2>2. s \in DOMAIN doc
      BY <1>1, <2>1, Zenon DEF Untouched
    <2>3. ASSUME NEW u \in S PROVE ~ (s # u /\ IsPrefix(u, s))
      BY <2>1, CoveredNotNested, Zenon
    <2>4. s \in DOMAIN doc' /\ doc'[s] = Covered(s)
      BY <1>4, <1>5, <2>1, <2>2, <2>3, Zenon
    <2>5. \A m \in DOMAIN doc' : ~ (m # s /\ IsPrefix(s, m))
      BY <1>4, Zenon
    <2>6. Below(doc, s)' = {}
      BY <2>5 DEF Below
    <2> QED  BY <1>11, <2>4, <2>6, Zenon DEF Hidden
  <1>13. ASSUME NEW s \in DOMAIN input, Hidden(s), Covered(s) # NoRule PROVE Hidden(s)'
    <2>1. ~ IsPrefix(n, s)
      <3>1. IsPrefix(n, s) => doc[s] = input[s]
        BY <1>1, Zenon DEF Untouched
      <3>2. doc[s] \notin Shapes
        BY <1>13, CoveredIs, Zenon DEF Hidden
      <3> QED  BY <1>2, <3>1, <3>2, Zenon
    <2>2. s \in DOMAIN doc' /\ doc'[s] = doc[s]
      BY <1>7, <1>13, <2>1, Zenon DEF Hidden
    <2>3. \A m \in DOMAIN doc : ~ (m # s /\ IsPrefix(s, m))
      BY <1>13 DEF Hidden, Below
    <2>4. Below(doc, s)' = {}
      BY <1>6, <2>3 DEF Below
    <2> QED  BY <1>11, <1>13, <2>2, <2>4, Zenon DEF Hidden
  <1>14. ASSUME NEW s \in DOMAIN input, Covered(s) # NoRule
         PROVE  Hidden(s)' \/ \E p \in DOMAIN input : Pending(p)' /\ IsPrefix(p, s)
    <2>1. CASE Hidden(s)
      BY <1>13, <1>14, <2>1, Zenon
    <2>2. CASE ~ Hidden(s)
      <3>1. PICK p \in DOMAIN input : Pending(p) /\ IsPrefix(p, s)
        BY <1>14, <2>2, Zenon DEF WalkInv
      <3>2. CASE p = n
        BY <1>12, <1>14, <3>1, <3>2, Zenon
      <3>3. CASE p # n
        BY <1>9, <3>1, <3>3, Zenon
      <3> QED  BY <3>2, <3>3
    <2> QED  BY <2>1, <2>2
  <1>15. RestUntouched'
    <2>1. ASSUME NEW m \in DOMAIN input
          PROVE  \/ m \in DOMAIN doc' /\ doc'[m] = input[m]
                 \/ \E s \in DOMAIN input : IsPrefix(s, m) /\ Covered(s) # NoRule
      <3>1. CASE \E s \in DOMAIN input : IsPrefix(s, m) /\ Covered(s) # NoRule
        BY <3>1
      <3>2. CASE ~ \E s \in DOMAIN input : IsPrefix(s, m) /\ Covered(s) # NoRule
        <4>1. m \in DOMAIN doc /\ doc[m] = input[m]
          BY <3>2, Zenon DEF WalkInv, RestUntouched
        <4>2. ASSUME NEW s \in S PROVE ~ IsPrefix(s, m)
          BY <3>2, Zenon
        <4>3. m \notin S
          BY <1>2, <4>2, Zenon
        <4> QED  BY <1>4, <1>5, <4>1, <4>2, <4>3, Zenon
      <3> QED  BY <3>1, <3>2
    <2> QED  BY <1>11, <2>1, Zenon DEF RestUntouched
  <1>16. IsObject(input)'
    BY Zenon DEF WalkInv, IsObject
  <1>17. (DOMAIN doc \subseteq DOMAIN input)'
    BY <1>6
  <1> QED  BY <1>3, <1>8, <1>10, <1>11, <1>14, <1>15, <1>16, <1>17, Zenon DEF WalkInv

(* Replacing one matched child (redact.go walk, first branch).             *)
LEMMA RedactFieldKeeps ==
    ASSUME WalkInv, NEW n, RedactField(n) PROVE WalkInv'
  <1>1. Len(stack) >= 1 /\ n \in Top.left /\ doc[Top.at] = "map"
    BY DEF RedactField, InMap, WalkInv
  <1>2. n \in DOMAIN input /\ n \in Seq(Key)
    BY <1>1, TopFacts, Zenon
  <1>3. matchRule(kind, childPath(n)) = Covered(n)
    BY <1>1, ClassOfChild, Zenon
  <1> DEFINE class == Covered(n)
  <1>4. class # NoRule /\ Replace({n}, class) /\ Visited(n) /\ kind' = kind /\ input' = input
    BY <1>3, Zenon DEF RedactField
  <1>5. IsPrefix(n, n)
    BY <1>2, PrefixElements, Len(n) \in Nat
  <1>6. \A s \in {n} : s \in DOMAIN input /\ IsPrefix(n, s) /\ Covered(s) = class
    BY <1>2, <1>5, Zenon
  <1>7. ASSUME NEW s \in DOMAIN input, Covered(s) # NoRule /\ IsPrefix(n, s)
        PROVE  s \in {n}
    BY <1>2, <1>4, <1>7, CoveredNotNested, Zenon
  <1>8. PICK c : c = class
    OBVIOUS
  <1> HIDE DEF class
  <1>9. /\ \A s \in {n} : s \in DOMAIN input /\ IsPrefix(n, s) /\ Covered(s) = c
        /\ c # NoRule /\ Replace({n}, c)
    BY <1>4, <1>6, <1>8, Zenon
  <1> QED  BY <1>1, <1>4, <1>7, <1>9, ReplaceKeeps, Zenon

(* Blanketing a Secret's data (redact.go walk, second branch): every key   *)
(* of it, whatever dots it has.                                            *)
LEMMA RedactContainerKeeps ==
    ASSUME WalkInv, NEW n, RedactContainer(n) PROVE WalkInv'
  <1>1. Len(stack) >= 1 /\ n \in Top.left /\ doc[n] = "map" /\ Container(n) # NoRule
    BY DEF RedactContainer, InMap, Blanket, WalkInv
  <1>2. /\ n \in DOMAIN input /\ n \in Seq(Key) /\ Untouched(n) /\ doc[n] = input[n]
    BY <1>1, TopFacts, Zenon
  <1>3. /\ kind = "Secret" /\ Len(n) = 1 /\ n[1] \in {<<"data">>, <<"stringData">>}
        /\ Container(n) = "secret-bytes"
    BY <1>1, ContainerIs, Zenon
  <1>4. PICK S : S = Children(doc, n)
    OBVIOUS
  <1>5. /\ Replace(S, "secret-bytes") /\ Visited(n) /\ kind' = kind /\ input' = input
    BY <1>3, <1>4, Zenon DEF RedactContainer
  <1>6. \A s : s \in S <=> s \in DOMAIN doc /\ s # n /\ IsPrefix(n, s) /\ Len(s) = 2
    <2>1. Len(n) + 1 = 2
      BY <1>3
    <2> QED  BY <1>4, <2>1, Zenon DEF Children, Below
  <1>7. ASSUME NEW s \in S
        PROVE  s \in DOMAIN input /\ IsPrefix(n, s) /\ Covered(s) = "secret-bytes"
    <2>1. s \in DOMAIN input /\ IsPrefix(n, s) /\ Len(s) = 2
      BY <1>6, Zenon DEF WalkInv
    <2>2. s \in Seq(Key)
      BY <2>1, NodeFacts, Zenon
    <2>3. s[1] = n[1]
      <3>1. 1 \in 1..Len(n)
        BY <1>3
      <3>2. \A i \in 1..Len(n) : n[i] = s[i]
        BY <1>2, <2>1, <2>2, PrefixElements
      <3> QED  BY <3>1, <3>2, Zenon
    <2>4. n = SubSeq(s, 1, 1)
      BY <1>2, <1>3, <2>1, <2>2, PrefixIsCut, Zenon
    <2>5. IsField(s)
      BY <1>1, <1>2, <2>1, <2>4, FieldLevels, Zenon
    <2>6. InSecret(s)
      BY <1>3, <2>1, <2>3, Zenon DEF InSecret
    <2> QED  BY <2>1, <2>5, <2>6, Zenon DEF Covered
  <1>8. ASSUME NEW s \in DOMAIN input, Covered(s) # NoRule /\ IsPrefix(n, s)
        PROVE  s \in S
    <2>1. s \in Seq(Key) /\ s \in DOMAIN doc
      BY <1>2, <1>8, NodeFacts, Zenon DEF Untouched
    <2>2. s[1] = n[1]
      BY <1>2, <1>3, <1>8, <2>1, PrefixElements
    <2>3. <<"spec">> # <<"data">> /\ <<"spec">> # <<"stringData">>
      OBVIOUS
    <2>4. ~ IsWebhookSecret(s)
      BY <1>3, <2>2, <2>3, Zenon DEF IsWebhookSecret
    <2>5. Len(s) = 2
      BY <1>8, <2>4, CoveredIs, Zenon DEF InSecret, IsToken
    <2>6. s # n
      BY <1>3, <2>5, 1 # 2
    <2> QED  BY <1>6, <1>8, <2>1, <2>5, <2>6, Zenon
  <1>9. "secret-bytes" # NoRule
    BY DEF NoRule
  <1> QED  BY <1>1, <1>5, <1>7, <1>8, <1>9, ReplaceKeeps, Zenon

(* The document, the kind and the input stay: what is left to show is that *)
(* the calls cover what is sensitive.                                      *)
LEMMA QuietKeeps ==
    ASSUME WalkInv, kind' = kind, input' = input, doc' = doc,
           stack' \in Seq([at : DOMAIN input, path : Seq(Segment) \cup {RootPath},
                           left : SUBSET DOMAIN input]),
           \A i \in DOMAIN stack' : FrameOK(i)' /\ PathOK(i)' /\ NotInSecret(i)',
           \A p \in DOMAIN input : Pending(p)' => Untouched(p)',
           \A s \in DOMAIN input : Covered(s) # NoRule /\ ~ Hidden(s) =>
                \E p \in DOMAIN input : Pending(p)' /\ IsPrefix(p, s)
    PROVE  WalkInv'
  <1>1. \A s : Covered(s)' = Covered(s)
    BY CoveredStays, Zenon
  <1>2. \A s : Hidden(s)' <=> Hidden(s)
    BY <1>1, Zenon DEF Hidden, Below
  <1>3. RestUntouched'
    BY <1>1, Zenon DEF WalkInv, RestUntouched
  <1>4. IsObject(input)' /\ (DOMAIN doc \subseteq DOMAIN input)'
    BY Zenon DEF WalkInv, IsObject
  <1>5. \A s \in DOMAIN input : Covered(s)' # NoRule =>
            Hidden(s)' \/ \E p \in DOMAIN input : Pending(p)' /\ IsPrefix(p, s)
    BY <1>1, <1>2, Zenon
  <1> QED  BY <1>1, <1>3, <1>4, <1>5, Zenon DEF WalkInv

(* A call returns (redact.go walk).                                        *)
LEMMA ReturnKeeps == ASSUME WalkInv, Return PROVE WalkInv'
  <1> DEFINE F == [at : DOMAIN input, path : Seq(Segment) \cup {RootPath},
                   left : SUBSET DOMAIN input]
             k == Len(stack)
  <1>1. /\ stack # << >> /\ stack[k].left = {} /\ stack' = SubSeq(stack, 1, k - 1)
        /\ kind' = kind /\ input' = input /\ doc' = doc
    BY DEF Return, Top
  <1>2. stack \in Seq(F) /\ k \in Nat /\ k >= 1 /\ DOMAIN stack = 1..k
    BY <1>1 DEF WalkInv
  <1>3. /\ stack' \in Seq(F) /\ Len(stack') = k - 1
        /\ \A i \in 1..(k - 1) : stack'[i] = stack[i]
    <2>1. k - 1 \in 0..k
      BY <1>2
    <2>2. PICK t : t = stack
      OBVIOUS
    <2>3. /\ SubSeq(t, 1, k - 1) \in Seq(F) /\ Len(SubSeq(t, 1, k - 1)) = k - 1
          /\ \A i \in 1..(k - 1) : SubSeq(t, 1, k - 1)[i] = t[i]
      BY <1>2, <2>1, <2>2, PrefixCut
    <2> QED  BY <1>1, <2>2, <2>3, Zenon
  <1>4. DOMAIN stack' = 1..(k - 1)
    BY <1>3
  <1>5. \A i : i \in 1..(k - 1) <=> i \in 1..k /\ i # k
    BY <1>2
  <1> HIDE DEF k
  <1>6. ASSUME NEW i \in DOMAIN stack' PROVE FrameOK(i)' /\ PathOK(i)' /\ NotInSecret(i)'
    <2>1. i \in DOMAIN stack /\ stack'[i] = stack[i]
      BY <1>2, <1>3, <1>4, <1>5, Zenon
    <2>2. FrameOK(i)
      BY <2>1, Zenon DEF WalkInv
    <2>3. stack[i].at \in DOMAIN doc
      BY <2>2, Zenon DEF FrameOK
    <2>4. stack'[i].left \subseteq stack[i].left
      BY <2>1
    <2> QED  BY <1>1, <2>1, <2>3, <2>4, CallKept, Zenon
  <1>7. \A p : Pending(p)' <=> Pending(p)
    BY <1>1, <1>2, <1>3, <1>4, <1>5, Zenon DEF Pending
  <1>8. \A p \in DOMAIN input : Pending(p)' => Untouched(p)'
    <2>1. \A p \in DOMAIN input : Pending(p)' => Untouched(p)
      BY <1>7, Zenon DEF WalkInv
    <2>2. \A i \in DOMAIN stack' : i \in DOMAIN stack /\ stack'[i].at = stack[i].at
      BY <1>2, <1>3, <1>4, <1>5, Zenon
    <2> QED  BY <1>1, <2>1, <2>2, Zenon DEF Untouched
  <1>9. \A s \in DOMAIN input : Covered(s) # NoRule /\ ~ Hidden(s) =>
            \E p \in DOMAIN input : Pending(p)' /\ IsPrefix(p, s)
    BY <1>7, Zenon DEF WalkInv
  <1> QED  BY <1>1, <1>3, <1>6, <1>8, <1>9, QuietKeeps, Zenon DEF F

(* What is sensitive strictly inside a node lies under one of its children,*)
(* and the node is a map.                                                  *)
LEMMA CoveredBelow ==
    ASSUME WalkInv, NEW n \in DOMAIN input, Untouched(n), NEW s \in DOMAIN input,
           Covered(s) # NoRule, IsPrefix(n, s), s # n
    PROVE  /\ input[n] = "map"
           /\ \E q \in Children(doc, n) : IsPrefix(q, s)
  <1>1. /\ n \in Seq(Key) /\ s \in Seq(Key) /\ Len(n) \in Nat /\ Len(s) \in Nat
        /\ \A i \in 0..(Len(s) - 1) : SubSeq(s, 1, i) \in DOMAIN input
    BY NodeFacts, Zenon
  <1>2. n = SubSeq(s, 1, Len(n)) /\ Len(n) \in 0..Len(s)
    BY <1>1, PrefixIsCut, Zenon
  <1>3. ~ (Len(n) >= Len(s))
    BY <1>1, PrefixWhole, Zenon
  <1>4. PICK l \in Nat, m \in Nat : l = Len(n) /\ m = Len(s)
    BY <1>1, Zenon
  <1>5. l < m
    <2>1. ~ (l >= m)
      BY <1>3, <1>4, Zenon
    <2> QED  BY <2>1
  <1>6. l \in 0..(m - 1) /\ l + 1 \in 0..m /\ (l + 1 = m \/ l + 1 \in 0..(m - 1))
        /\ l <= l + 1 /\ l # l + 1
    BY <1>5
  <1>7. input[n] = "map"
    <2>1. IsField(s)
      BY CoveredIs, Zenon
    <2> QED  BY <1>2, <1>4, <1>6, <2>1, Zenon DEF IsField
  <1>8. PICK q : q = SubSeq(s, 1, l + 1)
    OBVIOUS
  <1>9. q \in Seq(Key) /\ Len(q) = l + 1 /\ IsPrefix(q, s)
    BY <1>1, <1>4, <1>6, <1>8, PrefixCut, Zenon
  <1>10. IsPrefix(n, q)
    BY <1>1, <1>4, <1>6, <1>9, PrefixesNested, Zenon
  <1>11. q \in DOMAIN input
    <2>1. CASE l + 1 = m
      <3>1. SubSeq(s, 1, Len(s)) = s
        BY <1>1, SubSeqFull, Zenon
      <3> QED  BY <1>4, <1>8, <2>1, <3>1, Zenon
    <2>2. CASE l + 1 \in 0..(m - 1)
      BY <1>1, <1>4, <1>8, <2>2, Zenon
    <2> QED  BY <1>6, <2>1, <2>2
  <1>12. q \in DOMAIN doc
    BY <1>10, <1>11, Zenon DEF Untouched
  <1>13. q # n
    BY <1>4, <1>6, <1>9, Zenon
  <1>14. q \in Children(doc, n)
    BY <1>4, <1>9, <1>10, <1>12, <1>13, Zenon DEF Children, Below
  <1> QED  BY <1>7, <1>9, <1>14, Zenon

(* The frame of a recursive call (redact.go walk calling walk).            *)
LEMMA NewCall ==
    ASSUME WalkInv, NEW n, Descend(n), doc[n] # "value", n \in Top.left, Len(stack) >= 1,
           NEW k, k = Len(stack) + 1, stack'[k] = Frame(doc, n, childPath(n))
    PROVE  FrameOK(k)' /\ PathOK(k)' /\ NotInSecret(k)'
  <1>1. /\ Len(stack) \in Nat /\ Len(stack) >= 1 /\ Len(n) = Len(stack) /\ n \in Seq(Key)
        /\ n \in DOMAIN input /\ n \in DOMAIN doc /\ doc[n] = input[n] /\ Untouched(n)
        /\ Top.at \in DOMAIN input /\ Top.at \in Seq(Key) /\ Len(Top.at) = Len(stack) - 1
        /\ doc[Top.at] = input[Top.at]
    BY TopFacts, Zenon
  <1>2. kind' = kind /\ input' = input /\ doc' = doc
    BY DEF Descend
  <1>3. /\ stack'[k].at = n /\ stack'[k].path = childPath(n)
        /\ stack'[k].left = Children(doc, n)
    BY DEF Frame
  <1>4. PICK l \in Nat : l = Len(stack) /\ l >= 1
    BY <1>1, Zenon
  <1>5. k = l + 1
    BY <1>4, Zenon
  <1>a. Len(n) = l
    BY <1>1, <1>4, Zenon
  <1>6. /\ k > 1 /\ k # 1 /\ k - 1 = l
        /\ k = 2 <=> l = 1
        /\ k = 3 <=> l = 2
        /\ k > 3 => l = 3 \/ l > 3
    BY <1>4, <1>5
  <1>7. FrameOK(k)'
    <2>1. ASSUME NEW p \in Children(doc, n)
          PROVE  p \in DOMAIN input /\ Len(p) = k /\ IsPrefix(n, p)
      <3>1. p \in DOMAIN doc /\ IsPrefix(n, p) /\ Len(p) = Len(n) + 1
        BY Zenon DEF Children, Below
      <3> QED  BY <1>5, <1>a, <3>1, Zenon DEF WalkInv
    <2>2. Len(n) = k - 1
      BY <1>6, <1>a, Zenon
    <2> QED  BY <1>1, <1>2, <1>3, <2>1, <2>2, Zenon DEF FrameOK
  <1>8. PathOK(k)'
    <2>1. /\ childPath(n) \in Seq(Segment)
          /\ l = 1 => childPath(n) = n[1]
          /\ l = 2 => childPath(n) = n[1] \o SecondSegment(n)
          /\ l = 3 => Len(childPath(n)) >= 3
          /\ l > 3 => Len(childPath(n)) >= 4
      BY <1>a, ChildPathIs, Zenon
    <2>2. SecondSegment(n)' = SecondSegment(n)
      BY <1>2, Zenon DEF SecondSegment
    <2>3. l > 3 => Len(childPath(n)) >= 3
      <3>1. PICK c : c = childPath(n)
        OBVIOUS
      <3>2. Len(c) >= 4 => Len(c) >= 3
        <4>1. c \in Seq(Segment)
          BY <2>1, <3>1, Zenon
        <4>2. PICK z \in Nat : z = Len(c)
          BY <4>1
        <4>3. z >= 4 => z >= 3
          BY <4>2
        <4> QED  BY <4>2, <4>3, Zenon
      <3> QED  BY <2>1, <3>1, <3>2, Zenon
    <2> QED  BY <1>3, <1>6, <2>1, <2>2, <2>3, Zenon DEF PathOK
  <1>9. NotInSecret(k)'
    <2> SUFFICES ASSUME kind = "Secret", k = 2, input[n] = "map",
                        n[1] \in {<<"data">>, <<"stringData">>}
                 PROVE  FALSE
      BY <1>2, <1>3, Zenon DEF NotInSecret
    <2>1. Len(n) = 1 /\ l = 1
      BY <1>6, <1>a, Zenon
    <2>2. Container(n) = "secret-bytes"
      BY <2>1, ContainerIs, Zenon
    <2>3. Blanket(n)
      <3>1. "secret-bytes" # NoRule
        BY DEF NoRule
      <3> QED  BY <1>1, <2>2, <3>1, Zenon DEF Blanket
    <2>4. Top.at = << >>
      <3>1. Len(Top.at) = 0
        BY <1>1, <2>1
      <3> QED  BY <1>1, <3>1, EmptySeq, Zenon
    <2>5. InMap(n)
      <3>1. doc[Top.at] = "map"
        BY <1>1, <2>4, NodeFacts, Zenon
      <3> QED  BY <3>1, Zenon DEF InMap, Descend
    <2> QED  BY <2>3, <2>5, Zenon DEF Descend
  <1> QED  BY <1>7, <1>8, <1>9

(* A recursive call, or a scalar that returns at once, keeps the invariant.*)
LEMMA DescendKeeps == ASSUME WalkInv, NEW n, Descend(n) PROVE WalkInv'
  <1> DEFINE F == [at : DOMAIN input, path : Seq(Segment) \cup {RootPath},
                   left : SUBSET DOMAIN input]
  <1>1. /\ Len(stack) >= 1 /\ n \in Top.left
        /\ InMap(n) => matchRule(kind, childPath(n)) = NoRule
        /\ kind' = kind /\ input' = input /\ doc' = doc
    BY DEF Descend, WalkInv
  <1>2. /\ n \in DOMAIN input /\ n \in Seq(Key) /\ Untouched(n) /\ doc[n] = input[n]
        /\ Len(n) = Len(stack) /\ Len(stack) \in Nat
        /\ n \in DOMAIN doc /\ doc[Top.at] = input[Top.at]
    BY <1>1, TopFacts, Zenon
  <1>3. Covered(n) = NoRule
    <2>1. CASE doc[Top.at] = "map"
      <3>1. InMap(n)
        BY <1>1, <2>1, Zenon DEF InMap, Descend
      <3> QED  BY <1>1, <2>1, <3>1, ClassOfChild, Zenon
    <2>2. CASE doc[Top.at] # "map"
      <3>1. Top.at = SubSeq(n, 1, Len(n) - 1)
        BY <1>1, ParentIsCut, Zenon
      <3>2. Len(n) - 1 \in 0..(Len(n) - 1)
        BY <1>1, <1>2
      <3>3. ~ IsField(n)
        BY <1>2, <2>2, <3>1, <3>2, Zenon DEF IsField
      <3> QED  BY <3>3, Zenon DEF Covered
    <2> QED  BY <2>1, <2>2
  <1>4. PICK t : t = [stack EXCEPT ![Len(stack)].left = @ \ {n}]
    OBVIOUS
  <1>5. stack' = IF doc[n] = "value" THEN t ELSE Append(t, Frame(doc, n, childPath(n)))
    BY <1>4, Zenon DEF Descend
  <1>6. /\ t \in Seq(F)
        /\ Len(t) = Len(stack) /\ DOMAIN t = DOMAIN stack
        /\ \A i \in DOMAIN stack : /\ t[i].at = stack[i].at
                                   /\ t[i].path = stack[i].path
                                   /\ t[i].left = stack[i].left \ {n}
    BY <1>1, <1>4, VisitedFacts, Zenon
  <1>7. ASSUME NEW i \in DOMAIN stack, stack'[i] = t[i]
        PROVE  FrameOK(i)' /\ PathOK(i)' /\ NotInSecret(i)'
    <2>1. FrameOK(i)
      BY Zenon DEF WalkInv
    <2>2. stack[i].at \in DOMAIN doc
      BY <2>1, Zenon DEF FrameOK
    <2>3. stack'[i].left \subseteq stack[i].left
      BY <1>6, <1>7
    <2> QED  BY <1>1, <1>6, <1>7, <2>2, <2>3, CallKept, Zenon
  <1>8. \A p : (\E i \in DOMAIN stack : p \in t[i].left) <=> Pending(p) /\ p # n
    BY <1>6, Zenon DEF Pending
  <1>9. ASSUME NEW p \in DOMAIN input, Pending(p), p # n
        PROVE  /\ ~ IsPrefix(p, n)
               /\ \A i \in DOMAIN stack : ~ IsPrefix(p, stack[i].at)
               /\ \A m \in DOMAIN input : IsPrefix(p, m) => m \in DOMAIN doc /\ doc[m] = input[m]
    <2>1. IsPrefix(n, n)
      BY <1>2, PrefixElements, Len(n) \in Nat
    <2>2. Untouched(p)
      BY <1>9, Zenon DEF WalkInv
    <2> QED  BY <1>1, <1>2, <1>9, <2>1, <2>2, OtherPending, Zenon DEF Untouched
  <1>10. CASE doc[n] = "value"
    <2>1. stack' = t
      BY <1>5, <1>10, Zenon
    <2>2. \A i \in DOMAIN stack' : FrameOK(i)' /\ PathOK(i)' /\ NotInSecret(i)'
      BY <1>6, <1>7, <2>1, Zenon
    <2>3. \A p : Pending(p)' <=> Pending(p) /\ p # n
      BY <1>6, <1>8, <2>1, Zenon DEF Pending
    <2>4. \A p \in DOMAIN input : Pending(p)' => Untouched(p)'
      BY <1>1, <1>6, <1>9, <2>1, <2>3, Zenon DEF Untouched
    <2>5. ASSUME NEW s \in DOMAIN input, Covered(s) # NoRule, ~ Hidden(s)
          PROVE  \E p \in DOMAIN input : Pending(p)' /\ IsPrefix(p, s)
      <3>1. PICK p \in DOMAIN input : Pending(p) /\ IsPrefix(p, s)
        BY <2>5, Zenon DEF WalkInv
      <3>2. p # n
        <4> SUFFICES ASSUME p = n PROVE FALSE
          OBVIOUS
        <4>1. s # n
          BY <1>3, <2>5
        <4>2. input[n] = "map"
          BY <1>2, <2>5, <3>1, <4>1, CoveredBelow, Zenon
        <4> QED  BY <1>2, <1>10, <4>2
      <3> QED  BY <2>3, <3>1, <3>2, Zenon
    <2> QED  BY <1>1, <1>6, <2>1, <2>2, <2>4, <2>5, QuietKeeps, Zenon
  <1>11. CASE doc[n] # "value"
    <2>1. PICK f : f = Frame(doc, n, childPath(n))
      OBVIOUS
    <2>2. f \in F /\ f.at = n /\ f.left = Children(doc, n)
      <3>1. childPath(n) \in Seq(Segment)
        BY <1>1, ChildPathIs, Zenon
      <3>2. Children(doc, n) \subseteq DOMAIN input
        BY DEF Children, Below, WalkInv
      <3> QED  BY <1>2, <2>1, <3>1, <3>2 DEF Frame
    <2>0. PICK k : k = Len(stack) + 1
      OBVIOUS
    <2>3. stack' = Append(t, f)
      BY <1>5, <1>11, <2>1, Zenon
    <2>4. /\ stack' \in Seq(F) /\ Len(stack') = k
          /\ \A i \in 1..Len(stack) : stack'[i] = t[i]
          /\ stack'[k] = f
      <3>1. /\ Append(t, f) \in Seq(F) /\ Len(Append(t, f)) = Len(t) + 1
            /\ \A i \in 1..Len(t) : Append(t, f)[i] = t[i]
            /\ Append(t, f)[Len(t) + 1] = f
        <4> HIDE DEF F
        <4> QED  BY <1>6, <2>2, AppendProperties
      <3> QED  BY <1>6, <2>0, <2>3, <3>1, Zenon
    <2>5. DOMAIN stack = 1..Len(stack)
      BY DEF WalkInv
    <2>6. /\ DOMAIN stack' = 1..k
          /\ \A i : i \in 1..k <=> i \in 1..Len(stack) \/ i = k
      BY <1>2, <2>0, <2>4
    <2> HIDE DEF F
    <2>7. FrameOK(k)' /\ PathOK(k)' /\ NotInSecret(k)'
      <3>1. stack'[k] = Frame(doc, n, childPath(n))
        BY <2>1, <2>4, Zenon
      <3> QED  BY <1>1, <1>11, <2>0, <3>1, NewCall, Zenon
    <2>8. \A i \in DOMAIN stack' : FrameOK(i)' /\ PathOK(i)' /\ NotInSecret(i)'
      BY <1>7, <2>4, <2>5, <2>6, <2>7, Zenon
    <2>9. \A p : Pending(p)' <=> (Pending(p) /\ p # n) \/ p \in Children(doc, n)
      BY <1>8, <2>2, <2>4, <2>5, <2>6, Zenon DEF Pending
    <2>10. ASSUME NEW p \in DOMAIN input, Pending(p)' PROVE Untouched(p)'
      <3>1. CASE Pending(p) /\ p # n
        <4>1. \A i \in DOMAIN stack' : ~ IsPrefix(p, stack'[i].at)
          BY <1>6, <1>9, <2>2, <2>4, <2>5, <2>6, <3>1, Zenon
        <4> QED  BY <1>1, <1>9, <3>1, <4>1, Zenon DEF Untouched
      <3>2. CASE p \in Children(doc, n)
        <4>1. IsPrefix(n, p) /\ Len(p) = k /\ p \in Seq(Key)
          BY <1>2, <2>0, <3>2, NodeFacts, Zenon DEF Children, Below
        <4>2. ASSUME NEW a \in Seq(Key), NEW i \in 1..k, Len(a) = i - 1
              PROVE  ~ IsPrefix(p, a)
          <5>1. k \in Nat
            BY <1>2, <2>0
          <5>2. ~ (k <= i - 1)
            BY <5>1
          <5>3. ~ (Len(p) <= Len(a))
            BY <4>1, <4>2, <5>2, Zenon
          <5> QED  BY <4>1, <5>3, PrefixElements, Zenon
        <4>3. ASSUME NEW i \in DOMAIN stack' PROVE ~ IsPrefix(p, stack'[i].at)
          <5>1. FrameOK(i)'
            BY <2>8, Zenon
          <5>2. stack'[i].at \in DOMAIN input /\ Len(stack'[i].at) = i - 1
            BY <1>1, <5>1, Zenon DEF FrameOK
          <5>3. stack'[i].at \in Seq(Key) /\ i \in 1..k
            BY <2>6, <5>2, NodeFacts, Zenon
          <5> QED  BY <4>2, <5>2, <5>3, Zenon
        <4>4. ASSUME NEW m \in DOMAIN input, IsPrefix(p, m)
              PROVE  m \in DOMAIN doc /\ doc[m] = input[m]
          <5>1. m \in Seq(Key)
            BY NodeFacts, Zenon
          <5>2. IsPrefix(n, m)
            BY <1>2, <4>1, <4>4, <5>1, PrefixTrans, Zenon
          <5> QED  BY <1>2, <5>2, Zenon DEF Untouched
        <4> QED  BY <1>1, <4>3, <4>4, Zenon DEF Untouched
      <3> QED  BY <2>9, <2>10, <3>1, <3>2, Zenon
    <2>11. ASSUME NEW s \in DOMAIN input, Covered(s) # NoRule, ~ Hidden(s)
          PROVE  \E p \in DOMAIN input : Pending(p)' /\ IsPrefix(p, s)
      <3>1. PICK p \in DOMAIN input : Pending(p) /\ IsPrefix(p, s)
        BY <2>11, Zenon DEF WalkInv
      <3>2. CASE p # n
        BY <2>9, <3>1, <3>2, Zenon
      <3>3. CASE p = n
        <4>1. s # n
          BY <1>3, <2>11
        <4>2. PICK q \in Children(doc, n) : IsPrefix(q, s)
          BY <1>2, <2>11, <3>1, <3>3, <4>1, CoveredBelow, Zenon
        <4>3. q \in DOMAIN input
          BY DEF Children, Below, WalkInv
        <4> QED  BY <2>9, <4>2, <4>3, Zenon
      <3> QED  BY <3>2, <3>3
    <2> QED  BY <1>1, <2>4, <2>8, <2>10, <2>11, QuietKeeps, Zenon DEF F
  <1> QED  BY <1>10, <1>11

(* Nothing has been visited yet: the root call covers every field.         *)
LEMMA WalkInit == ApplyInit => WalkInv
  <1> SUFFICES ASSUME ApplyInit PROVE WalkInv
    OBVIOUS
  <1>1. PICK d \in Documents : /\ kind = d.kind /\ input = d.nodes /\ doc = d.nodes
                               /\ stack = <<Frame(d.nodes, << >>, RootPath)>>
    BY Zenon DEF ApplyInit
  <1>2. IsObject(input) /\ doc = input
    BY <1>1, DocumentsAssumption, Zenon
  <1>3. PICK f : f = Frame(input, << >>, RootPath)
    OBVIOUS
  <1>4. f.at = << >> /\ f.path = RootPath /\ f.left = Children(input, << >>)
    BY <1>3 DEF Frame
  <1> DEFINE F == [at : DOMAIN input, path : Seq(Segment) \cup {RootPath},
                   left : SUBSET DOMAIN input]
  <1>5. << >> \in DOMAIN input /\ input[<< >>] = "map"
    BY <1>2, Zenon DEF IsObject
  <1>6. f \in F
    <2>1. Children(input, << >>) \subseteq DOMAIN input
      BY DEF Children, Below
    <2> QED  BY <1>3, <1>5, <2>1 DEF Frame
  <1>7. stack = <<f>>
    BY <1>1, <1>3, Zenon
  <1> HIDE DEF F
  <1>8. stack \in Seq(F) /\ Len(stack) = 1 /\ stack[1] = f
    BY <1>6, <1>7
  <1>a. DOMAIN stack = 1..1
    BY <1>8
  <1>9. \A i : i \in DOMAIN stack <=> i = 1
    BY <1>a
  <1>10. \A n \in DOMAIN input : n \in Seq(Key)
    BY <1>2, Zenon DEF IsObject
  <1>11. << >> \in Seq(Key) /\ Len(<< >>) = 0
    OBVIOUS
  <1>12. ASSUME NEW p \in f.left
         PROVE  p \in DOMAIN input /\ p \in Seq(Key) /\ Len(p) = 1 /\ IsPrefix(<< >>, p)
    <2>1. p \in DOMAIN input /\ Len(p) = Len(<< >>) + 1 /\ IsPrefix(<< >>, p)
      BY <1>4, Zenon DEF Children, Below
    <2>2. 0 + 1 = 1
      OBVIOUS
    <2> QED  BY <1>10, <1>11, <2>1, <2>2, Zenon
  <1>13. FrameOK(1)
    <2>1. 1 - 1 = 0 /\ "map" # "value"
      OBVIOUS
    <2> QED  BY <1>2, <1>4, <1>5, <1>8, <1>11, <1>12, <2>1, Zenon DEF FrameOK
  <1>14. PathOK(1)
    <2>1. ~ (1 > 1) /\ 1 # 2 /\ 1 # 3 /\ ~ (1 > 3)
      OBVIOUS
    <2> QED  BY <1>4, <1>8, <2>1, Zenon DEF PathOK
  <1>15. NotInSecret(1)
    <2>1. 1 # 2
      OBVIOUS
    <2> QED  BY <2>1, Zenon DEF NotInSecret
  <1>16. \A p : Pending(p) <=> p \in f.left
    BY <1>8, <1>9, Zenon DEF Pending
  <1>17. ASSUME NEW p \in f.left PROVE Untouched(p)
    <2>1. ~ (Len(p) <= Len(<< >>))
      <3>1. ~ (1 <= 0)
        OBVIOUS
      <3> QED  BY <1>11, <1>12, <3>1, Zenon
    <2>2. ~ IsPrefix(p, << >>)
      BY <2>1, Zenon DEF IsPrefix
    <2> QED  BY <1>2, <1>4, <1>8, <1>9, <2>2, Zenon DEF Untouched
  <1>18. ASSUME NEW n \in DOMAIN input, Covered(n) # NoRule
         PROVE  \E p \in DOMAIN input : Pending(p) /\ IsPrefix(p, n)
    <2>1. n \in Seq(Key)
      BY <1>10
    <2>2. Len(n) = 2 \/ Len(n) = 3
      BY <1>18, CoveredIs, Zenon DEF InSecret, IsWebhookSecret, IsToken
    <2>3. 1 \in 0..(Len(n) - 1) /\ 1 \in 0..Len(n)
      BY <2>2
    <2>4. PICK q : q = SubSeq(n, 1, 1)
      OBVIOUS
    <2>5. q \in Seq(Key) /\ Len(q) = 1 /\ IsPrefix(q, n)
      BY <2>1, <2>3, <2>4, PrefixCut, Zenon
    <2>6. q \in DOMAIN input
      BY <1>2, <2>3, <2>4, Zenon DEF IsObject
    <2>7. IsPrefix(<< >>, q) /\ q # << >>
      <3>1. 0 <= 1 /\ 0 # 1
        OBVIOUS
      <3>2. \A i \in 1..Len(<< >>) : <<>>[i] = q[i]
        BY <1>11
      <3>3. Len(<< >>) <= Len(q)
        BY <1>11, <2>5, <3>1, Zenon
      <3>4. IsPrefix(<< >>, q)
        BY <1>11, <2>5, <3>2, <3>3, PrefixElements, Zenon
      <3> QED  BY <1>11, <2>5, <3>1, <3>4, Zenon
    <2>8. q \in f.left
      <3>1. 0 + 1 = 1
        OBVIOUS
      <3> QED  BY <1>4, <1>11, <2>5, <2>6, <2>7, <3>1, Zenon DEF Children, Below
    <2> QED  BY <1>16, <2>5, <2>6, <2>8, Zenon
  <1>19. RestUntouched
    BY <1>2, Zenon DEF RestUntouched
  <1>20. DOMAIN doc \subseteq DOMAIN input
    BY <1>2
  <1> QED
    BY <1>2, <1>8, <1>9, <1>13, <1>14, <1>15, <1>16, <1>17, <1>18, <1>19, <1>20, Zenon
    DEF WalkInv, F

(* Every step of the walk keeps the invariant.                             *)
LEMMA WalkNext == WalkInv /\ [walk]_walkVars => WalkInv'
  <1> SUFFICES ASSUME WalkInv, [walk]_walkVars PROVE WalkInv'
    OBVIOUS
  <1>1. ASSUME NEW n \in DOMAIN input, RedactField(n) PROVE WalkInv'
    BY <1>1, RedactFieldKeeps
  <1>2. ASSUME NEW n \in DOMAIN input, RedactContainer(n) PROVE WalkInv'
    BY <1>2, RedactContainerKeeps
  <1>3. ASSUME NEW n \in DOMAIN input, Descend(n) PROVE WalkInv'
    BY <1>3, DescendKeeps
  <1>4. CASE Return
    BY <1>4, ReturnKeeps
  <1>5. CASE UNCHANGED walkVars
    <2>1. kind' = kind /\ input' = input /\ doc' = doc /\ stack' = stack
      BY <1>5 DEF walkVars
    <2>2. \A i : (FrameOK(i)' <=> FrameOK(i)) /\ (NotInSecret(i)' <=> NotInSecret(i))
      BY <2>1, Zenon DEF FrameOK, NotInSecret
    <2>3. \A i : PathOK(i)' <=> PathOK(i)
      BY <2>1, Zenon DEF PathOK, SecondSegment
    <2>4. \A p : (Pending(p)' <=> Pending(p)) /\ (Untouched(p)' <=> Untouched(p))
      BY <2>1, Zenon DEF Pending, Untouched
    <2>5. stack \in Seq([at : DOMAIN input, path : Seq(Segment) \cup {RootPath},
                        left : SUBSET DOMAIN input])
      BY Zenon DEF WalkInv
    <2>6. \A i \in DOMAIN stack : FrameOK(i) /\ PathOK(i) /\ NotInSecret(i)
      BY Zenon DEF WalkInv
    <2>7. \A p \in DOMAIN input : Pending(p) => Untouched(p)
      BY Zenon DEF WalkInv
    <2>8. \A s \in DOMAIN input : Covered(s) # NoRule /\ ~ Hidden(s) =>
              \E p \in DOMAIN input : Pending(p) /\ IsPrefix(p, s)
      BY Zenon DEF WalkInv
    <2> QED  BY <2>1, <2>2, <2>3, <2>4, <2>5, <2>6, <2>7, <2>8, QuietKeeps, Zenon
  <1> QED  BY <1>1, <1>2, <1>3, <1>4, <1>5 DEF walk

(* The invariant of the walk: every active call is at the node, and has    *)
(* the path, that its depth says; what is still to be visited is as it was *)
(* decoded; every field that a rule can match (all rows of the table but   *)
(* the one for TLS material) is a marker already or lies under a node that *)
(* is still to be visited; and nothing else has been touched.              *)
THEOREM WalkInvariant == Apply => []WalkInv
  <1>1. ApplyInit => WalkInv
    BY WalkInit
  <1>2. WalkInv /\ [walk]_walkVars => WalkInv'
    BY WalkNext
  <1> QED  BY <1>1, <1>2, PTL DEF Apply

(* Of the rows with a rule, only the one for TLS material is not covered.  *)
LEMMA CoveredRows ==
    ASSUME NEW n
    PROVE  /\ Sensitive(n) \notin {NoRule, "tls-material"} => Covered(n) = Sensitive(n)
           /\ Covered(n) # NoRule => Sensitive(n) # NoRule
  BY DEF Sensitive, Covered, NoRule

(* When Apply returns, every secret byte, token and webhook secret of the  *)
(* table is a marker of its class, for every Kubernetes object and         *)
(* whatever the order in which Go walks its maps.  The row for TLS         *)
(* material is not among them: the code misses it (TLSMaterialHidden).     *)
THEOREM SecretsHidden == Apply => []SensitiveHidden
  <1>1. ASSUME WalkInv PROVE SensitiveHidden
    <2> SUFFICES ASSUME stack = << >>, NEW n \in DOMAIN input,
                        Sensitive(n) \notin {NoRule, "tls-material"}
                 PROVE  HiddenAs(n, Sensitive(n))
      BY Zenon DEF SensitiveHidden
    <2>1. DOMAIN stack = {}
      OBVIOUS
    <2>2. \A p : ~ Pending(p)
      BY <2>1, Zenon DEF Pending
    <2>3. Covered(n) = Sensitive(n) /\ Covered(n) # NoRule
      BY CoveredRows, Zenon
    <2>4. Hidden(n)
      BY <1>1, <2>2, <2>3, Zenon DEF WalkInv
    <2> QED  BY <2>3, <2>4, Zenon DEF Hidden, HiddenAs
  <1>2. WalkInv => SensitiveHidden
    BY <1>1
  <1> QED  BY <1>2, WalkInvariant, PTL

(* What no row of the table names is never changed, in any state of the    *)
(* walk.                                                                   *)
THEOREM RestIsKept == Apply => []RestKept
  <1>1. WalkInv => RestKept
    BY CoveredRows, Zenon DEF WalkInv, RestUntouched, RestKept
  <1> QED  BY <1>1, WalkInvariant, PTL
============================================================================
