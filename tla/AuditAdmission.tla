--------------------------- MODULE AuditAdmission ---------------------------
(***************************************************************************)
(* The audit webhook (internal/audit/webhook) in the write path of the     *)
(* Kubernetes API server, for one object that several clients write        *)
(* concurrently.                                                           *)
(*                                                                         *)
(* For every write the API server reads the current object, shows the      *)
(* webhook the old and the new object, and stores the new one only if the  *)
(* webhook allowed it and the object has not changed in between; if it has *)
(* changed, an unconditional write starts over, admission included, and a  *)
(* conditional one fails.  A webhook that does not answer in time counts   *)
(* as a refusal (failurePolicy Fail), although its handler may run on and  *)
(* still publish its event.  The API server and the event sink are         *)
(* external.                                                               *)
(***************************************************************************)
EXTENDS Naturals, Sequences

CONSTANTS
    Requests,   \* the requests clients make
    Specs,      \* what an object may say in the open
    Secrets,    \* what an object may hold in fields that are never published
    Redacted,   \* the marker that takes a secret's place in a snapshot
    None,       \* "no object": a JSON null in a snapshot
    MaxFaults   \* bound: failed emits, failed decodes and timeouts, in all

Object == [spec : Specs, secret : Secrets]

RedactedObject == [spec : Specs, secret : {Redacted}]

ASSUME AuditAssumption ==
    /\ Redacted \notin Secrets
    /\ None \notin Object \cup RedactedObject
    /\ MaxFaults \in Nat

Snapshot == RedactedObject \cup {None}

Operations == {"CREATE", "UPDATE", "DELETE", "CONNECT"}

VARIABLES
    store,    \* the object in etcd: its content and its resource version
    req,      \* req[q]: where request q is, and what the API server holds for it
    events,   \* the audit events published, in the order of publication
    late,     \* events of handlers whose request has already been refused
    refusals, \* requests the webhook itself refused
    faults    \* failed emits, failed decodes and timeouts so far

vars == <<store, req, events, late, refusals, faults>>

Stages == {"idle", "received", "admission", "emitted", "allowed", "done", "refused"}

Verbs == {"create", "edit", "delete", "view"}

RequestState == [stage : Stages, op : Operations, dryRun : {"yes", "no"},
                 new : Object \cup {None}, old : Object \cup {None}, rv : Nat]

Event == [request : Requests, verb : Verbs, before : Snapshot,
          after : Snapshot, dryRun : {"yes", "no"}]

TypeOK ==
    /\ store \in [value : Object \cup {None}, rv : Nat]
    /\ req \in [Requests -> RequestState]
    /\ events \in Seq(Event)
    /\ late \in SUBSET Event
    /\ refusals \in SUBSET Requests
    /\ faults \in 0..MaxFaults

Init ==
    /\ store = [value |-> None, rv |-> 0]
    /\ req = [q \in Requests |-> [stage |-> "idle", op |-> "CONNECT", dryRun |-> "no",
                                  new |-> None, old |-> None, rv |-> 0]]
    /\ events = <<>>
    /\ late = {}
    /\ refusals = {}
    /\ faults = 0

Moved(q, from, to) ==
    /\ req[q].stage = from
    /\ req' = [req EXCEPT ![q].stage = to]

-----------------------------------------------------------------------------
(* The API server, up to the webhook call.                                 *)

Receive(q) ==
    /\ req[q].stage = "idle"
    /\ \E op \in Operations, v \in Object, d \in {"yes", "no"} :
          req' = [req EXCEPT ![q] =
                    [stage |-> "received", op |-> op, dryRun |-> d,
                     new |-> IF op \in {"CREATE", "UPDATE"} THEN v ELSE None,
                     old |-> None, rv |-> 0]]
    /\ UNCHANGED <<store, events, late, refusals, faults>>

(* A create needs the name to be free, everything else needs the object.   *)
Applicable(op) == (op = "CREATE") <=> (store.value = None)

CallWebhook(q) ==
    /\ req[q].stage = "received"
    /\ Applicable(req[q].op)
    /\ req' = [req EXCEPT ![q].stage = "admission", ![q].old = store.value,
                          ![q].rv = store.rv]
    /\ UNCHANGED <<store, events, late, refusals, faults>>

Inapplicable(q) ==
    /\ Moved(q, "received", "refused")
    /\ ~Applicable(req[q].op)
    /\ UNCHANGED <<store, events, late, refusals, faults>>

-----------------------------------------------------------------------------
(* The handler.                                                            *)

NoVerb == ""

(* Seeded bug: deletes are not recognised as writes.                       *)
verbForWithoutDelete(op) ==
    CASE op = "CREATE" -> "create" [] op = "UPDATE" -> "edit" [] OTHER -> NoVerb

verbFor(op) ==
    CASE op = "CREATE" -> "create"
      [] op = "UPDATE" -> "edit"
      [] op = "DELETE" -> "delete"
      [] OTHER         -> NoVerb

(* Verbs and the payload type each is registered with; "" is no payload.   *)
Registry == [create |-> "crd.write.v1", edit |-> "crd.write.v1",
             delete |-> "crd.write.v1", view |-> ""]

(* Seeded bug: the payload is compared with the verb and not its type.     *)
validatePayloadForVerbName(verb, type) == verb \in DOMAIN Registry /\ verb = type

validatePayloadForVerb(verb, type) ==
    verb \in DOMAIN Registry /\ Registry[verb] = type

(* An absent object is null; in any other, what must not be published is   *)
(* replaced in place.                                                      *)
redactedSnapshot(obj) ==
    IF obj = None THEN None ELSE [obj EXCEPT !.secret = Redacted]

Envelope(q, r, before, after) ==
    [request |-> q, verb |-> verbFor(r.op), before |-> before, after |-> after,
     dryRun |-> r.dryRun]

(* Seeded bug: the old object goes out unredacted.                         *)
buildEnvelopeRaw(q, r) ==
    Envelope(q, r, r.old, redactedSnapshot(r.new))

(* The snapshots are the two objects of the admission request.             *)
buildEnvelope(q, r) ==
    Envelope(q, r, redactedSnapshot(r.old), redactedSnapshot(r.new))

Audited(q) == verbFor(req[q].op) # NoVerb

(* Connect and the like are let through.                                   *)
HandleUnaudited(q) ==
    /\ Moved(q, "admission", "allowed")
    /\ ~Audited(q)
    /\ UNCHANGED <<store, events, late, refusals, faults>>

(* A snapshot that does not decode ends in Errored(500).                   *)
HandleUndecodable(q) ==
    /\ Moved(q, "admission", "refused")
    /\ Audited(q)
    /\ faults < MaxFaults
    /\ faults' = faults + 1
    /\ refusals' = refusals \cup {q}
    /\ UNCHANGED <<store, events, late>>

EmitValid(q) == validatePayloadForVerb(verbFor(req[q].op), "crd.write.v1")

(* Emit succeeds: the event is out, the answer is not yet.                 *)
HandleEmit(q) ==
    /\ Moved(q, "admission", "emitted")
    /\ Audited(q)
    /\ EmitValid(q)
    /\ events' = Append(events, buildEnvelope(q, req[q]))
    /\ UNCHANGED <<store, late, refusals, faults>>

(* Seeded bug: the emit error is logged and the request is let through.    *)
verdictOnEmitErrorAllow(q) == "allowed"

(* The answer to a failed emit: Denied.                                    *)
verdictOnEmitError(q) == "refused"

(* Emit fails: the verb does not go with the payload, which is found       *)
(* before the sink is reached, or the sink fails.                          *)
HandleEmitFailed(q) ==
    /\ Moved(q, "admission", verdictOnEmitError(q))
    /\ Audited(q)
    /\ EmitValid(q) => faults < MaxFaults
    /\ faults' = IF EmitValid(q) THEN faults + 1 ELSE faults
    /\ refusals' = refusals \cup {q}
    /\ UNCHANGED <<store, events, late>>

HandleAllowed(q) ==
    /\ Moved(q, "emitted", "allowed")
    /\ UNCHANGED <<store, events, late, refusals, faults>>

-----------------------------------------------------------------------------
(* The API server, after the webhook call.                                 *)

(* The webhook call times out; a handler that has not published its event  *)
(* yet may still do so.                                                    *)
WebhookTimeout(q) ==
    /\ req[q].stage \in {"admission", "emitted"}
    /\ faults < MaxFaults
    /\ faults' = faults + 1
    /\ req' = [req EXCEPT ![q].stage = "refused"]
    /\ late' = IF req[q].stage = "admission" /\ Audited(q) /\ EmitValid(q)
               THEN late \cup {buildEnvelope(q, req[q])} ELSE late
    /\ UNCHANGED <<store, events, refusals>>

LateEmit(e) ==
    /\ e \in late
    /\ late' = late \ {e}
    /\ events' = Append(events, e)
    /\ UNCHANGED <<store, req, refusals, faults>>

(* The write goes to etcd; a dry run and a connect store nothing.          *)
Commit(q) ==
    /\ Moved(q, "allowed", "done")
    /\ req[q].rv = store.rv
    /\ store' = IF req[q].dryRun = "yes" \/ req[q].op = "CONNECT"
                THEN store ELSE [value |-> req[q].new, rv |-> store.rv + 1]
    /\ UNCHANGED <<events, late, refusals, faults>>

(* The object has changed: start over, or fail if the write was            *)
(* conditional.                                                            *)
Conflict(q) ==
    /\ req[q].rv # store.rv
    /\ Moved(q, "allowed", "received") \/ Moved(q, "allowed", "refused")
    /\ UNCHANGED <<store, events, late, refusals, faults>>

-----------------------------------------------------------------------------
Handle(q) ==
    \/ HandleUnaudited(q)
    \/ HandleUndecodable(q)
    \/ HandleEmit(q)
    \/ HandleEmitFailed(q)
    \/ HandleAllowed(q)

Next ==
    \/ \E q \in Requests :
          \/ Receive(q) \/ CallWebhook(q) \/ Inapplicable(q)
          \/ Handle(q) \/ WebhookTimeout(q) \/ Commit(q) \/ Conflict(q)
    \/ \E e \in late : LateEmit(e)

Spec == Init /\ [][Next]_vars

-----------------------------------------------------------------------------
(* Properties.                                                             *)

(* The event e says that the object went from one content to another.      *)
Describes(e, from, to) ==
    /\ e.dryRun = "no"
    /\ e.before = redactedSnapshot(from)
    /\ e.after = redactedSnapshot(to)

(* Write-then-act (webhook/doc.go): whenever the stored object changes, an *)
(* event published before says exactly what changed, however many writers  *)
(* raced for it, timed out or started over.                                *)
WriteThenAct ==
    [][store' # store =>
          \E i \in DOMAIN events : Describes(events[i], store.value, store'.value)]_vars

(* The content c is what the events at the positions I of a trail, read in *)
(* order, have led to before position n, starting from no object.          *)
LeadsTo(trail, I, n, c) ==
    IF \E i \in I : i < n
    THEN \E i \in I : i < n /\ (\A j \in I : j < n => j <= i) /\ trail[i].after = c
    ELSE c = None

(* The events at the positions I, read in order of publication, each start *)
(* from what the ones before have led to, and lead to what is stored.      *)
Explains(I) ==
    /\ \A i \in I : events[i].dryRun = "no" /\ LeadsTo(events, I, i, events[i].before)
    /\ LeadsTo(events, I, Len(events) + 1, redactedSnapshot(store.value))

(* The trail explains the store: some of its events, read in order, lead   *)
(* from nothing to what is stored now.  Events of writes that were refused,*)
(* timed out or tried again may be in between, but none is missing and     *)
(* none that matters is out of order.                                      *)
TrailReachesStore == \E I \in SUBSET DOMAIN events : Explains(I)

(* The handler refuses a request only when building or publishing its      *)
(* event failed (the comment on Handle): a client never loses a write to   *)
(* the audit code's own bookkeeping of verbs and payloads.                 *)
RefusesOnlyOnFailure == refusals # {} => faults > 0
=============================================================================
