----------------------------- MODULE ObjectCopies -----------------------------
(***************************************************************************)
(* Who owns the memory a reconcile works on.  The manager's informer keeps *)
(* one object; Get hands the worker a DeepCopyObject of it, Reconcile      *)
(* keeps a DeepCopy of the status it read as `before', changes the status  *)
(* in place, compares the two and sends the object, and the client decodes *)
(* the server's answer into the very memory that was sent.  A failed       *)
(* update is retried from the same cached object.                          *)
(*                                                                         *)
(* What a write reaches is decided by Refs (what the types declare) and    *)
(* Fresh (what the generated copy code allocates); a memory cell is named  *)
(* by its owner and the path at which the owner first held it.             *)
(***************************************************************************)
EXTENDS DeepCopies, Integers, SequencesExt

CONSTANTS Kinds,         \* the kinds of object the informer may hold
          Lists,         \* the list types
          MaxAttempts    \* bound on the reconciles of one object

(* One function laid over another.                                         *)
Over(f, g) == [x \in DOMAIN f \cup DOMAIN g |-> IF x \in DOMAIN f THEN f[x] ELSE g[x]]

(* A kind holds a status, and that a slice of conditions.                  *)
StatusOf(k)      == Types[k].Status.type
HasConditions(k) ==
    /\ "Status" \in DOMAIN Types[k] /\ Types[k].Status.form = "value"
    /\ StatusOf(k) \in DOMAIN Types
    /\ "Conditions" \in DOMAIN Types[StatusOf(k)]
    /\ Types[StatusOf(k)].Conditions.form = "slice"

ASSUME KindsAssumption ==
    /\ Kinds \cup Lists \subseteq DOMAIN Types
    /\ Kinds \cap Lists = {}
    /\ \A k \in Kinds : HasConditions(k)
    /\ MaxAttempts \in Nat

VARIABLES
    kind,       \* the type of the object that is shared: a kind or its list
    present,    \* the paths of its references that are not nil
    pending,    \* which parts of the stored status are not what Reconcile wants
    mem,        \* what each memory cell holds
    obj,        \* where each reference of the worker's object points
    before,     \* where each reference of the saved status points
    inline,     \* the fields held in the structs themselves, of obj and before
    pc, attempts

vars == <<kind, present, pending, mem, obj, before, inline, pc, attempts>>

ConditionsPath == <<"Status", "Conditions">>
InStatus(p)    == <<"Status">> \o p
Cell(owner, p) == <<owner, p>>
CacheCells     == {Cell("cache", p) : p \in present}

(* Nil-ness of one reference, with all it leads to, is varied at a time:   *)
(* each statement of the copy code looks at its own field only.            *)
Populations(k) ==
    {Refs[k]} \cup {{q \in Refs[k] : ~ IsPrefix(p, q)} : p \in Refs[k]}

(* The status can lack the wanted generation or phase (held in the struct) *)
(* and the wanted condition; a condition of that type may be there to be   *)
(* overwritten or not.                                                     *)
Pendings(P) == {n \in SUBSET {"inline", "condition", "append"} :
                    /\ "append" \in n => "condition" \in n
                    /\ ConditionsPath \notin P /\ "condition" \in n => "append" \in n}

Init ==
    /\ kind \in Kinds \cup Lists
    /\ present \in Populations(kind)
    /\ pending \in IF kind \in Kinds THEN Pendings(present) ELSE {{}}
    /\ mem = [c \in CacheCells |-> "stored"]
    /\ obj = << >> /\ before = << >>
    /\ inline = [obj |-> "stored", before |-> "stored"]
    /\ pc = "queued" /\ attempts = 0

(* The copy `own' makes of the reference cells at: a fresh cell with the   *)
(* same content where the copy code allocates one, the same cell elsewhere.*)
Copied(own, T, at) ==
    [p \in DOMAIN at |-> IF p \in Fresh[T] THEN Cell(own, p) ELSE at[p]]
Contents(own, T, at) ==
    [c \in {Cell(own, p) : p \in DOMAIN at \cap Fresh[T]} |-> mem[at[c[2]]]]

(* r.Get: the cached object's DeepCopyObject.                              *)
Get ==
    /\ pc = "queued" /\ attempts < MaxAttempts
    /\ LET cached == [p \in present |-> Cell("cache", p)]
       IN  /\ obj' = Copied("obj", kind, cached)
           /\ mem' = Over(Contents("obj", kind, cached), mem)
    /\ inline' = [inline EXCEPT !.obj = "stored"]
    /\ pc' = "read"
    /\ attempts' = attempts + 1
    /\ UNCHANGED <<kind, present, pending, before>>

(* before := obj.Status.DeepCopy()                                         *)
Save ==
    /\ pc = "read" /\ kind \in Kinds
    /\ LET T  == StatusOf(kind)
           at == [p \in {q \in Refs[T] : InStatus(q) \in DOMAIN obj} |-> obj[InStatus(p)]]
       IN  /\ before' = Copied("before", T, at)
           /\ mem' = Over(Contents("before", T, at), mem)
    /\ inline' = [inline EXCEPT !.before = inline.obj]
    /\ pc' = "saved"
    /\ UNCHANGED <<kind, present, pending, obj, attempts>>

(* The assignments and SetStatusCondition.  A condition of the type that   *)
(* differs is overwritten in its array; a missing one is appended, and the *)
(* copied slice has no spare capacity, so append moves to a new array.     *)
SetStatus ==
    /\ pc = "saved"
    /\ inline' = [inline EXCEPT !.obj = IF "inline" \in pending THEN "wanted" ELSE @]
    /\ CASE "append" \in pending ->
              /\ obj' = Over([p \in {ConditionsPath} |-> Cell("append", p)], obj)
              /\ mem' = Over([c \in {Cell("append", ConditionsPath)} |-> "wanted"], mem)
         [] "condition" \in pending /\ "append" \notin pending ->
              /\ mem' = [mem EXCEPT ![obj[ConditionsPath]] = "wanted"]
              /\ UNCHANGED obj
         [] OTHER -> UNCHANGED <<obj, mem>>
    /\ pc' = "set"
    /\ UNCHANGED <<kind, present, pending, before, attempts>>

(* equality.Semantic.DeepEqual(before, &obj.Status): nil-ness and content. *)
DeepEqual ==
    /\ inline.before = inline.obj
    /\ {InStatus(p) : p \in DOMAIN before} = {q \in DOMAIN obj : q[1] = "Status"}
    /\ \A p \in DOMAIN before : mem[before[p]] = mem[obj[InStatus(p)]]

Compare ==
    /\ pc = "set"
    /\ pc' = IF DeepEqual THEN "unchanged" ELSE "sent"
    /\ UNCHANGED <<kind, present, pending, mem, obj, before, inline, attempts>>

(* Status().Update succeeds: the answer is decoded into obj, through every *)
(* reference it holds.                                                     *)
UpdateAnswered ==
    /\ pc = "sent"
    /\ mem' = [c \in DOMAIN mem |-> IF c \in Range(obj) THEN "answer" ELSE mem[c]]
    /\ inline' = [inline EXCEPT !.obj = "answer"]
    /\ pc' = "written"
    /\ UNCHANGED <<kind, present, pending, obj, before, attempts>>

(* Status().Update fails before an answer is decoded; the object is        *)
(* requeued, and its memory is dropped.                                    *)
UpdateFailed ==
    /\ pc = "sent"
    /\ pc' = "queued"
    /\ obj' = << >> /\ before' = << >>
    /\ mem' = Restrict(mem, CacheCells)
    /\ UNCHANGED <<kind, present, pending, inline, attempts>>

(* The watch delivers what was written: the informer replaces its object   *)
(* by a newly decoded one, and the object is queued.                       *)
WatchEvent ==
    /\ pc = "written"
    /\ pending' = {}
    /\ present' = present \cup (IF "append" \in pending THEN {ConditionsPath} ELSE {})
    /\ mem' = [c \in {Cell("cache", p) : p \in present'} |-> "stored"]
    /\ obj' = << >> /\ before' = << >>
    /\ pc' = "queued"
    /\ UNCHANGED <<kind, inline, attempts>>

(* A list has no reconcile.  Whoever holds a DeepCopyObject of one may use *)
(* it for a further List call, which decodes into it.                      *)
ReuseList ==
    /\ pc = "read" /\ kind \in Lists
    /\ mem' = [c \in DOMAIN mem |-> IF c \in Range(obj) THEN "answer" ELSE mem[c]]
    /\ inline' = [inline EXCEPT !.obj = "answer"]
    /\ pc' = "reused"
    /\ UNCHANGED <<kind, present, pending, obj, before, attempts>>

Next == Get \/ Save \/ SetStatus \/ Compare \/ UpdateAnswered \/ UpdateFailed \/ WatchEvent
        \/ ReuseList

Spec == Init /\ [][Next]_vars

-----------------------------------------------------------------------------
(* No step of a reconcile writes memory the informer's object can reach:   *)
(* what the cache holds is what the watch delivered, for every kind, every *)
(* population of its optional fields, and across retries.  A reference the *)
(* generated DeepCopyInto forgets would be overwritten by the in-place     *)
(* condition update or by the decoded answer.                              *)
CacheIntact == \A c \in CacheCells : mem[c] = "stored"

(* The comparison that skips the update (application_controller.go:59)     *)
(* says "unchanged" only when the stored status has all Reconcile wants,   *)
(* and an update is sent only when something is missing, in every attempt, *)
(* the ones after a failed update included.  `before' sharing memory with  *)
(* the status would hide the change for good.                              *)
ChangeNoticed == /\ pc = "unchanged" => pending = {}
                 /\ pc \in {"sent", "written"} => pending # {}
==============================================================================
