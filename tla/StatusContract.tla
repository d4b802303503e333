--------------------------- MODULE StatusContract ---------------------------
(***************************************************************************)
(* What the control plane promises about the status of an object, with no  *)
(* cache, queue, replica or request in sight: owners create, edit and      *)
(* delete objects, engines report on them, and the controller acknowledges *)
(* the generation that is current at that instant, in one step, carrying   *)
(* along whatever the engines have reported.                               *)
(***************************************************************************)
EXTENDS Reconcilers

CONSTANTS Objects, KindOf

VARIABLE obj    \* obj[o]: the object as its owner sees it

Live(o) == obj[o].generation > 0

Absent == [uid |-> 0, generation |-> 0, status |-> EmptyStatus]

Init == obj = [o \in Objects |-> Absent]

Create(o) ==
    /\ ~Live(o)
    /\ obj' = [obj EXCEPT ![o] = [uid |-> @.uid + 1, generation |-> 1, status |-> EmptyStatus]]

EditSpec(o) ==
    /\ Live(o)
    /\ obj' = [obj EXCEPT ![o].generation = @ + 1]

Delete(o) ==
    /\ Live(o)
    /\ obj' = [obj EXCEPT ![o].generation = 0, ![o].status = EmptyStatus]

EngineReport(o) ==
    /\ Live(o)
    /\ \E p \in Phases, c \in ConditionStatus :
          obj' = [obj EXCEPT ![o].status.phase = p, ![o].status.accepted = c]

Acknowledge(o) ==
    /\ Live(o)
    /\ obj' = [obj EXCEPT ![o].status =
                  Reconciled(KindOf[o], obj[o].status, obj[o].generation)]

Next == \E o \in Objects :
    Create(o) \/ EditSpec(o) \/ Delete(o) \/ EngineReport(o) \/ Acknowledge(o)

Spec == Init /\ [][Next]_obj
=============================================================================
