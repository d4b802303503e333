-------------------------- MODULE MCStatusReconcile --------------------------
(* Instances of StatusReconcile for TLC.                                    *)
EXTENDS StatusReconcile

CONSTANTS o1, o2,   \* objects
          r1, r2    \* replicas

PromotionOnly == [o \in Objects |-> "Promotion"]

(* Both objects are of one kind, so they share one worker.                  *)
ApplicationOnly == [o \in Objects |-> "Application"]

Once  == [o \in Objects |-> 1]
Twice == [o \in Objects |-> 2]

(* Of two objects, the first may be deleted and created again, and edited;  *)
(* the second competes for the worker.                                      *)
FirstTwice == [o \in Objects |-> IF o = o1 THEN 2 ELSE 1]
=============================================================================
