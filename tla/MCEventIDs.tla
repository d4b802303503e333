----------------------------- MODULE MCEventIDs -----------------------------
(* NewEventID on a few goroutines; the clock passes from 31 to 32, where a  *)
(* base-32 digit carries.                                                   *)
EXTENDS EventIDs

CONSTANTS c1, c2, c3

(* Draws that tell the halves of the buffer apart, one of them with bits   *)
(* all over both words.                                                    *)
LowDraw  == [hi |-> {0}, lo |-> {0}]
HighDraw == [hi |-> {b \in 0..15 : b % 5 \in {0, 2}}, lo |-> {b \in 0..63 : b % 3 = 0}]

SomeDraws == {LowDraw, HighDraw}
=============================================================================
