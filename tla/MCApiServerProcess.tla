------------------------- MODULE MCApiServerProcess -------------------------
(* One API server process with two API requests and one probe.              *)
EXTENDS ApiServerProcess

CONSTANTS a1, a2, p1
=============================================================================
