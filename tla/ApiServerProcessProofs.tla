----------------------- MODULE ApiServerProcessProofs -----------------------
(***************************************************************************)
(* Proof that an API server process that reports success has cut off no    *)
(* API request, for any number of requests and any race of signals,        *)
(* listener failures and the deadline with the drain.                      *)
(***************************************************************************)
EXTENDS ApiServerProcess, TLAPS

(* Once httpSrv.Shutdown has been called the API listener takes no new     *)
(* request; main goes on to the probe listener only when none is left; and *)
(* a request is cut off only by the end of the process.                    *)
DrainInv ==
    /\ main \in {"drainApi", "drainProbe"} => "api" \in shut
    /\ main = "drainProbe" => \A q \in ApiRequests : request[q] # "active"
    /\ exit = Running => \A q \in Requests : request[q] # "cut"

Inv == TypeOK /\ DrainInv /\ SuccessMeansDrained

(* A process that has not started has cut off nothing.                     *)
LEMMA InvInit == Init => Inv
  BY DEF Init, Inv, TypeOK, DrainInv, SuccessMeansDrained, MainStages, ServerStages,
         RequestStages, Running, Success, Servers, Requests

(* The end of the process cuts off what is active and nothing else.        *)
LEMMA ExitsCuts ==
    ASSUME TypeOK, NEW code \in {Success, Failure}, Exits(code)
    PROVE  /\ request' \in [Requests -> RequestStages] /\ exit' = code
           /\ \A q \in Requests : request[q] \notin {"active", "cut"} => request'[q] \in {"none", "done"}
  BY DEF TypeOK, Exits, RequestStages

(* No step of main, of a serve goroutine or of a client breaks the invariant. *)
LEMMA InvNext == Inv /\ [Next]_vars => Inv'
  <1> SUFFICES ASSUME Inv, [Next]_vars PROVE Inv'
    OBVIOUS
  <1> USE DEF Inv
  <1>0. Running # Success /\ Running # Failure /\ Success # Failure
    BY DEF Running, Success, Failure
  <1>1. ASSUME exit = Running, Exits(Failure), signals' \in 0..2,
               UNCHANGED <<main, server, shut, timer>>
        PROVE  Inv'
    <2>1. /\ request' \in [Requests -> RequestStages] /\ exit' = Failure
          /\ \A q \in Requests : request[q] \notin {"active", "cut"} => request'[q] \in {"none", "done"}
      BY <1>1, ExitsCuts
    <2>2. TypeOK'
      BY <1>1, <2>1 DEF TypeOK
    <2>3. DrainInv'
      BY <1>0, <1>1, <2>1 DEF DrainInv, Requests
    <2>4. SuccessMeansDrained'
      BY <1>0, <2>1 DEF SuccessMeansDrained
    <2> QED
      BY <2>2, <2>3, <2>4
  <1>2. ASSUME exit = Running, exit' = exit, TypeOK', DrainInv' PROVE Inv'
    BY <1>0, <1>2 DEF SuccessMeansDrained
  <1>3. CASE Next /\ (BuildFails \/ DrainFails \/ SecondSignal \/ \E s \in Servers : ServerExits(s))
    BY <1>1, <1>3 DEF Next, BuildFails, DrainFails, SecondSignal, ServerExits, TypeOK
  <1>4. CASE Next /\ Start
    <2>1. TypeOK'
      BY <1>4 DEF Start, TypeOK, MainStages, ServerStages
    <2>2. DrainInv'
      BY <1>4 DEF Start, DrainInv
    <2> QED
      BY <1>2, <1>4, <2>1, <2>2 DEF Next, Start
  <1>5. CASE Next /\ BeginDrain
    <2>1. TypeOK'
      BY <1>5 DEF BeginDrain, TypeOK, MainStages, Servers
    <2>2. DrainInv'
      BY <1>5 DEF BeginDrain, DrainInv
    <2> QED
      BY <1>2, <1>5, <2>1, <2>2 DEF Next, BeginDrain
  <1>6. CASE Next /\ DrainProbe
    <2>1. TypeOK'
      BY <1>6 DEF DrainProbe, ApiDrained, TypeOK, MainStages, Servers
    <2>2. DrainInv'
      BY <1>6 DEF DrainProbe, ApiDrained, Quiet, ServerOf, Requests, DrainInv
    <2> QED
      BY <1>2, <1>6, <2>1, <2>2 DEF Next, DrainProbe
  <1>7. CASE Next /\ MainReturns
    <2>1. /\ request' \in [Requests -> RequestStages] /\ exit' = Success
          /\ \A q \in Requests : request[q] \notin {"active", "cut"} => request'[q] \in {"none", "done"}
      BY <1>7, ExitsCuts DEF MainReturns
    <2>2. \A q \in ApiRequests : request[q] \notin {"active", "cut"}
      BY <1>7 DEF Next, MainReturns, DrainInv, Requests
    <2>3. \A q \in ApiRequests : request'[q] \in {"none", "done"}
      BY <2>1, <2>2 DEF Requests
    <2>4. TypeOK'
      BY <1>7, <2>1 DEF MainReturns, TypeOK
    <2>5. DrainInv'
      BY <1>0, <1>7, <2>1, <2>3 DEF MainReturns, DrainInv
    <2> QED
      BY <2>3, <2>4, <2>5 DEF SuccessMeansDrained
  <1>8. ASSUME Next, NEW s \in Servers, Bind(s) \/ Serve(s) \/ ServeReturns(s)
        PROVE  Inv'
    <2>1. TypeOK'
      BY <1>8 DEF Bind, Serve, ServeReturns, Moved, TypeOK, ServerStages
    <2>2. DrainInv'
      BY <1>8 DEF Bind, Serve, ServeReturns, DrainInv
    <2> QED
      BY <1>2, <1>8, <2>1, <2>2 DEF Next, Bind, Serve, ServeReturns
  <1>9. ASSUME Next, NEW q \in Requests, Accept(q) PROVE Inv'
    <2>1. TypeOK'
      BY <1>9 DEF Accept, TypeOK, RequestStages
    <2>2. q \in ApiRequests => main # "drainProbe"
      BY <1>9 DEF Accept, ServerOf, DrainInv
    <2>3. DrainInv'
      BY <1>9, <2>2 DEF Accept, DrainInv, TypeOK
    <2> QED
      BY <1>2, <1>9, <2>1, <2>3 DEF Next, Accept
  <1>10. ASSUME Next, NEW q \in Requests, Finish(q) PROVE Inv'
    <2>1. TypeOK'
      BY <1>10 DEF Finish, TypeOK, RequestStages
    <2>2. DrainInv'
      BY <1>10 DEF Finish, DrainInv, TypeOK, Requests
    <2> QED
      BY <1>2, <1>10, <2>1, <2>2 DEF Next, Finish
  <1>11. CASE Next /\ (Signal \/ Expire)
    <2>1. TypeOK'
      BY <1>11 DEF Signal, Expire, TypeOK
    <2>2. DrainInv'
      BY <1>11 DEF Signal, Expire, DrainInv
    <2> QED
      BY <1>2, <1>11, <2>1, <2>2 DEF Next, Signal, Expire
  <1>12. CASE UNCHANGED vars
    BY <1>12 DEF vars, TypeOK, DrainInv, SuccessMeansDrained
  <1> QED
    BY <1>3, <1>4, <1>5, <1>6, <1>7, <1>8, <1>9, <1>10, <1>11, <1>12
    DEF Next, Main, Goroutine

-----------------------------------------------------------------------------
(* The drain argument above, as an invariant of the process.                *)
THEOREM DrainInvariant == Spec => []Inv
  BY InvInit, InvNext, PTL DEF Spec

(* main, the goroutines of serve, the listeners' requests and the signal   *)
(* handler stay in the states the model gives them.                        *)
THEOREM ProcessTypeCorrect == Spec => []TypeOK
  <1>1. Inv => TypeOK
    BY DEF Inv
  <1> QED
    BY <1>1, DrainInvariant, PTL

(* However many requests are in flight, a process that exits 0 answered    *)
(* every API request it accepted.                                          *)
THEOREM SuccessDrained == Spec => []SuccessMeansDrained
  <1>1. Inv => SuccessMeansDrained
    BY DEF Inv
  <1> QED
    BY <1>1, DrainInvariant, PTL
=============================================================================
