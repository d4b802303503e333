------------------------------ MODULE CtlProofs ------------------------------
(***************************************************************************)
(* Proofs about keleustesctl composed with the API server: the server's    *)
(* own invariants survive the composition, and what the command reports at *)
(* its end is what happened on the server and on its output.               *)
(***************************************************************************)
EXTENDS Ctl, RequestPipelineProofs, SequenceTheorems, FiniteSetTheorems, TLAPS

(* The server has not begun before the command has sent.                   *)
CallByStep ==
    /\ call \in {"idle", "sent", "done"}
    /\ call = "idle" => pc = "requestID"

ServerInv == PipelineInv /\ ServedByStep /\ CallByStep

-----------------------------------------------------------------------------
(* Each product verb sends its own operation, when the base URL leads to   *)
(* the contract, and its parser knows 200.                                 *)
Target == IF normalizeBaseURL(inv.url) = "mounted" THEN Meant[inv.verb] ELSE "unknownPath"

(* A product verb sends the request its operation is served under.         *)
LEMMA SendsMeant ==
    SendRequest => /\ inv.verb \in ApiVerbs
                   /\ \E r : r.route = Target /\ r \in Requests /\ Do(inv.verb, r)
  <1> SUFFICES ASSUME SendRequest
               PROVE  /\ inv.verb \in ApiVerbs
                      /\ \E r : r.route = Target /\ r \in Requests /\ Do(inv.verb, r)
    OBVIOUS
  <1>1. /\ inv.verb \in ApiVerbs
        /\ Do(inv.verb, NewRequest(Meant[inv.verb]))
    BY DEF SendRequest, GetApplications, GetApplicationsName, GetApplicationsNameMatrix,
           GetApplicationsNamePromotions, GetApplicationsNameReleases, GetDiff,
           NewGetApplicationsRequest, NewGetApplicationsNameRequest,
           NewGetApplicationsNameMatrixRequest, NewGetApplicationsNamePromotionsRequest,
           NewGetApplicationsNameReleasesRequest, NewGetDiffRequest, Do, Meant, ApiVerbs
  <1>2. Meant[inv.verb] \in ReadOps
    BY <1>1 DEF Meant, ApiVerbs, ReadOps
  <1>3. /\ NewRequest(Meant[inv.verb]).route = Target
        /\ NewRequest(Meant[inv.verb]) \in Requests
    BY <1>2 DEF NewRequest, Target, Blank, Requests, Routes, Operations
  <1> QED
    BY <1>1, <1>3

(* The renderers make sequences of pieces.                                 *)
LEMMA RenderedPieces ==
    \A n, m : /\ \E Q : renderApplications(n) \in Seq(Q)
              /\ \E Q : renderReleases(n) \in Seq(Q)
              /\ \E Q : renderPromotions(n) \in Seq(Q)
              /\ \E Q : renderMatrix(n, m) \in Seq(Q)
              /\ m \in Nat => \E Q : renderDiff(n, m) \in Seq(Q)
  <1> TAKE n, m
  <1>1. \A p : << p >> \in Seq({p})
    OBVIOUS
  <1>2. \A p, q : << p, q >> \in Seq({p, q})
    OBVIOUS
  <1>3. ASSUME m \in Nat PROVE \E Q : renderDiff(n, m) \in Seq(Q)
    <2> DEFINE head == << Piece("checked", "mode"), printTable(n, 3) >>
               tail == [i \in 1..m |-> Piece("checked", "summary")]
               Q == {Piece("checked", "mode"), printTable(n, 3), Piece("checked", "summary")}
    <2>1. head \in Seq(Q)
      OBVIOUS
    <2>2. tail \in Seq(Q)
      BY <1>3
    <2>3. head \o tail \in Seq(Q)
      BY <2>1, <2>2
    <2> QED
      BY <2>3 DEF renderDiff
  <1> QED
    BY <1>1, <1>2, <1>3 DEF renderApplications, renderReleases, renderPromotions, renderMatrix

(* Every verb accepts a 200, and what it renders is a sequence of pieces.  *)
LEMMA ReceivesOK ==
    ReceiveAnswer => /\ inv.verb \in ApiVerbs
                     /\ \E st, rs : /\ 200 \in st /\ Receive(inv.verb, st, rs)
                                    /\ \A r \in rs : \E Q : r \in Seq(Q)
  <1> DEFINE Known == /\ inv.verb \in ApiVerbs
                      /\ \E st, rs : /\ 200 \in st /\ Receive(inv.verb, st, rs)
                                     /\ \A r \in rs : \E Q : r \in Seq(Q)
  <1>1. ASSUME runAppList PROVE Known
    <2>1. inv.verb = "app list" /\ inv.verb \in ApiVerbs
      BY <1>1 DEF runAppList, Receive, ApiVerbs
    <2>2. 200 \in ParseGetApplicationsResponse
      BY DEF ParseGetApplicationsResponse
    <2>3. \A r \in {renderApplications(n) : n \in RowCounts} : \E Q : r \in Seq(Q)
      BY RenderedPieces
    <2> QED
      BY <1>1, <2>1, <2>2, <2>3 DEF runAppList
  <1>2. ASSUME runAppGet PROVE Known
    <2>1. inv.verb = "app get" /\ inv.verb \in ApiVerbs
      BY <1>2 DEF runAppGet, Receive, ApiVerbs
    <2>2. 200 \in ParseGetApplicationsNameResponse
      BY DEF ParseGetApplicationsNameResponse
    <2>3. \A r \in {renderApplications(1)} : \E Q : r \in Seq(Q)
      BY RenderedPieces
    <2> QED
      BY <1>2, <2>1, <2>2, <2>3 DEF runAppGet
  <1>3. ASSUME runMatrix PROVE Known
    <2>1. inv.verb = "matrix" /\ inv.verb \in ApiVerbs
      BY <1>3 DEF runMatrix, Receive, ApiVerbs
    <2>2. 200 \in ParseGetApplicationsNameMatrixResponse
      BY DEF ParseGetApplicationsNameMatrixResponse
    <2>3. \A r \in {renderMatrix(n, c) : n \in RowCounts, c \in {0, 2}} : \E Q : r \in Seq(Q)
      BY RenderedPieces
    <2> QED
      BY <1>3, <2>1, <2>2, <2>3 DEF runMatrix
  <1>4. ASSUME runReleaseList PROVE Known
    <2>1. inv.verb = "release list" /\ inv.verb \in ApiVerbs
      BY <1>4 DEF runReleaseList, Receive, ApiVerbs
    <2>2. 200 \in ParseGetApplicationsNameReleasesResponse
      BY DEF ParseGetApplicationsNameReleasesResponse
    <2>3. \A r \in {renderReleases(n) : n \in RowCounts} : \E Q : r \in Seq(Q)
      BY RenderedPieces
    <2> QED
      BY <1>4, <2>1, <2>2, <2>3 DEF runReleaseList
  <1>5. ASSUME runBlockers PROVE Known
    <2>1. inv.verb = "blockers" /\ inv.verb \in ApiVerbs
      BY <1>5 DEF runBlockers, Receive, ApiVerbs
    <2>2. 200 \in ParseGetApplicationsNamePromotionsResponse
      BY DEF ParseGetApplicationsNamePromotionsResponse
    <2>3. \A r \in {renderPromotions(n) : n \in RowCounts} : \E Q : r \in Seq(Q)
      BY RenderedPieces
    <2> QED
      BY <1>5, <2>1, <2>2, <2>3 DEF runBlockers
  <1>6. ASSUME runDiff PROVE Known
    <2>1. inv.verb = "diff" /\ inv.verb \in ApiVerbs
      BY <1>6 DEF runDiff, Receive, ApiVerbs
    <2>2. 200 \in ParseGetDiffResponse
      BY DEF ParseGetDiffResponse
    <2>3. \A r \in {renderDiff(n, s) : n \in RowCounts, s \in {0, 1}} : \E Q : r \in Seq(Q)
      BY RenderedPieces
    <2> QED
      BY <1>6, <2>1, <2>2, <2>3 DEF runDiff
  <1> QED
    BY <1>1, <1>2, <1>3, <1>4, <1>5, <1>6 DEF ReceiveAnswer

-----------------------------------------------------------------------------
(* What a step of the command does to the server: it changes the request   *)
(* before the server looks at it, breaks the connection, or does nothing.  *)
ClientStep ==
    /\ UNCHANGED <<conf, pc, ctx, w, err, entered, accessLog, errorLog>>
    /\ req' = req \/ (call = "idle" /\ req' \in Requests)
    /\ gone' = gone \/ gone' = TRUE
    /\ call' \in {call, "sent", "done"}

(* A step of the invocation is a step of the server or leaves it alone.    *)
LEMMA StepsOfServer ==
    NewRootCommand => \/ Next /\ call # "idle" /\ UNCHANGED call
                      \/ ClientStep
  <1> SUFFICES ASSUME NewRootCommand
               PROVE  (Next /\ call # "idle" /\ UNCHANGED call) \/ ClientStep
    OBVIOUS
  <1>1. CASE UNCHANGED vars /\ UNCHANGED call
    BY <1>1 DEF vars, ClientStep
  <1>2. CASE SendRequest
    <2>1. PICK r : r \in Requests /\ Do(inv.verb, r)
      BY <1>2, SendsMeant
    <2>2. applyEditors(r) \in Requests
      BY <2>1 DEF applyEditors, Requests
    <2> QED
      BY <2>1, <2>2 DEF Do, ClientStep
  <1>3. CASE DoFails
    BY <1>3 DEF DoFails, ClientStep
  <1>4. CASE ReceiveAnswer
    <2>1. PICK st, rs : Receive(inv.verb, st, rs)
      BY <1>4, ReceivesOK
    <2> QED
      BY <2>1 DEF Receive, pipelineVars, vars, ClientStep
  <1>5. CASE notImplemented \/ version \/ ApiWrite \/ ApiReturn
    BY <1>5 DEF notImplemented, version, ApiWrite, ApiReturn, pipelineVars, vars, ClientStep
  <1>6. CASE ServeRequest
    BY <1>6 DEF ServeRequest
  <1> QED
    BY <1>1, <1>2, <1>3, <1>4, <1>5, <1>6 DEF NewRootCommand, ApiNext

(* Before the request is sent the server is at rest.                       *)
LEMMA ServerInit == CtlInit => ServerInv
  <1> SUFFICES ASSUME CtlInit PROVE ServerInv
    OBVIOUS
  <1>1. PipelineInv /\ ServedByStep
    BY InvInit, ServedInit DEF CtlInit, ApiInit
  <1>2. CallByStep
    BY DEF CtlInit, ApiInit, Init, CallByStep
  <1> QED
    BY <1>1, <1>2 DEF ServerInv

(* No step of the invocation breaks the invariant of the server.           *)
LEMMA ServerNext == ServerInv /\ [NewRootCommand]_ctlVars => ServerInv'
  <1> SUFFICES ASSUME ServerInv, [NewRootCommand]_ctlVars PROVE ServerInv'
    OBVIOUS
  <1>1. CASE Next /\ call # "idle" /\ UNCHANGED call
    BY <1>1, InvNext, ServedNext DEF ServerInv, CallByStep
  <1>2. CASE ClientStep
    <2>1. pc = "requestID" => Untouched(w)
      BY DEF ServerInv, PipelineInv, ResponseByStep
    <2>2. req' = req \/ pc = "requestID"
      BY <1>2 DEF ClientStep, ServerInv, CallByStep
    <2>3. TypeOK'
      BY <1>2 DEF ClientStep, ServerInv, PipelineInv, TypeOK
    <2>4. ResponseByStep' /\ ErrorByStep' /\ LogByStep' /\ OneCoherentAnswer'
      BY <1>2 DEF ClientStep, ServerInv, PipelineInv, ResponseByStep, ErrorByStep, LogByStep,
                  OneCoherentAnswer, Untouched, Begun
    <2>5. Stamped' /\ CauseReported' /\ GuardsByStep' /\ ServedByStep'
      <3>1. CASE req' = req
        <4>1. RequestID' = RequestID
          BY <3>1 DEF RequestID
        <4> QED
          BY <1>2, <3>1, <4>1 DEF ClientStep, ServerInv, PipelineInv, Stamped, CauseReported,
                                  GuardsByStep, ServedByStep, bearerToken
      <3>2. CASE pc = "requestID"
        BY <1>2, <2>1, <3>2 DEF ClientStep, ServerInv, PipelineInv, Stamped, CauseReported,
                                GuardsByStep, ServedByStep, Untouched
      <3> QED
        BY <2>2, <3>1, <3>2
    <2>6. CallByStep'
      BY <1>2 DEF ClientStep, ServerInv, CallByStep
    <2> QED
      BY <2>3, <2>4, <2>5, <2>6 DEF ServerInv, PipelineInv
  <1>3. CASE UNCHANGED ctlVars
    <2>1. ClientStep
      BY <1>3 DEF ctlVars, vars, ClientStep
    <2> QED
      BY <1>2, <2>1
  <1> QED
    BY <1>1, <1>2, <1>3, StepsOfServer

(* The server's invariant holds beside the command too.                    *)
THEOREM ServerInvariant == CtlSpec => []ServerInv
  BY ServerInit, ServerNext, PTL DEF CtlSpec

(* With keleustesctl as its client the server still keeps its types, its   *)
(* guards, its log, its single answer and its reports of hidden causes:    *)
(* what RequestPipelineProofs shows of the server alone.                   *)
THEOREM ServerBesideCtl ==
    CtlSpec => [](/\ TypeOK /\ GuardedOperations /\ AccessLogTruthful
                  /\ OneCoherentAnswer /\ CauseLoggedNotLeaked)
  <1>1. ServerInv => /\ TypeOK /\ GuardedOperations /\ AccessLogTruthful
                     /\ OneCoherentAnswer /\ CauseLoggedNotLeaked
    BY InvGuards, InvLog, InvCause DEF ServerInv, PipelineInv
  <1> QED
    BY <1>1, ServerInvariant, PTL

-----------------------------------------------------------------------------
(* What the command knows.  Commands of the other kind leave the           *)
(* Kubernetes client alone.  A product verb has nothing to write before it *)
(* has an answer; it sent the operation it stands for; and from the answer *)
(* on its end follows from the answer, which no longer changes.            *)
Delivered ==
    /\ exit.kind \in {"running", "ok", "writeError"}
    /\ entered = Meant[inv.verb] /\ err = None
    /\ w.sent.status = 200 /\ w.sent.ctype = "json"

Reported ==
    /\ exit = apiError
    /\ exit.kind = "unexpected" => Target = "unknownPath"

CommandByCall ==
    /\ inv.verb \notin KubeVerbs => step = "parse" /\ ~ open
    /\ inv.verb \in ApiVerbs =>
          /\ call \in {"idle", "sent"} => due = << >> /\ todo = << >>
          /\ call = "idle" => exit.kind \in {"running", "badURL"}
          /\ call = "sent" => exit.kind = "running" /\ req.route = Target
          /\ call = "done" => \/ exit.kind = "transport"
                              \/ pc = "logged" /\ w.body # << >> /\ (Delivered \/ Reported)

(* An answered request is settled: no step of the server follows.          *)
LEMMA Settled == pc = "logged" => ~ Next
  BY DEF Next, requestIDMiddleware, authPass, authReject, routeOperation, routeNowhere,
         handleOK, handleSpec, bindParams, decodeBody, authzMiddleware, handleRead,
         handleWrite, visitResponse, onError, recoverMiddleware, loggingMiddleware, disconnect

(* Kubernetes steps are steps of get and describe.                         *)
LEMMA KubeStepOfKubeVerb == CommandByCall /\ KubeNext => inv.verb \in KubeVerbs
  <1> SUFFICES ASSUME CommandByCall, KubeNext, inv.verb \notin KubeVerbs PROVE FALSE
    OBVIOUS
  <1>1. step = "parse" /\ ~ open
    BY DEF CommandByCall
  <1> QED
    BY <1>1 DEF KubeNext, KubeWrite, KubeReturn, Cluster, CreateObject, DeleteObject,
                SendStatus, CloseWatch

(* No verb belongs to two halves of the command line.                      *)
LEMMA VerbsApart == /\ \A v \in ApiVerbs : v \notin KubeVerbs
                    /\ \A v \in KubeVerbs : v \notin CtlVerbs
  BY DEF ApiVerbs, KubeVerbs, CtlVerbs

(* The command line never changes.                                         *)
LEMMA InvKept == [NewRootCommand]_ctlVars => inv' = inv
  <1> SUFFICES ASSUME [NewRootCommand]_ctlVars PROVE inv' = inv
    OBVIOUS
  <1>1. CASE KubeNext
    BY <1>1 DEF KubeNext, KubeCommand, ParseArgs, newKubeContext, RequestFails, runGetList,
       runGetOne, runWatch, WatchRow, WatchSkip, WatchEnds, Requested, KubeWrite, KubeReturn,
       Cluster, CreateObject, DeleteObject, SendStatus, CloseWatch
  <1>2. CASE SendRequest
    BY <1>2, SendsMeant DEF Do
  <1>3. CASE ReceiveAnswer
    BY <1>3, ReceivesOK DEF Receive
  <1>4. CASE DoFails \/ notImplemented \/ version \/ ApiWrite \/ ApiReturn \/ ServeRequest
    BY <1>4 DEF DoFails, notImplemented, version, ApiWrite, ApiReturn, ServeRequest
  <1>5. CASE UNCHANGED ctlVars
    BY <1>5 DEF ctlVars
  <1> QED
    BY <1>1, <1>2, <1>3, <1>4, <1>5 DEF NewRootCommand, ApiNext

(* What the answer to a product verb makes of it.                          *)
LEMMA AnswerDecides ==
    ASSUME ServerInv, inv.verb \in ApiVerbs, req.route = Target,
           pc = "logged", w.body # << >>, NEW st, 200 \in st
    PROVE  /\ Parse(st) = 200 => /\ entered = Meant[inv.verb] /\ err = None
                                 /\ w.sent.status = 200 /\ w.sent.ctype = "json"
           /\ Parse(st) # 200 => (apiError.kind = "unexpected" => Target = "unknownPath")
  <1>1. 1 \in DOMAIN w.body
    BY DEF ServerInv, PipelineInv, TypeOK, Writers
  <1>2. /\ w.body[1].kind = "json" =>
              /\ req.route \in Operations /\ entered = req.route /\ err = None
              /\ w.sent.status = 200 /\ w.sent.ctype = "json"
        /\ w.body[1].kind = "problem" => w.sent.status # 200
        /\ req.route \in Operations => w.body[1].kind \in {"json", "problem"}
        /\ w.sent.ctype = "json" => w.body[1].kind = "json"
    BY <1>1 DEF ServerInv, ServedByStep
  <1>3. (w.body[1].kind = "problem") <=> (w.sent.ctype = "problem+json")
    BY <1>1 DEF ServerInv, PipelineInv, OneCoherentAnswer
  <1>4. Meant[inv.verb] \in Operations /\ "unknownPath" \notin Operations
    BY DEF Meant, ApiVerbs, Operations, ReadOps, WriteOps
  <1>5. CASE Parse(st) = 200
    <2>1. w.sent.status = 200 /\ w.sent.ctype \in {"json", "problem+json"}
      BY <1>5 DEF Parse
    <2>2. w.body[1].kind = "json"
      BY <2>1, <1>2, <1>3
    <2> QED
      BY <1>2, <1>4, <1>5, <2>2 DEF Target
  <1>6. CASE Parse(st) # 200
    <2> SUFFICES ASSUME apiError.kind = "unexpected", Target # "unknownPath" PROVE FALSE
      BY <1>6
    <2>1. w.body[1].kind # "problem"
      BY DEF apiError
    <2>2. w.body[1].kind = "json"
      BY <1>2, <1>4, <2>1 DEF Target
    <2> QED
      BY <1>2, <1>6, <2>2 DEF Parse
  <1> QED
    BY <1>5, <1>6

(* A command that has not begun has received nothing.                      *)
LEMMA CommandInit == CtlInit => CommandByCall
  <1> SUFFICES ASSUME CtlInit PROVE CommandByCall
    OBVIOUS
  <1>1. todo = << >> /\ due = << >> /\ exit.kind = "running" /\ step = "parse" /\ ~ open
    BY DEF CtlInit, OutputInit, KubeInit, Running
  <1>2. inv.verb \in ApiVerbs => call = "idle"
    BY DEF CtlInit, ApiInit, ApiVerbs
  <1> QED
    BY <1>1, <1>2 DEF CommandByCall

(* What the command holds stays what the server sent.                      *)
LEMMA CommandNext == ServerInv /\ CommandByCall /\ [NewRootCommand]_ctlVars => CommandByCall'
  <1> SUFFICES ASSUME ServerInv, CommandByCall, [NewRootCommand]_ctlVars PROVE CommandByCall'
    OBVIOUS
  <1> USE DEF Running, OK, WriteError, Failed
  <1>0. inv' = inv
    BY InvKept
  <1>1. CASE KubeNext /\ UNCHANGED call /\ UNCHANGED vars
    <2>1. inv.verb \in KubeVerbs
      BY <1>1, KubeStepOfKubeVerb
    <2>2. inv.verb \notin ApiVerbs
      BY <2>1, VerbsApart
    <2> QED
      BY <1>0, <2>1, <2>2 DEF CommandByCall
  <1>2. CASE UNCHANGED kubeVars /\ inv.verb \notin ApiVerbs
    BY <1>0, <1>2 DEF kubeVars, CommandByCall
  <1>3. CASE SendRequest /\ UNCHANGED kubeVars
    <2>1. inv.verb \in ApiVerbs
      BY <1>3, SendsMeant
    <2>2. PICK r : r.route = Target /\ r \in Requests /\ Do(inv.verb, r)
      BY <1>3, SendsMeant
    <2>3. applyEditors(r).route = Target
      BY <2>2 DEF applyEditors, Requests
    <2>4. Target' = Target
      BY <1>0 DEF Target, normalizeBaseURL, Meant
    <2>5. call = "idle" /\ exit = Running /\ due = << >> /\ todo = << >>
      BY <2>1, <2>2 DEF Do, CommandByCall
    <2>6. CASE normalizeBaseURL(inv.url) = "malformed"
      <3>1. call' = "idle" /\ exit'.kind = "badURL" /\ due' = << >> /\ todo' = << >>
        BY <2>2, <2>5, <2>6 DEF Do, Exit
      <3> QED
        BY <1>0, <1>3, <3>1 DEF CommandByCall, kubeVars
    <2>7. CASE normalizeBaseURL(inv.url) # "malformed"
      <3>1. /\ call' = "sent" /\ exit' = Running /\ due' = << >> /\ todo' = << >>
            /\ req'.route = Target'
        BY <2>2, <2>3, <2>4, <2>5, <2>7 DEF Do, outputVars
      <3> QED
        BY <1>0, <1>3, <3>1 DEF CommandByCall, kubeVars
    <2> QED
      BY <2>6, <2>7
  <1>4. CASE DoFails /\ UNCHANGED kubeVars
    <2>1. call' = "done" /\ exit'.kind = "transport"
      BY <1>4 DEF DoFails, Exit
    <2> QED
      BY <1>0, <1>4, <2>1 DEF CommandByCall, kubeVars
  <1>5. CASE ReceiveAnswer /\ UNCHANGED kubeVars
    <2>1. inv.verb \in ApiVerbs
      BY <1>5, ReceivesOK
    <2>2. PICK st, rs : 200 \in st /\ Receive(inv.verb, st, rs)
      BY <1>5, ReceivesOK
    <2>3. /\ pc = "logged" /\ w.body # << >> /\ call = "sent" /\ call' = "done"
          /\ exit = Running /\ UNCHANGED <<pc, w, err, entered, req>>
      BY <2>2 DEF Receive, pipelineVars, vars
    <2>4. req.route = Target
      BY <2>1, <2>3 DEF CommandByCall
    <2>5. Target' = Target /\ apiError' = apiError
      BY <1>0, <2>3 DEF Target, normalizeBaseURL, Meant, apiError
    <2>6. CASE Parse(st) = 200
      <3>1. exit' = exit
        BY <2>2, <2>6 DEF Receive, Render
      <3>2. Delivered'
        BY <1>0, <2>1, <2>2, <2>3, <2>4, <2>6, <3>1, AnswerDecides DEF Delivered
      <3> QED
        BY <1>0, <1>5, <2>3, <3>2 DEF CommandByCall, kubeVars
    <2>7. CASE Parse(st) # 200
      <3>1. exit' = apiError
        BY <2>2, <2>7 DEF Receive, Exit
      <3>2. Reported'
        BY <2>1, <2>2, <2>3, <2>4, <2>5, <2>7, <3>1, AnswerDecides DEF Reported
      <3> QED
        BY <1>0, <1>5, <2>3, <3>2 DEF CommandByCall, kubeVars
    <2> QED
      BY <2>6, <2>7
  <1>6. CASE (notImplemented \/ version) /\ UNCHANGED kubeVars
    BY <1>2, <1>6 DEF notImplemented, version, ApiVerbs
  <1>7. CASE (ApiWrite \/ ApiReturn) /\ UNCHANGED kubeVars /\ inv.verb \in ApiVerbs
    <2>1. exit = Running /\ exit'.kind \in {"running", "ok", "writeError"} /\ UNCHANGED <<call, due>>
      BY <1>7 DEF ApiWrite, ApiReturn, WriteStep, WriteChecked, printf, Flush, RenderReturns, Writing
    <2>2. UNCHANGED <<pc, w, err, entered, req>>
      BY <1>7 DEF ApiWrite, ApiReturn, pipelineVars, vars
    <2>3. todo # << >> \/ due # << >>
      BY <1>7 DEF ApiWrite, ApiReturn, WriteStep, WriteChecked, printf, Flush, RenderReturns, Writing
    <2>4. call = "done" /\ pc = "logged" /\ w.body # << >> /\ (Delivered \/ Reported)
      BY <1>7, <2>1, <2>3 DEF CommandByCall, ServerInv, CallByStep
    <2>5. ~ Reported
      BY <2>1 DEF Reported, apiError
    <2>6. Delivered'
      BY <1>0, <2>1, <2>2, <2>4, <2>5 DEF Delivered
    <2> QED
      BY <1>0, <1>7, <2>1, <2>2, <2>4, <2>6 DEF CommandByCall, kubeVars
  <1>8. CASE ServeRequest /\ UNCHANGED kubeVars
    <2>1. pc # "logged" /\ call # "idle" /\ UNCHANGED <<call, req>> /\ UNCHANGED outputVars
      BY <1>8, Settled DEF ServeRequest, Next, requestIDMiddleware, authPass, authReject,
         routeOperation, routeNowhere, handleOK, handleSpec, bindParams, decodeBody,
         authzMiddleware, handleRead, handleWrite, visitResponse, onError, recoverMiddleware,
         loggingMiddleware, disconnect
    <2>2. Target' = Target
      BY <1>0 DEF Target, normalizeBaseURL, Meant
    <2> QED
      BY <1>0, <1>8, <2>1, <2>2 DEF CommandByCall, kubeVars, outputVars
  <1>9. CASE UNCHANGED ctlVars
    BY <1>9 DEF ctlVars, vars, outputVars, kubeVars, CommandByCall, Delivered, Reported, apiError,
                Target, normalizeBaseURL, Meant
  <1> QED
    BY <1>1, <1>2, <1>3, <1>4, <1>5, <1>6, <1>7, <1>8, <1>9 DEF NewRootCommand, ApiNext

(* From both invariants, the end of a product verb is truthful.            *)
LEMMA ReportFollows == ServerInv /\ CommandByCall => CtlReportTruthful
  <1> SUFFICES ASSUME ServerInv, CommandByCall, inv.verb \in ApiVerbs,
                      exit = OK \/ exit.kind \in {"problem", "unexpected"}
               PROVE  /\ exit = OK => /\ entered = Meant[inv.verb]
                                      /\ accessLog[1].status = 200 /\ w.sent.ctype = "json"
                                      /\ err = None
                      /\ exit.kind \in {"problem", "unexpected"} =>
                            /\ exit.status = accessLog[1].status
                            /\ (exit.kind = "problem") <=> (w.body[1].kind = "problem")
                            /\ exit.kind = "problem" => exit.slug = w.body[1].slug
                      /\ exit.kind = "unexpected" => inv.url \notin {"default", "bareHost"}
    BY DEF CtlReportTruthful
  <1>1. OK.kind = "ok"
    BY DEF OK
  <1>2. pc = "logged" /\ (Delivered \/ Reported)
    BY <1>1 DEF CommandByCall, ServerInv, CallByStep
  <1>3. accessLog[1].status = w.sent.status
    BY <1>2, InvLog DEF ServerInv, AccessLogTruthful
  <1>4. CASE Delivered
    BY <1>1, <1>3, <1>4 DEF Delivered
  <1>5. CASE Reported
    <2>1. exit.kind \in {"problem", "unexpected"} /\ exit # OK
      BY <1>1, <1>5 DEF Reported, apiError
    <2>2. exit.kind = "unexpected" => inv.url \notin {"default", "bareHost"}
      <3>1. Meant[inv.verb] # "unknownPath"
        BY DEF Meant, ApiVerbs
      <3> QED
        BY <1>5, <3>1 DEF Reported, Target, normalizeBaseURL
    <2> QED
      BY <1>3, <1>5, <2>1, <2>2 DEF Reported, apiError
  <1> QED
    BY <1>2, <1>4, <1>5

(* The command's invariant, beside the server's.                           *)
THEOREM CommandInvariant == CtlSpec => [](ServerInv /\ CommandByCall)
  <1>1. CtlInit => ServerInv /\ CommandByCall
    BY ServerInit, CommandInit
  <1>2. ServerInv /\ CommandByCall /\ [NewRootCommand]_ctlVars => ServerInv' /\ CommandByCall'
    BY ServerNext, CommandNext
  <1> QED
    BY <1>1, <1>2, PTL DEF CtlSpec

(* The exit status and the message of a product verb say what the server   *)
(* did and logged, for every policy, base URL, server failure and moment   *)
(* at which the connection breaks.                                         *)
THEOREM ReportTruthful == CtlSpec => []CtlReportTruthful
  BY ReportFollows, CommandInvariant, PTL

-----------------------------------------------------------------------------
(* Output.  As long as no error is on its way to the user, everything      *)
(* rendered was taken by the output or is still to be written, but for     *)
(* tables whose flush was refused.                                         *)
Sequenced ==
    /\ \E P : todo \in Seq(P) /\ due \in Seq(P) /\ out \in Seq(P)
    /\ \E H : refused \in Seq(H)
    /\ latch \in BOOLEAN

NothingLost ==
    (exit \in {Running, OK} /\ ~ latch) =>
        /\ refused = << >> => due = out \o todo
        /\ \A i \in DOMAIN refused : refused[i] = "flush"
        /\ \A i \in DOMAIN due : due[i].how # "flush" =>
              \/ \E j \in DOMAIN out : out[j] = due[i]
              \/ \E j \in DOMAIN todo : todo[j] = due[i]

EndedWell == exit = OK => todo = << >> /\ ~ latch

OutputInv == Sequenced /\ NothingLost /\ EndedWell

(* A renderer starts when nothing is waiting to be written; a watch never  *)
(* uses the latch.                                                         *)
OutputByStep ==
    /\ due = << >> => todo = << >>
    /\ (inv.verb \in KubeVerbs /\ step \in {"parse", "connect", "request"}) =>
          todo = << >> /\ ~ latch
    /\ step = "watch" => ~ latch /\ \A i \in DOMAIN todo : todo[i].how = "checked"

(* The ways a process ends differ from still running.                      *)
LEMMA RunningIsNotOK == Running # OK /\ WriteError \notin {Running, OK}
  <1>1. Running.kind = "running" /\ OK.kind = "ok" /\ WriteError.kind = "writeError"
    BY DEF Running, OK, WriteError
  <1> QED
    BY <1>1

(* Rendering onto an empty queue.                                          *)
LEMMA RenderKeeps ==
    ASSUME OutputInv, todo = << >>, exit = Running, NEW Q, NEW pieces \in Seq(Q), Render(pieces)
    PROVE  OutputInv'
  <1> USE DEF Render
  <1>1. PICK P : todo \in Seq(P) /\ due \in Seq(P) /\ out \in Seq(P)
    BY DEF OutputInv, Sequenced
  <1> DEFINE R == P \cup Q
  <1>2. pieces \in Seq(R) /\ due \in Seq(R) /\ out \in Seq(R)
    BY <1>1
  <1> HIDE DEF R
  <1>3. due' = due \o pieces /\ todo' = pieces /\ UNCHANGED <<out, latch, refused, exit>>
    OBVIOUS
  <1>4. Sequenced'
    BY <1>2, <1>3 DEF OutputInv, Sequenced
  <1>5. EndedWell'
    BY <1>3, RunningIsNotOK DEF EndedWell
  <1>6. NothingLost'
    <2> SUFFICES ASSUME ~ latch PROVE NothingLost'
      BY <1>3 DEF NothingLost
    <2>1. /\ refused = << >> => due = out \o << >>
          /\ \A i \in DOMAIN refused : refused[i] = "flush"
          /\ \A i \in DOMAIN due : due[i].how # "flush" => \E j \in DOMAIN out : out[j] = due[i]
      BY DEF OutputInv, NothingLost
    <2>2. refused = << >> => due \o pieces = out \o pieces
      BY <1>2, <2>1
    <2>3. ASSUME NEW i \in DOMAIN (due \o pieces), (due \o pieces)[i].how # "flush"
          PROVE  \/ \E j \in DOMAIN out : out[j] = (due \o pieces)[i]
                 \/ \E j \in DOMAIN pieces : pieces[j] = (due \o pieces)[i]
      <3>1. CASE i <= Len(due)
        <4>1. i \in DOMAIN due /\ (due \o pieces)[i] = due[i]
          BY <1>2, <2>3, <3>1
        <4> QED
          BY <2>1, <2>3, <4>1
      <3>2. CASE ~ (i <= Len(due))
        <4>1. i - Len(due) \in DOMAIN pieces /\ (due \o pieces)[i] = pieces[i - Len(due)]
          BY <1>2, <2>3, <3>2
        <4> QED
          BY <4>1
      <3> QED
        BY <3>1, <3>2
    <2> QED
      BY <1>3, <2>1, <2>2, <2>3 DEF NothingLost
  <1> QED
    BY <1>4, <1>5, <1>6 DEF OutputInv

(* One write: taken, refused, or skipped behind the latch.                 *)
LEMMA WriteKeeps == OutputInv /\ WriteStep => OutputInv'
  <1> SUFFICES ASSUME OutputInv, WriteStep PROVE OutputInv'
    OBVIOUS
  <1>1. PICK P : todo \in Seq(P) /\ due \in Seq(P) /\ out \in Seq(P)
    BY DEF OutputInv, Sequenced
  <1>2. PICK H : refused \in Seq(H)
    BY DEF OutputInv, Sequenced
  <1>3. /\ exit = Running /\ todo # << >> /\ due' = due /\ latch \in BOOLEAN
        /\ Head(todo) \in P /\ Tail(todo) \in Seq(P) /\ todo[1] = Head(todo) /\ 1 \in DOMAIN todo
    BY <1>1 DEF OutputInv, Sequenced, WriteStep, WriteChecked, printf, Flush, Writing
  <1>4. \A j \in DOMAIN todo : j = 1 \/ (j - 1 \in DOMAIN Tail(todo) /\ Tail(todo)[j - 1] = todo[j])
    BY <1>1, <1>3
  <1>5. CASE Accepted /\ todo' = Tail(todo) /\ UNCHANGED exit /\ UNCHANGED latch
    <2>1. out' = Append(out, Head(todo)) /\ refused' = refused
      BY <1>5 DEF Accepted
    <2>2. Sequenced'
      BY <1>1, <1>3, <1>5, <2>1 DEF OutputInv, Sequenced
    <2>3. EndedWell'
      BY <1>3, <1>5, RunningIsNotOK DEF EndedWell
    <2>4. NothingLost'
      <3> SUFFICES ASSUME ~ latch PROVE NothingLost'
        BY <1>5 DEF NothingLost
      <3>1. /\ refused = << >> => due = out \o todo
            /\ \A i \in DOMAIN refused : refused[i] = "flush"
            /\ \A i \in DOMAIN due : due[i].how # "flush" =>
                  \/ \E j \in DOMAIN out : out[j] = due[i]
                  \/ \E j \in DOMAIN todo : todo[j] = due[i]
        BY <1>3 DEF OutputInv, NothingLost
      <3>2. Append(out, Head(todo)) \o Tail(todo) = out \o todo
        BY <1>1, <1>3
      <3>3. \A j \in DOMAIN out : j \in DOMAIN out' /\ out'[j] = out[j]
        BY <1>1, <1>3, <2>1
      <3>4. Len(out) + 1 \in DOMAIN out' /\ out'[Len(out) + 1] = todo[1]
        BY <1>1, <1>3, <2>1
      <3>5. ASSUME NEW i \in DOMAIN due, due[i].how # "flush"
            PROVE  \/ \E j \in DOMAIN out' : out'[j] = due[i]
                   \/ \E j \in DOMAIN todo' : todo'[j] = due[i]
        BY <1>4, <1>5, <3>1, <3>3, <3>4, <3>5
      <3> QED
        BY <1>3, <1>5, <2>1, <3>1, <3>2, <3>5 DEF NothingLost
    <2> QED
      BY <2>2, <2>3, <2>4 DEF OutputInv
  <1>6. CASE /\ Refused /\ Head(todo).how = "flush"
             /\ todo' = Tail(todo) /\ UNCHANGED exit /\ UNCHANGED latch
    <2>1. out' = out /\ refused' = Append(refused, "flush")
      BY <1>6 DEF Refused
    <2>2. refused' \in Seq(H \cup {"flush"}) /\ refused' # << >>
      BY <1>2, <2>1
    <2>3. Sequenced'
      BY <1>1, <1>3, <1>6, <2>1, <2>2 DEF Sequenced
    <2>4. EndedWell'
      BY <1>3, <1>6, RunningIsNotOK DEF EndedWell
    <2>5. NothingLost'
      <3> SUFFICES ASSUME ~ latch PROVE NothingLost'
        BY <1>6 DEF NothingLost
      <3>1. /\ \A i \in DOMAIN refused : refused[i] = "flush"
            /\ \A i \in DOMAIN due : due[i].how # "flush" =>
                  \/ \E j \in DOMAIN out : out[j] = due[i]
                  \/ \E j \in DOMAIN todo : todo[j] = due[i]
        BY <1>3 DEF OutputInv, NothingLost
      <3>2. \A i \in DOMAIN refused' : refused'[i] = "flush"
        BY <1>2, <2>1, <3>1
      <3>3. ASSUME NEW i \in DOMAIN due, due[i].how # "flush"
            PROVE  \/ \E j \in DOMAIN out : out[j] = due[i]
                   \/ \E j \in DOMAIN todo' : todo'[j] = due[i]
        BY <1>3, <1>4, <1>6, <3>1, <3>3
      <3> QED
        BY <1>3, <1>6, <2>1, <2>2, <3>2, <3>3 DEF NothingLost
    <2> QED
      BY <2>3, <2>4, <2>5 DEF OutputInv
  <1>7. CASE /\ exit' = WriteError \/ (exit' = Running /\ latch')
             /\ latch' \in BOOLEAN
             /\ todo' \in {<< >>, Tail(todo)}
             /\ Refused \/ UNCHANGED <<out, refused>>
    <2>1. out' = out /\ \E G : refused' \in Seq(G)
      <3>1. Append(refused, Head(todo).how) \in Seq(H \cup {Head(todo).how})
        BY <1>2
      <3> QED
        BY <1>2, <1>7, <3>1 DEF Refused
    <2>2. << >> \in Seq(P)
      OBVIOUS
    <2> QED
      BY <1>1, <1>3, <1>7, <2>1, <2>2, RunningIsNotOK
         DEF OutputInv, Sequenced, NothingLost, EndedWell
  <1>8. CASE WriteChecked
    BY <1>3, <1>5, <1>7, <1>8 DEF WriteChecked
  <1>9. CASE printf
    <2>1. todo' = Tail(todo) /\ exit' = Running
      BY <1>3, <1>9 DEF printf
    <2>2. CASE latch /\ UNCHANGED <<out, refused, latch>>
      <3>1. latch' /\ latch' \in BOOLEAN
        BY <1>3, <2>2
      <3> QED
        BY <1>7, <2>1, <2>2, <3>1
    <2>3. CASE Accepted /\ UNCHANGED latch
      BY <1>3, <1>5, <2>1, <2>3
    <2>4. CASE Refused /\ latch' = TRUE
      <3>1. latch' /\ latch' \in BOOLEAN
        BY <2>4
      <3> QED
        BY <1>7, <2>1, <2>4, <3>1
    <2> QED
      BY <1>9, <2>2, <2>3, <2>4 DEF printf
  <1>10. CASE Flush
    BY <1>3, <1>5, <1>6, <1>10 DEF Flush
  <1> QED
    BY <1>8, <1>9, <1>10 DEF WriteStep

(* The end of a renderer agrees with what was printed.                     *)
LEMMA ReturnKeeps == OutputInv /\ RenderReturns => OutputInv'
  <1> SUFFICES ASSUME OutputInv, RenderReturns PROVE OutputInv'
    OBVIOUS
  <1>1. exit = Running /\ todo = << >> /\ UNCHANGED <<todo, due, out, latch, refused>>
    BY DEF RenderReturns
  <1>2. exit' = WriteError \/ (exit' = OK /\ ~ latch)
    BY DEF RenderReturns
  <1> QED
    BY <1>1, <1>2, RunningIsNotOK DEF OutputInv, Sequenced, NothingLost, EndedWell

(* An error, or success with nothing left to write.                        *)
LEMMA ExitKeeps ==
    ASSUME OutputInv, exit = Running, NEW how, Exit(how),
           how \notin {Running, OK} \/ (how = OK /\ todo = << >> /\ ~ latch)
    PROVE  OutputInv'
  <1>1. exit' = how /\ UNCHANGED <<todo, due, out, latch, refused>>
    BY DEF Exit
  <1> QED
    BY <1>1 DEF OutputInv, Sequenced, NothingLost, EndedWell

(* A step that prints nothing keeps the invariant of the output.           *)
LEMMA OutputKept == OutputInv /\ UNCHANGED outputVars => OutputInv'
  BY DEF outputVars, OutputInv, Sequenced, NothingLost, EndedWell

(* The renderers of get and describe give sequences of pieces.             *)
LEMMA KubePieces ==
    \A items : /\ \E Q : renderList(items) \in Seq(Q)
               /\ \A r \in renderDescribe(items) : \E Q : r \in Seq(Q)
  <1> TAKE items
  <1>1. \A p : << p >> \in Seq({p})
    OBVIOUS
  <1>2. \A p, q, r : << p, q >> \in Seq({p, q, r}) /\ Append(<< p, q >>, r) \in Seq({p, q, r})
    OBVIOUS
  <1>3. \E Q : renderList(items) \in Seq(Q)
    BY <1>1 DEF renderList, renderTable
  <1>4. ASSUME NEW r \in renderDescribe(items) PROVE \E Q : r \in Seq(Q)
    <2> DEFINE p == Show("latched", "metadata", items)
               q == Show("latched", "spec", items)
               t == Show("latched", "status", items)
    <2>1. r = << p, q >> \/ r = Append(<< p, q >>, t)
      BY <1>4 DEF renderDescribe
    <2> HIDE DEF p, q, t
    <2>2. << p, q >> \in Seq({p, q, t})
      BY <1>2
    <2>3. Append(<< p, q >>, t) \in Seq({p, q, t})
      BY <1>2
    <2> QED
      BY <2>1, <2>2, <2>3
  <1> QED
    BY <1>3, <1>4

OutputProof == OutputInv /\ OutputByStep

(* A command that has not begun has printed nothing.                       *)
LEMMA OutputInitially == CtlInit => OutputProof
  <1> SUFFICES ASSUME CtlInit PROVE OutputProof
    OBVIOUS
  <1>1. /\ todo = << >> /\ due = << >> /\ out = << >> /\ latch = FALSE /\ refused = << >>
        /\ exit = Running /\ step = "parse"
    BY DEF CtlInit, OutputInit, KubeInit
  <1>2. << >> \in Seq({}) /\ << >> = << >> \o << >>
    OBVIOUS
  <1>3. Sequenced
    BY <1>1, <1>2 DEF Sequenced
  <1>4. NothingLost
    BY <1>1, <1>2 DEF NothingLost
  <1> QED
    BY <1>1, <1>3, <1>4, RunningIsNotOK DEF OutputProof, OutputInv, EndedWell, OutputByStep

(* No reason to fail is success.                                           *)
LEMMA FailedIsNotOK ==
    /\ \A why : why \notin {"running", "ok"} => Failed(why) \notin {Running, OK}
    /\ \A ns : [kind |-> "notFound", namespace |-> ns] \notin {Running, OK}
    /\ apiError \notin {Running, OK}
  <1>1. Running.kind = "running" /\ OK.kind = "ok"
    BY DEF Running, OK
  <1>2. \A why : Failed(why).kind = why
    BY DEF Failed
  <1>3. apiError.kind \in {"problem", "unexpected"}
    BY DEF apiError
  <1>4. \A ns : [kind |-> "notFound", namespace |-> ns].kind = "notFound"
    OBVIOUS
  <1> QED
    BY <1>1, <1>2, <1>3, <1>4

(* No step of the invocation breaks the invariant of the output.           *)
LEMMA OutputNext == CommandByCall /\ OutputProof /\ [NewRootCommand]_ctlVars => OutputProof'
  <1> SUFFICES ASSUME CommandByCall, OutputInv, OutputByStep, [NewRootCommand]_ctlVars
               PROVE  OutputInv' /\ OutputByStep'
    BY DEF OutputProof
  <1>0. inv' = inv
    BY InvKept
  (* Steps that write, return, or touch the output not at all.             *)
  <1>1. ASSUME WriteStep, UNCHANGED step PROVE OutputInv' /\ OutputByStep'
    <2>1. OutputInv'
      BY <1>1, WriteKeeps
    <2>2. exit = Running /\ todo # << >> /\ due' = due
      BY <1>1 DEF WriteStep, WriteChecked, printf, Flush, Writing
    <2>3. ASSUME step = "watch" PROVE ~ latch' /\ \A i \in DOMAIN todo' : todo'[i].how = "checked"
      <3>1. PICK P : todo \in Seq(P)
        BY DEF OutputInv, Sequenced
      <3>2. Head(todo).how = "checked" /\ ~ latch
        BY <2>2, <2>3, <3>1 DEF OutputByStep
      <3>3. WriteChecked
        BY <1>1, <3>2 DEF WriteStep, printf, Flush
      <3>4. latch' = latch /\ (todo' = Tail(todo) \/ todo' = << >>)
        BY <3>3 DEF WriteChecked
      <3>5. \A i \in DOMAIN Tail(todo) : i + 1 \in DOMAIN todo /\ Tail(todo)[i] = todo[i + 1]
        BY <2>2, <3>1
      <3>6. \A i \in DOMAIN todo : todo[i].how = "checked"
        BY <2>3 DEF OutputByStep
      <3>7. \A i \in DOMAIN todo' : todo'[i].how = "checked"
        <4>1. CASE todo' = << >>
          BY <4>1
        <4>2. CASE todo' = Tail(todo)
          BY <3>5, <3>6, <4>2
        <4> QED
          BY <3>4, <4>1, <4>2
      <3> QED
        BY <3>2, <3>4, <3>7
    <2> QED
      BY <1>0, <1>1, <2>1, <2>2, <2>3 DEF OutputByStep
  <1>2. ASSUME RenderReturns, UNCHANGED step PROVE OutputInv' /\ OutputByStep'
    <2>1. OutputInv'
      BY <1>2, ReturnKeeps
    <2>2. UNCHANGED <<todo, due, latch>>
      BY <1>2 DEF RenderReturns
    <2> QED
      BY <1>0, <1>2, <2>1, <2>2 DEF OutputByStep
  <1>3. ASSUME UNCHANGED outputVars,
               step' = step \/ (step \in {"parse", "connect"} /\ step' \in {"connect", "request"})
        PROVE  OutputInv' /\ OutputByStep'
    <2>1. OutputInv'
      BY <1>3, OutputKept
    <2> QED
      BY <1>0, <1>3, <2>1 DEF outputVars, OutputByStep
  (* A failure, and the step it leaves the command in.                     *)
  <1>4. ASSUME exit = Running, NEW how, Exit(how), how \notin {Running, OK},
               step' = step \/ step' \in {"render", "done"}
        PROVE  OutputInv' /\ OutputByStep'
    <2>1. OutputInv'
      BY <1>4, ExitKeeps
    <2> QED
      BY <1>0, <1>4, <2>1 DEF Exit, OutputByStep
  (* A rendering onto an empty queue.                                      *)
  <1>5. ASSUME exit = Running, todo = << >>, NEW Q, NEW pieces \in Seq(Q), Render(pieces),
               step' = "render" \/ (inv.verb \notin KubeVerbs /\ UNCHANGED step)
        PROVE  OutputInv' /\ OutputByStep'
    <2>1. OutputInv'
      BY <1>5, RenderKeeps
    <2>2. PICK P : due \in Seq(P)
      BY DEF OutputInv, Sequenced
    <2>3. due \o pieces = << >> => pieces = << >>
      <3>1. due \in Seq(P \cup Q) /\ pieces \in Seq(P \cup Q)
        BY <1>5, <2>2
      <3> QED
        BY <3>1
    <2>4. step' # "watch"
      BY <1>5 DEF CommandByCall
    <2> QED
      BY <1>0, <1>5, <2>1, <2>3, <2>4 DEF Render, OutputByStep
  (* A line of a watch.                                                    *)
  <1>6. ASSUME exit = Running, todo = << >>, ~ latch, NEW p, p.how = "checked",
               Render(<< p >>), step' = "watch"
        PROVE  OutputInv' /\ OutputByStep'
    <2>1. << p >> \in Seq({p})
      OBVIOUS
    <2>2. OutputInv'
      BY <1>6, <2>1, RenderKeeps
    <2>3. PICK P : due \in Seq(P)
      BY DEF OutputInv, Sequenced
    <2>4. due \o << p >> # << >>
      <3>1. due \in Seq(P \cup {p}) /\ << p >> \in Seq(P \cup {p})
        BY <2>3
      <3> QED
        BY <3>1
    <2>5. \A i \in DOMAIN << p >> : << p >>[i] = p
      OBVIOUS
    <2>6. /\ due' # << >> /\ ~ latch'
          /\ \A i \in DOMAIN todo' : todo'[i].how = "checked"
      BY <1>6, <2>4, <2>5 DEF Render
    <2> QED
      BY <1>0, <1>6, <2>2, <2>6 DEF OutputByStep
  <1>7. CASE KubeNext
    <2>0. inv.verb \in KubeVerbs
      BY <1>7, KubeStepOfKubeVerb
    <2>1. CASE ParseArgs
      <3>1. CASE step' = "connect" /\ UNCHANGED outputVars
        BY <1>3, <2>1, <3>1 DEF ParseArgs, At
      <3>2. CASE UNCHANGED step /\ \E why \in {"badFormat", "badArgs", "unknownKind"} : Exit(Failed(why))
        BY <1>4, <2>1, <3>2, FailedIsNotOK DEF ParseArgs, At
      <3> QED
        BY <2>1, <3>1, <3>2 DEF ParseArgs
    <2>2. CASE newKubeContext
      <3>1. CASE step' = "request" /\ UNCHANGED outputVars
        BY <1>3, <2>2, <3>1 DEF newKubeContext, At
      <3>2. CASE UNCHANGED step /\ \E why \in {"badConfig", "watchOne"} : Exit(Failed(why))
        BY <1>4, <2>2, <3>2, FailedIsNotOK DEF newKubeContext, At
      <3> QED
        BY <2>2, <3>1, <3>2 DEF newKubeContext
    <2>3. CASE RequestFails
      BY <1>4, <2>3, FailedIsNotOK DEF RequestFails, Requested, At
    <2>4. CASE runGetList
      <3>1. todo = << >>
        BY <2>0, <2>4 DEF runGetList, At, OutputByStep
      <3>2. PICK Q : renderList(Listed) \in Seq(Q)
        BY KubePieces
      <3> QED
        BY <1>5, <2>4, <3>1, <3>2 DEF runGetList, At, Requested
    <2>5. CASE runGetOne
      <3>1. todo = << >> /\ exit = Running /\ step' = "render"
        BY <2>0, <2>5 DEF runGetOne, At, OutputByStep, Requested
      <3>2. CASE Exit([kind |-> "notFound", namespace |-> namespace])
        BY <1>4, <3>1, <3>2, FailedIsNotOK
      <3>3. ASSUME NEW pieces, Render(pieces), \E Q : pieces \in Seq(Q)
            PROVE  OutputInv' /\ OutputByStep'
        BY <1>5, <3>1, <3>3
      <3> QED
        BY <2>5, <3>2, <3>3, KubePieces DEF runGetOne
    <2>6. CASE runWatch
      <3>1. todo = << >> /\ ~ latch
        BY <2>0, <2>6 DEF runWatch, At, OutputByStep
      <3>2. Show("checked", "header", {}).how = "checked"
        BY DEF Show, Piece
      <3> QED
        BY <1>6, <2>6, <3>1, <3>2 DEF runWatch, At
    <2>7. CASE WatchRow
      <3>1. todo = << >> /\ ~ latch /\ step' = "watch"
        BY <2>7 DEF WatchRow, Reading, At, OutputByStep
      <3>2. Show("checked", Head(stream).type, {Head(stream).object}).how = "checked"
        BY DEF Show, Piece
      <3> QED
        BY <1>6, <2>7, <3>1, <3>2 DEF WatchRow, Reading, At
    <2>8. CASE WatchSkip
      BY <1>3, <2>8 DEF WatchSkip
    <2>9. CASE WatchEnds
      <3>1. todo = << >> /\ ~ latch /\ exit = Running /\ Exit(OK) /\ UNCHANGED step
        BY <2>9 DEF WatchEnds, Reading, At, OutputByStep
      <3>2. OutputInv'
        BY <3>1, ExitKeeps
      <3> QED
        BY <1>0, <3>1, <3>2 DEF Exit, OutputByStep
    <2>10. CASE KubeWrite
      BY <1>1, <2>10 DEF KubeWrite, kubeVars
    <2>11. CASE KubeReturn
      BY <1>2, <2>11 DEF KubeReturn, kubeVars
    <2>12. CASE Cluster
      BY <1>3, <2>12 DEF Cluster, CreateObject, DeleteObject, SendStatus, CloseWatch
    <2> QED
      BY <1>7, <2>1, <2>2, <2>3, <2>4, <2>5, <2>6, <2>7, <2>8, <2>9, <2>10, <2>11, <2>12
         DEF KubeNext, KubeCommand
  <1>8. CASE SendRequest /\ UNCHANGED kubeVars
    <2>1. PICK r : Do(inv.verb, r)
      BY <1>8, SendsMeant
    <2>2. CASE Exit(Failed("badURL"))
      BY <1>4, <1>8, <2>1, <2>2, FailedIsNotOK DEF Do, kubeVars
    <2>3. CASE UNCHANGED outputVars
      BY <1>3, <1>8, <2>3 DEF kubeVars
    <2> QED
      BY <2>1, <2>2, <2>3 DEF Do
  <1>9. CASE (DoFails \/ notImplemented) /\ UNCHANGED kubeVars
    BY <1>4, <1>9, FailedIsNotOK DEF DoFails, notImplemented, kubeVars
  <1>10. CASE ReceiveAnswer /\ UNCHANGED kubeVars
    <2>1. PICK st, rs : Receive(inv.verb, st, rs) /\ \A r \in rs : \E Q : r \in Seq(Q)
      BY <1>10, ReceivesOK
    <2>2. inv.verb \in ApiVerbs /\ inv.verb \notin KubeVerbs
      BY <1>10, ReceivesOK, VerbsApart
    <2>3. exit = Running /\ todo = << >> /\ UNCHANGED step
      BY <1>10, <2>1, <2>2 DEF Receive, CommandByCall, kubeVars
    <2>4. CASE \E r \in rs : Render(r)
      BY <1>5, <2>1, <2>2, <2>3, <2>4
    <2>5. CASE Exit(apiError)
      BY <1>4, <2>3, <2>5, FailedIsNotOK
    <2> QED
      BY <2>1, <2>4, <2>5 DEF Receive
  <1>11. CASE version /\ UNCHANGED kubeVars
    <2>1. /\ exit = Running /\ todo = << >> /\ inv.verb \notin KubeVerbs /\ UNCHANGED step
          /\ Render(<< Piece("checked", "version") >>)
      BY <1>11 DEF version, OutputByStep, KubeVerbs, kubeVars
    <2>2. \A p : << p >> \in Seq({p})
      OBVIOUS
    <2> QED
      BY <1>5, <2>1, <2>2
  <1>12. CASE ApiWrite /\ UNCHANGED kubeVars
    BY <1>1, <1>12 DEF ApiWrite, kubeVars
  <1>13. CASE ApiReturn /\ UNCHANGED kubeVars
    BY <1>2, <1>13 DEF ApiReturn, kubeVars
  <1>14. CASE ServeRequest /\ UNCHANGED kubeVars
    BY <1>3, <1>14 DEF ServeRequest, kubeVars
  <1>15. CASE UNCHANGED ctlVars
    BY <1>3, <1>15 DEF ctlVars, kubeVars
  <1> QED
    BY <1>7, <1>8, <1>9, <1>10, <1>11, <1>12, <1>13, <1>14, <1>15 DEF NewRootCommand, ApiNext

(* The output's invariant, beside the command's.                           *)
THEOREM OutputInvariant == CtlSpec => []OutputProof
  BY OutputInitially, OutputNext, CommandInvariant, PTL DEF CtlSpec

(* Exit 0 means that the output took everything, for every number and      *)
(* placing of refused writes, but for a table lost in a dropped Flush.     *)
THEOREM OutputTruthful == CtlSpec => []OutputReported
  <1>1. OutputProof => OutputReported
    <2> SUFFICES ASSUME OutputInv, exit = OK PROVE OutputReported
      BY DEF OutputProof, OutputReported
    <2>1. /\ refused = << >> => due = out \o << >>
          /\ \A i \in DOMAIN refused : refused[i] = "flush"
          /\ \A i \in DOMAIN due : due[i].how # "flush" => \E j \in DOMAIN out : out[j] = due[i]
      <3>1. todo = << >> /\ ~ latch
        BY DEF OutputInv, EndedWell
      <3>2. ~ \E j \in DOMAIN << >> : TRUE
        OBVIOUS
      <3> QED
        BY <3>1, <3>2 DEF OutputInv, NothingLost
    <2>2. PICK P : out \in Seq(P)
      BY DEF OutputInv, Sequenced
    <2>3. PICK H : refused \in Seq(H)
      BY DEF OutputInv, Sequenced
    <2>4. CASE refused = << >>
      BY <2>1, <2>2, <2>4 DEF OutputReported
    <2>5. CASE refused # << >>
      <3>1. 1 \in DOMAIN refused
        BY <2>3, <2>5
      <3> QED
        BY <2>1, <3>1 DEF OutputReported
    <2> QED
      BY <2>4, <2>5
  <1> QED
    BY <1>1, OutputInvariant, PTL

-----------------------------------------------------------------------------
(* The registry gives every documented alias to its own resource, and      *)
(* knows no other alias.                                                   *)
LEMMA RegistryRows ==
    /\ DOMAIN keleustesKinds = 1..15
    /\ \A i \in 1..15 : /\ keleustesKinds[i].Resource \in DOMAIN Means
                         /\ keleustesKinds[i].Resource # ""
                         /\ keleustesKinds[i].Aliases = Means[keleustesKinds[i].Resource]
    /\ \A k \in DOMAIN Means : \E i \in 1..15 : keleustesKinds[i].Resource = k
    /\ \A i, j \in 1..15 : keleustesKinds[i].Resource = keleustesKinds[j].Resource => i = j
  <1>1. DOMAIN keleustesKinds = 1..15
    BY DEF keleustesKinds
  <1>2. ASSUME NEW i \in 1..15
        PROVE  /\ keleustesKinds[i].Resource \in DOMAIN Means
               /\ keleustesKinds[i].Resource # ""
               /\ keleustesKinds[i].Aliases = Means[keleustesKinds[i].Resource]
    <2> DEFINE Good(j) == /\ keleustesKinds[j].Resource \in DOMAIN Means
                          /\ keleustesKinds[j].Resource # ""
                          /\ keleustesKinds[j].Aliases = Means[keleustesKinds[j].Resource]
    <2>1. Good(1) /\ Good(2) /\ Good(3) /\ Good(4) /\ Good(5)
      BY DEF keleustesKinds, Row, Means
    <2>2. Good(6) /\ Good(7) /\ Good(8) /\ Good(9) /\ Good(10)
      BY DEF keleustesKinds, Row, Means
    <2>3. Good(11) /\ Good(12) /\ Good(13) /\ Good(14) /\ Good(15)
      BY DEF keleustesKinds, Row, Means
    <2>4. i \in {1, 2, 3, 4, 5, 6, 7, 8, 9, 10, 11, 12, 13, 14, 15}
      OBVIOUS
    <2> HIDE DEF Good
    <2>5. Good(i)
      BY <2>1, <2>2, <2>3, <2>4
    <2> QED
      BY <2>5 DEF Good
  <1>3. ASSUME NEW k \in DOMAIN Means PROVE \E i \in 1..15 : keleustesKinds[i].Resource = k
    <2>1. /\ keleustesKinds[1].Resource = "applications" /\ keleustesKinds[2].Resource = "sources"
          /\ keleustesKinds[3].Resource = "releases" /\ keleustesKinds[4].Resource = "deployments"
          /\ keleustesKinds[5].Resource = "environments" /\ keleustesKinds[6].Resource = "cells"
          /\ keleustesKinds[7].Resource = "deploymenttargets" /\ keleustesKinds[8].Resource = "promotions"
          /\ keleustesKinds[9].Resource = "promotionpolicies" /\ keleustesKinds[10].Resource = "approvals"
          /\ keleustesKinds[11].Resource = "freezewindows" /\ keleustesKinds[12].Resource = "syncplans"
          /\ keleustesKinds[13].Resource = "syncruns" /\ keleustesKinds[14].Resource = "healthchecks"
          /\ keleustesKinds[15].Resource = "notifiers"
      BY DEF keleustesKinds, Row
    <2>2. k \in {"applications", "sources", "releases", "deployments", "environments", "cells",
                "deploymenttargets", "promotions", "promotionpolicies", "approvals",
                "freezewindows", "syncplans", "syncruns", "healthchecks", "notifiers"}
      BY DEF Means
    <2> QED
      BY <2>1, <2>2
  <1>4. ASSUME NEW i \in 1..15, NEW j \in 1..15,
               keleustesKinds[i].Resource = keleustesKinds[j].Resource
        PROVE  i = j
    BY <1>4 DEF keleustesKinds, Row
  <1> QED
    BY <1>1, <1>2, <1>3, <1>4

(* An alias means one kind.                                                *)
LEMMA AliasesApart ==
    ASSUME NEW k \in DOMAIN Means, NEW l \in DOMAIN Means, NEW a, a \in Means[k], a \in Means[l]
    PROVE  k = l
  BY DEF Means

(* resolveKind finds what an alias means, in any case, and nothing for     *)
(* other words.                                                            *)
LEMMA AliasResolved ==
    ASSUME NEW s
    PROVE  /\ \A k \in DOMAIN Means : s.letters \in Means[k] => resolveKind(s) = k
           /\ (\A k \in DOMAIN Means : s.letters \notin Means[k]) => resolveKind(s) = ""
           /\ resolveKind(s) # "" => \E k \in DOMAIN Means : s.letters \in Means[k]
  <1> DEFINE a == s.letters
             Hits == {i \in DOMAIN keleustesKinds : a \in keleustesKinds[i].Aliases}
  <1>1. resolveKind(s) = IF Hits = {} THEN ""
                         ELSE keleustesKinds[CHOOSE i \in Hits : \A j \in Hits : i <= j].Resource
    <2>1. \A x, y : Lowercase(x) = Lowercase(y) <=> x = y
      BY DEF Lowercase
    <2>2. Hits = {i \in DOMAIN keleustesKinds :
                      \E alias \in keleustesKinds[i].Aliases : ToLower(s) = Lowercase(alias)}
      BY <2>1, Zenon DEF ToLower
    <2> HIDE DEF Hits
    <2> QED  BY <2>2 DEF resolveKind
  <1> HIDE DEF a
  <1>2. \A i \in Hits : /\ i \in 1..15 /\ keleustesKinds[i].Resource \in DOMAIN Means
                       /\ a \in Means[keleustesKinds[i].Resource]
    BY RegistryRows
  <1>3. \A i, j \in Hits : i = j
    <2> SUFFICES ASSUME NEW i \in Hits, NEW j \in Hits PROVE i = j
      OBVIOUS
    <2>1. keleustesKinds[i].Resource = keleustesKinds[j].Resource
      BY <1>2, AliasesApart
    <2> QED
      BY <1>2, <2>1, RegistryRows
  <1>4. Hits # {} => \E i \in Hits : \A j \in Hits : i <= j
    BY <1>2, <1>3
  <1>5. ASSUME NEW k \in DOMAIN Means, a \in Means[k] PROVE Hits # {}
    <2>1. PICK i \in 1..15 : keleustesKinds[i].Resource = k
      BY RegistryRows
    <2>2. i \in Hits
      BY <1>5, <2>1, RegistryRows
    <2> QED
      BY <2>2
  <1> HIDE DEF Hits
  <1> DEFINE hit == CHOOSE i \in Hits : \A j \in Hits : i <= j
  <1>6. Hits # {} => hit \in Hits
    BY <1>4
  <1> HIDE DEF hit
  <1> QED
    BY <1>1, <1>2, <1>5, <1>6, AliasesApart DEF hit, a

(* What the user may be shown.                                             *)
Asked(o) ==
    /\ o[1] = inv.means
    /\ inv.ns = o[2] \/ (inv.verb = "get" /\ inv.allNamespaces)
    /\ inv.name \in {"", o[3]}

ListShown == due[1].what.objects = {o \in asked : inv.allNamespaces \/ o[2] = inv.ns}

(* Nothing is shown before the API server has answered; what it answers,   *)
(* and every event under way, is what the user asked for.                  *)
AnswerByStep ==
    inv.verb \in KubeVerbs =>
        /\ cluster \subseteq Namespaces \X Names
        /\ step \in {"connect", "request"} => Resource # ""
        /\ step \in {"parse", "connect", "request"} => due = << >>
        /\ exit.kind = "notFound" =>
              /\ step = "render" /\ inv.name # ""
              /\ <<inv.means, exit.namespace, inv.name>> \notin asked
        /\ (inv.verb = "get" /\ step = "render" /\ inv.name = "") => due # << >> /\ ListShown
        /\ open => step = "watch"
        /\ step = "watch" => inv.verb = "get" /\ inv.name = ""
        /\ \E E : stream \in Seq(E)
        /\ \A i \in DOMAIN stream : stream[i].type # "ERROR" => Asked(stream[i].object)
        /\ \A i \in DOMAIN due : \A o \in due[i].what.objects : Asked(o)

AnswerInv == inv \in Invocations /\ AnswerByStep

(* A pair is the sequence of its two parts.                                *)
LEMMA Pair == ASSUME NEW S, NEW T, NEW o \in S \X T PROVE o = << o[1], o[2] >>
  OBVIOUS

(* A kind before a namespaced name is an object.                           *)
LEMMA Triple == \A m, a, b : << m >> \o << a, b >> = << m, a, b >>
  <1> TAKE m, a, b
  <1> DEFINE S == {m, a, b}
             l == << m >> \o << a, b >>
             r == << m, a, b >>
  <1>1. /\ << m >> \in Seq(S) /\ << a, b >> \in Seq(S) /\ r \in Seq(S)
        /\ Len(<< m >>) = 1 /\ Len(<< a, b >>) = 2 /\ Len(r) = 3
    OBVIOUS
  <1>2. l \in Seq(S) /\ Len(l) = 3
    BY <1>1
  <1>3. l[1] = << m >>[1] /\ l[2] = << a, b >>[1] /\ l[3] = << a, b >>[2]
    BY <1>1
  <1>4. /\ r[1] = m /\ r[2] = a /\ r[3] = b
        /\ << m >>[1] = m /\ << a, b >>[1] = a /\ << a, b >>[2] = b
    OBVIOUS
  <1> HIDE DEF l, r
  <1>5. \A i \in 1..3 : l[i] = r[i]
    BY <1>3, <1>4
  <1>6. l = r
    BY <1>1, <1>2, <1>5, SeqEqual
  <1> QED
    BY <1>6 DEF l, r

(* The objects of the resource asked for.                                  *)
LEMMA HeldObjects ==
    ASSUME inv \in Invocations, inv.verb \in KubeVerbs, Resource # "",
           cluster \subseteq Namespaces \X Names
    PROVE  /\ Resource = inv.means /\ inv.ns # ""
           /\ Holds(Resource) = {<< inv.means, o[1], o[2] >> : o \in cluster}
           /\ IsFiniteSet(Holds(Resource))
  <1>1. Resource = inv.means /\ inv.ns # ""
    <2>1. \/ inv.means \in DOMAIN Means /\ inv.alias.letters \in Means[inv.means]
          \/ \A k \in DOMAIN Means : inv.alias.letters \notin Means[k]
      BY InvocationsAssumption
    <2> QED
      BY <2>1, AliasResolved, InvocationsAssumption DEF Resource
  <1>2. ASSUME NEW o \in cluster PROVE << inv.means >> \o o = << inv.means, o[1], o[2] >>
    <2>1. o \in Namespaces \X Names
      OBVIOUS
    <2>2. o = << o[1], o[2] >>
      BY <2>1, Pair
    <2> QED
      BY <2>2, Triple, Zenon
  <1>3. Holds(Resource) = {<< inv.means, o[1], o[2] >> : o \in cluster}
    BY <1>1, <1>2 DEF Holds
  <1>4. IsFiniteSet(cluster)
    BY InvocationsAssumption, FS_Product, FS_Subset
  <1>5. IsFiniteSet(Holds(Resource))
    <2> DEFINE f == [o \in cluster |-> << inv.means, o[1], o[2] >>]
    <2>1. f \in Surjection(cluster, Holds(Resource))
      BY <1>3 DEF Surjection
    <2> QED
      BY <1>4, <2>1, FS_Surjection
  <1> QED
    BY <1>1, <1>3, <1>5

(* List and Get ask for what the command line asks for.                    *)
LEMMA ListedAsked ==
    ASSUME inv \in Invocations, inv.verb \in KubeVerbs, Resource # "",
           cluster \subseteq Namespaces \X Names
    PROVE  /\ inv.name = "" => \A o \in Listed : Asked(o)
           /\ inv.verb = "get" =>
                 Listed = {o \in Holds(Resource) : inv.allNamespaces \/ o[2] = inv.ns}
           /\ \A o \in Fetched : Asked(o)
           /\ Fetched = {} => << inv.means, namespace, inv.name >> \notin Holds(Resource)
           /\ IsFiniteSet(Listed)
  <1>1. /\ Holds(Resource) = {<< inv.means, o[1], o[2] >> : o \in cluster}
        /\ inv.ns # "" /\ IsFiniteSet(Holds(Resource))
    BY HeldObjects
  <1>0. ASSUME NEW o \in Holds(Resource) PROVE o[1] = inv.means
    <2>1. PICK c \in cluster : o = << inv.means, c[1], c[2] >>
      BY <1>0, <1>1
    <2> QED
      BY <2>1
  <1>2. ASSUME inv.name = "", NEW o \in Listed PROVE Asked(o)
    BY <1>0, <1>1, <1>2 DEF Listed, InScope, namespace, Asked
  <1>3. ASSUME inv.verb = "get"
        PROVE  Listed = {o \in Holds(Resource) : inv.allNamespaces \/ o[2] = inv.ns}
    BY <1>1, <1>3 DEF Listed, InScope, namespace
  <1>4. ASSUME NEW o \in Fetched PROVE Asked(o)
    BY <1>0, <1>1, <1>4 DEF Fetched, namespace, Asked
  <1>5. Fetched = {} => << inv.means, namespace, inv.name >> \notin Holds(Resource)
    <2> DEFINE t == << inv.means, namespace, inv.name >>
    <2>1. t[2] = namespace /\ t[3] = inv.name
      OBVIOUS
    <2> HIDE DEF t
    <2>2. Fetched = {} => t \notin Holds(Resource)
      BY <2>1 DEF Fetched
    <2> QED
      BY <2>2 DEF t
  <1>6. IsFiniteSet(Listed)
    BY <1>1, FS_Subset DEF Listed
  <1> QED
    BY <1>2, <1>3, <1>4, <1>5, <1>6

(* The events a watch begins with.                                         *)
LEMMA FirstEvents ==
    ASSUME NEW S, IsFiniteSet(S)
    PROVE  LET first == [i \in 1..Cardinality(S) |-> Event("ADDED", SetToSeq(S)[i])]
           IN  /\ \E E : first \in Seq(E)
               /\ \A i \in DOMAIN first : first[i].object \in S /\ first[i].type = "ADDED"
  <1> DEFINE n == Cardinality(S)
             f == SetToSeq(S)
             first == [i \in 1..n |-> Event("ADDED", f[i])]
  <1>1. n \in Nat /\ ExistsBijection(1..n, S)
    BY FS_CardinalityType
  <1>2. PICK g \in [1..n -> S] : IsInjective(g)
    BY <1>1 DEF ExistsBijection, Bijection, Injection, IsInjective
  <1>3. f \in [1..n -> S]
    BY <1>2 DEF SetToSeq
  <1> HIDE DEF n, f
  <1>4. first \in Seq({Event("ADDED", f[i]) : i \in 1..n})
    BY <1>1
  <1>5. \A i \in DOMAIN first : first[i].object \in S /\ first[i].type = "ADDED"
    BY <1>3 DEF Event
  <1> QED
    BY <1>4, <1>5 DEF n, f

(* What the renderers show.                                                *)
LEMMA PieceShows ==
    \A how, part, items : Show(how, part, items).what.objects = items
  BY DEF Show, Piece

(* The renderers show the objects they are given.                          *)
LEMMA RenderersShow ==
    \A items : /\ renderList(items) # << >> /\ renderList(items)[1].what.objects = items
               /\ \A i \in DOMAIN renderList(items) : renderList(items)[i].what.objects = items
               /\ \A r \in renderDescribe(items) :
                     \A i \in DOMAIN r : r[i].what.objects = items
  <1> TAKE items
  <1>1. \A p : << p >> # << >> /\ << p >>[1] = p /\ \A i \in DOMAIN << p >> : << p >>[i] = p
    OBVIOUS
  <1>2. PICK how : renderList(items) = << Show(how, "rows", items) >>
    BY DEF renderList, renderTable
  <1>3. ASSUME NEW r \in renderDescribe(items), NEW i \in DOMAIN r PROVE r[i].what.objects = items
    <2> DEFINE p == Show("latched", "metadata", items)
               q == Show("latched", "spec", items)
               t == Show("latched", "status", items)
    <2>1. r = << p, q >> \/ r = Append(<< p, q >>, t)
      BY <1>3 DEF renderDescribe
    <2>2. p.what.objects = items /\ q.what.objects = items /\ t.what.objects = items
      BY PieceShows
    <2> HIDE DEF p, q, t
    <2>3. CASE r = << p, q >>
      BY <1>3, <2>2, <2>3
    <2>4. CASE r = Append(<< p, q >>, t)
      <3> DEFINE d == << p, q >>
      <3>1. d \in Seq({p, q, t}) /\ \A j \in DOMAIN d : d[j] \in {p, q}
        OBVIOUS
      <3> HIDE DEF d
      <3>2. \A j \in DOMAIN Append(d, t) : Append(d, t)[j] \in {p, q, t}
        BY <3>1
      <3> QED
        BY <1>3, <2>2, <2>4, <3>2 DEF d
    <2> QED
      BY <2>1, <2>3, <2>4
  <1> QED
    BY <1>1, <1>2, <1>3, PieceShows

(* Appending pieces that show what was asked for, to such pieces.          *)
LEMMA ShownAppended ==
    ASSUME OutputInv, \A i \in DOMAIN due : \A o \in due[i].what.objects : Asked(o),
           NEW Q, NEW pieces \in Seq(Q), Render(pieces), inv' = inv,
           \A i \in DOMAIN pieces : \A o \in pieces[i].what.objects : Asked(o)
    PROVE  /\ \A i \in DOMAIN due' : \A o \in due'[i].what.objects : Asked(o)'
           /\ due = << >> => due' = pieces
  <1>1. PICK P : due \in Seq(P)
    BY DEF OutputInv, Sequenced
  <1>2. due \in Seq(P \cup Q) /\ pieces \in Seq(P \cup Q)
    BY <1>1
  <1>3. due' = due \o pieces
    BY DEF Render
  <1>4. ASSUME NEW i \in DOMAIN (due \o pieces)
        PROVE  \/ i \in DOMAIN due /\ (due \o pieces)[i] = due[i]
               \/ i - Len(due) \in DOMAIN pieces /\ (due \o pieces)[i] = pieces[i - Len(due)]
    BY <1>2
  <1>5. \A o : Asked(o)' <=> Asked(o)
    BY DEF Asked
  <1>6. due = << >> => due' = pieces
    BY <1>2, <1>3
  <1> QED
    BY <1>3, <1>4, <1>5, <1>6

(* A command that has not begun shows nothing.                             *)
LEMMA AnswerInit == CtlInit => AnswerInv
  <1> SUFFICES ASSUME CtlInit PROVE inv \in Invocations /\ AnswerByStep
    BY DEF AnswerInv
  <1>1. /\ due = << >> /\ stream = << >> /\ exit.kind = "running" /\ step = "parse" /\ ~ open
        /\ inv \in Invocations
    BY DEF CtlInit, OutputInit, KubeInit, Running
  <1>2. inv.verb \in KubeVerbs => cluster \subseteq Namespaces \X Names
    BY DEF CtlInit, KubeInit
  <1>3. \E E : stream \in Seq(E)
    BY <1>1
  <1> QED
    BY <1>1, <1>2, <1>3 DEF AnswerByStep

(* No step of the command or of the cluster makes an answer wrong.         *)
LEMMA AnswerNext ==
    CommandByCall /\ OutputProof /\ AnswerInv /\ [NewRootCommand]_ctlVars => AnswerInv'
  <1> SUFFICES ASSUME CommandByCall, OutputProof, inv \in Invocations, AnswerByStep,
                      [NewRootCommand]_ctlVars
               PROVE  inv' \in Invocations /\ AnswerByStep'
    BY DEF AnswerInv
  <1>g. inv' = inv
    BY InvKept
  <1>h. inv.verb \notin KubeVerbs => AnswerByStep'
    BY <1>g DEF AnswerByStep
  <1> SUFFICES ASSUME inv.verb \in KubeVerbs PROVE AnswerByStep'
    BY <1>g, <1>h
  <1>0. inv' = inv /\ Resource' = Resource /\ namespace' = namespace /\ (\A o : Asked(o)' <=> Asked(o))
    <2>1. Resource' = Resource
      BY <1>g DEF Resource
    <2>2. namespace' = namespace /\ \A o : Asked(o)' <=> Asked(o)
      BY <1>g DEF namespace, Asked
    <2> QED
      BY <1>g, <2>1, <2>2
  <1>a. cluster \subseteq Namespaces \X Names
    BY DEF AnswerByStep
  <1>b. OutputInv /\ \A i \in DOMAIN due : \A o \in due[i].what.objects : Asked(o)
    BY DEF OutputProof, AnswerByStep
  <1>c. PICK E : stream \in Seq(E)
    BY DEF AnswerByStep
  (* Steps that leave the answer alone, and end in no "not found".         *)
  <1>1. ASSUME UNCHANGED <<due, asked, stream, open, cluster>>,
               exit' = exit \/ exit'.kind # "notFound",
               \/ step' = step
               \/ step \in {"parse", "connect"} /\ step' \in {"connect", "request"} /\ Resource # ""
        PROVE  AnswerByStep'
    BY <1>0, <1>1 DEF AnswerByStep, ListShown
  <1>2. CASE WriteStep /\ UNCHANGED kubeVars
    <2>1. due' = due /\ exit' \in {exit, WriteError}
      BY <1>2 DEF WriteStep, WriteChecked, printf, Flush
    <2> QED
      BY <1>1, <1>2, <2>1 DEF kubeVars, WriteError
  <1>3. CASE RenderReturns /\ UNCHANGED kubeVars
    BY <1>1, <1>3 DEF RenderReturns, kubeVars, WriteError, OK
  <1>4. CASE ParseArgs
    <2>1. CASE step' = "connect" /\ UNCHANGED outputVars
      <3>1. Resource # ""
        <4>1. step' # step
          BY <1>4, <2>1 DEF ParseArgs, At
        <4> QED
          BY <1>4, <4>1 DEF ParseArgs
      <3>2. step = "parse" /\ exit' = exit /\ UNCHANGED <<due, asked, stream, open, cluster>>
        BY <1>4, <2>1 DEF ParseArgs, At, outputVars
      <3> QED
        BY <1>1, <2>1, <3>1, <3>2
    <2>2. CASE UNCHANGED step /\ \E why \in {"badFormat", "badArgs", "unknownKind"} : Exit(Failed(why))
      <3>1. exit'.kind # "notFound" /\ due' = due
        BY <2>2 DEF Exit, Failed
      <3>2. UNCHANGED <<asked, stream, open, cluster>>
        BY <1>4 DEF ParseArgs
      <3> QED
        BY <1>1, <2>2, <3>1, <3>2
    <2> QED
      BY <1>4, <2>1, <2>2 DEF ParseArgs
  <1>5. CASE newKubeContext
    <2>1. CASE step' = "request" /\ UNCHANGED outputVars
      <3>1. Resource # "" /\ step = "connect"
        BY <1>5 DEF newKubeContext, At, AnswerByStep
      <3>2. exit' = exit /\ UNCHANGED <<due, asked, stream, open, cluster>>
        BY <1>5, <2>1 DEF newKubeContext, outputVars
      <3> QED
        BY <1>1, <2>1, <3>1, <3>2
    <2>2. CASE UNCHANGED step /\ \E why \in {"badConfig", "watchOne"} : Exit(Failed(why))
      <3>1. exit'.kind # "notFound" /\ due' = due
        BY <2>2 DEF Exit, Failed
      <3>2. UNCHANGED <<asked, stream, open, cluster>>
        BY <1>5 DEF newKubeContext
      <3> QED
        BY <1>1, <2>2, <3>1, <3>2
    <2> QED
      BY <1>5, <2>1, <2>2 DEF newKubeContext
  <1>6. CASE RequestFails
    <2>1. /\ exit'.kind = "failed" /\ step' = "done" /\ UNCHANGED <<due, stream, open, cluster>>
          /\ step = "request"
      BY <1>6 DEF RequestFails, Requested, At, Exit, Failed
    <2> QED
      BY <1>0, <2>1 DEF AnswerByStep
  <1>7. CASE runGetList
    <2>1. /\ step = "request" /\ exit = Running /\ inv.name = "" /\ inv.verb = "get"
          /\ Render(renderList(Listed)) /\ step' = "render" /\ asked' = Holds(Resource)
          /\ UNCHANGED <<cluster, stream, open>>
      BY <1>7 DEF runGetList, At, Requested
    <2>2. Resource # "" /\ due = << >>
      BY <2>1 DEF AnswerByStep
    <2>3. /\ \A o \in Listed : Asked(o)
          /\ Listed = {o \in Holds(Resource) : inv.allNamespaces \/ o[2] = inv.ns}
      BY <1>a, <2>1, <2>2, ListedAsked
    <2>4. PICK Q : renderList(Listed) \in Seq(Q)
      BY KubePieces
    <2>5. /\ \A i \in DOMAIN due' : \A o \in due'[i].what.objects : Asked(o)'
          /\ due' = renderList(Listed)
      <3>1. \A i \in DOMAIN renderList(Listed) :
                \A o \in renderList(Listed)[i].what.objects : Asked(o)
        BY <2>3, RenderersShow
      <3> QED
        BY <1>0, <1>b, <2>1, <2>2, <2>4, <3>1, ShownAppended
    <2>6. due' # << >> /\ ListShown'
      BY <1>0, <2>1, <2>3, <2>5, RenderersShow DEF ListShown
    <2>7. exit'.kind = "running"
      BY <2>1 DEF Render, Running
    <2> QED
      BY <1>0, <2>1, <2>5, <2>6, <2>7 DEF AnswerByStep
  <1>8. CASE runGetOne
    <2>1. /\ step = "request" /\ exit = Running /\ inv.name # ""
          /\ step' = "render" /\ asked' = Holds(Resource)
          /\ UNCHANGED <<cluster, stream, open>>
      BY <1>8 DEF runGetOne, At, Requested
    <2>2. Resource # "" /\ due = << >>
      BY <2>1 DEF AnswerByStep
    <2>3. /\ \A o \in Fetched : Asked(o)
          /\ Fetched = {} => << inv.means, namespace, inv.name >> \notin Holds(Resource)
      BY <1>a, <2>2, ListedAsked
    <2>4. CASE Fetched = {} /\ Exit([kind |-> "notFound", namespace |-> namespace])
      <3>1. exit'.namespace = namespace /\ due' = due
        BY <2>4 DEF Exit
      <3> QED
        BY <1>0, <2>1, <2>2, <2>3, <2>4, <3>1 DEF AnswerByStep
    <2>5. ASSUME NEW pieces, NEW Q, pieces \in Seq(Q), Render(pieces),
                 \A i \in DOMAIN pieces : pieces[i].what.objects = Fetched
          PROVE  AnswerByStep'
      <3>1. \A i \in DOMAIN due' : \A o \in due'[i].what.objects : Asked(o)'
        BY <1>0, <1>b, <2>3, <2>5, ShownAppended
      <3>2. exit'.kind = "running"
        BY <2>1, <2>5 DEF Render, Running
      <3> QED
        BY <1>0, <2>1, <3>1, <3>2 DEF AnswerByStep
    <2>6. CASE Render(renderList(Fetched))
      BY <2>5, <2>6, KubePieces, RenderersShow
    <2>7. CASE \E pieces \in renderDescribe(Fetched) : Render(pieces)
      BY <2>5, <2>7, KubePieces, RenderersShow
    <2> QED
      BY <1>8, <2>4, <2>6, <2>7 DEF runGetOne
  <1>9. CASE runWatch
    <2> DEFINE first == [i \in 1..Cardinality(Listed) |-> Event("ADDED", SetToSeq(Listed)[i])]
               header == Show("checked", "header", {})
    <2>1. /\ step = "request" /\ exit = Running /\ inv.name = "" /\ inv.verb = "get"
          /\ Render(<< header >>) /\ step' = "watch" /\ stream' = first /\ UNCHANGED cluster
      BY <1>9 DEF runWatch, At
    <2>2. Resource # "" /\ due = << >>
      BY <2>1 DEF AnswerByStep
    <2>3. IsFiniteSet(Listed) /\ \A o \in Listed : Asked(o)
      BY <1>a, <2>1, <2>2, ListedAsked
    <2>4. (\E F : first \in Seq(F)) /\ \A i \in DOMAIN first : first[i].object \in Listed
      BY <2>3, FirstEvents
    <2>5. header.what.objects = {}
      BY PieceShows
    <2> HIDE DEF first, header
    <2>6. << header >> \in Seq({header}) /\ \A i \in DOMAIN << header >> : << header >>[i] = header
      OBVIOUS
    <2>7. \A i \in DOMAIN due' : \A o \in due'[i].what.objects : Asked(o)'
      BY <1>0, <1>b, <2>1, <2>5, <2>6, ShownAppended
    <2>8. exit'.kind = "running"
      BY <2>1 DEF Render, Running
    <2> QED
      BY <1>0, <2>1, <2>3, <2>4, <2>7, <2>8 DEF AnswerByStep
  (* Reading the head of the stream.                                       *)
  <1>d. ASSUME stream # << >>
        PROVE  /\ Head(stream).type # "ERROR" => Asked(Head(stream).object)
               /\ Tail(stream) \in Seq(E)
               /\ \A i \in DOMAIN Tail(stream) :
                     Tail(stream)[i].type # "ERROR" => Asked(Tail(stream)[i].object)
    <2>1. /\ 1 \in DOMAIN stream /\ Head(stream) = stream[1] /\ Tail(stream) \in Seq(E)
          /\ \A i \in DOMAIN Tail(stream) : i + 1 \in DOMAIN stream /\ Tail(stream)[i] = stream[i + 1]
      BY <1>c, <1>d
    <2>2. \A i \in DOMAIN stream : stream[i].type # "ERROR" => Asked(stream[i].object)
      BY DEF AnswerByStep
    <2> QED
      BY <2>1, <2>2
  <1>10. CASE WatchRow
    <2> DEFINE row == Show("checked", Head(stream).type, {Head(stream).object})
    <2>1. /\ step = "watch" /\ step' = "watch" /\ exit = Running /\ stream # << >>
          /\ Head(stream).type # "ERROR" /\ Render(<< row >>) /\ stream' = Tail(stream)
          /\ UNCHANGED cluster
      BY <1>10 DEF WatchRow, Reading, At
    <2>2. \A o \in row.what.objects : Asked(o)
      BY <1>d, <2>1, PieceShows
    <2> HIDE DEF row
    <2>3. << row >> \in Seq({row}) /\ \A i \in DOMAIN << row >> : << row >>[i] = row
      OBVIOUS
    <2>4. \A i \in DOMAIN due' : \A o \in due'[i].what.objects : Asked(o)'
      BY <1>0, <1>b, <2>1, <2>2, <2>3, ShownAppended
    <2>5. exit'.kind = "running"
      BY <2>1 DEF Render, Running
    <2> QED
      BY <1>0, <1>d, <2>1, <2>4, <2>5 DEF AnswerByStep
  <1>11. CASE WatchSkip
    <2>1. /\ stream # << >> /\ stream' = Tail(stream)
          /\ UNCHANGED <<due, exit, asked, open, cluster, step>>
      BY <1>11 DEF WatchSkip, outputVars
    <2> QED
      BY <1>0, <1>d, <2>1 DEF AnswerByStep, ListShown
  <1>12. CASE WatchEnds
    BY <1>1, <1>12 DEF WatchEnds, Exit, OK
  (* The cluster changes, and an open watch hears of it.                   *)
  <1>e. ASSUME NEW ev, ev.type # "ERROR" => Asked(ev.object),
               stream' \in {stream, Append(stream, ev)}, cluster' \subseteq Namespaces \X Names,
               UNCHANGED <<due, exit, asked, step, open>>
        PROVE  AnswerByStep'
    <2>1. \A i \in DOMAIN stream : stream[i].type # "ERROR" => Asked(stream[i].object)
      BY DEF AnswerByStep
    <2>2. stream \in Seq(E \cup {ev})
      BY <1>c
    <2>3. /\ Append(stream, ev) \in Seq(E \cup {ev})
          /\ \A i \in DOMAIN Append(stream, ev) :
                \/ i \in DOMAIN stream /\ Append(stream, ev)[i] = stream[i]
                \/ Append(stream, ev)[i] = ev
      BY <2>2
    <2>4. /\ stream' \in Seq(E \cup {ev})
          /\ \A i \in DOMAIN stream' : stream'[i].type # "ERROR" => Asked(stream'[i].object)
      <3>1. CASE stream' = Append(stream, ev)
        BY <1>e, <2>1, <2>3, <3>1
      <3>2. CASE stream' = stream
        BY <2>1, <2>2, <3>2
      <3> QED
        BY <1>e, <3>1, <3>2
    <2> QED
      BY <1>0, <1>e, <2>4 DEF AnswerByStep, ListShown
  <1>f. ASSUME NEW type, NEW o \in Namespaces \X Names, Told(type, o),
               cluster' \subseteq Namespaces \X Names, UNCHANGED <<due, exit, asked, step, open>>
        PROVE  AnswerByStep'
    <2> DEFINE t == << inv.means >> \o o
               ev == Event(type, t)
    <2>1. t = << inv.means, o[1], o[2] >>
      BY <1>f, Pair, Triple, Zenon
    <2>2. t[1] = inv.means
      BY <2>1
    <2>3. CASE open /\ InScope(t) /\ Send(ev)
      <3>1. inv.name = "" /\ inv.verb = "get"
        BY <2>3 DEF AnswerByStep
      <3>2. inv.ns # ""
        BY InvocationsAssumption
      <3> HIDE DEF t
      <3>3. Asked(t)
        BY <2>2, <2>3, <3>1, <3>2 DEF Asked, InScope, namespace
      <3>4. ev.object = t
        BY DEF Event
      <3> HIDE DEF ev
      <3> QED
        BY <1>e, <1>f, <2>3, <3>3, <3>4 DEF Send
    <2>4. CASE UNCHANGED <<stream, told>>
      <3>1. Event("ERROR", << >>).type = "ERROR"
        BY DEF Event
      <3> QED
        BY <1>e, <1>f, <2>4, <3>1
    <2> QED
      BY <1>f, <2>3, <2>4 DEF Told
  <1>13. CASE CreateObject
    <2>1. PICK o \in (Namespaces \X Names) \ cluster : cluster' = cluster \cup {o} /\ Told("ADDED", o)
      BY <1>13 DEF CreateObject
    <2>2. cluster' \subseteq Namespaces \X Names /\ UNCHANGED <<due, exit, asked, step, open>>
      BY <1>13, <1>a, <2>1 DEF CreateObject, outputVars
    <2> QED
      BY <1>f, <2>1, <2>2
  <1>14. CASE DeleteObject
    <2>1. PICK o \in cluster : cluster' = cluster \ {o} /\ Told("DELETED", o)
      BY <1>14 DEF DeleteObject
    <2>2. /\ o \in Namespaces \X Names /\ cluster' \subseteq Namespaces \X Names
          /\ UNCHANGED <<due, exit, asked, step, open>>
      BY <1>14, <1>a, <2>1 DEF DeleteObject, outputVars
    <2> QED
      BY <1>f, <2>1, <2>2
  <1>15. CASE SendStatus
    <2>1. /\ stream' = Append(stream, Event("ERROR", << >>))
          /\ UNCHANGED <<cluster, due, exit, asked, step, open>>
      BY <1>15 DEF SendStatus, outputVars
    <2>2. Event("ERROR", << >>).type = "ERROR"
      BY DEF Event
    <2> QED
      BY <1>a, <1>e, <2>1, <2>2
  <1>16. CASE CloseWatch
    <2>1. ~ open' /\ UNCHANGED <<cluster, stream, due, exit, asked, step>>
      BY <1>16 DEF CloseWatch, outputVars
    <2> QED
      BY <1>0, <2>1 DEF AnswerByStep, ListShown
  <1>17. CASE UNCHANGED ctlVars
    BY <1>1, <1>17 DEF ctlVars, outputVars, kubeVars
  <1>18. CASE ApiNext /\ UNCHANGED kubeVars
    <2>1. inv.verb \notin CtlVerbs
      BY VerbsApart
    <2>2. DoFails \/ ServeRequest
      <3>1. ~ SendRequest /\ ~ ReceiveAnswer
        BY <2>1, SendsMeant, ReceivesOK DEF CtlVerbs
      <3>2. ~ notImplemented /\ ~ version /\ ~ ApiWrite /\ ~ ApiReturn
        BY <2>1 DEF notImplemented, version, ApiWrite, ApiReturn, CtlVerbs
      <3> QED
        BY <1>18, <3>1, <3>2 DEF ApiNext
    <2> QED
      BY <1>1, <1>18, <2>2 DEF DoFails, ServeRequest, Exit, Failed, outputVars, kubeVars
  <1> QED
    BY <1>2, <1>3, <1>4, <1>5, <1>6, <1>7, <1>8, <1>9, <1>10, <1>11, <1>12, <1>13, <1>14,
       <1>15, <1>16, <1>17, <1>18
       DEF NewRootCommand, KubeNext, KubeCommand, KubeWrite, KubeReturn, Cluster

(* The answer's invariant, beside the command's and the output's.          *)
THEOREM AnswerInvariant == CtlSpec => []AnswerInv
  BY AnswerInit, AnswerNext, CommandInvariant, OutputInvariant, PTL DEF CtlSpec

(* get, describe and get --watch show what was asked for and nothing else, *)
(* for every command line and every history of the cluster.                *)
THEOREM QuestionAnswered == CtlSpec => []AnswersTheQuestion
  <1>1. AnswerInv => AnswersTheQuestion
    <2> SUFFICES ASSUME AnswerByStep, inv.verb \in KubeVerbs PROVE AnswersTheQuestion
      BY DEF AnswerInv, AnswersTheQuestion
    <2>1. /\ \A i \in DOMAIN due : \A o \in due[i].what.objects : Asked(o)
          /\ exit.kind = "notFound" => <<inv.means, exit.namespace, inv.name>> \notin asked
          /\ (inv.verb = "get" /\ step = "render" /\ inv.name = "") => ListShown
      BY DEF AnswerByStep
    <2> QED
      BY <2>1 DEF AnswersTheQuestion, Asked, ListShown
  <1> QED
    BY <1>1, AnswerInvariant, PTL

-----------------------------------------------------------------------------
(* Watching.  The events under way continue those already read: c counts,  *)
(* up to each place in the stream, the events told that carry an object.   *)
RowOf(piece, ev) == piece.what = [part |-> ev.type, objects |-> {ev.object}]

Counts(c, s, t, n) ==
    /\ c \in [0..Len(s) -> Nat]
    /\ c[0] = n /\ c[Len(s)] = Len(t)
    /\ \A i \in 0..Len(s) : c[i] <= Len(t)
    /\ \A i \in 1..Len(s) :
          IF s[i].type = "ERROR" THEN c[i] = c[i - 1]
          ELSE c[i] = c[i - 1] + 1 /\ t[c[i]] = s[i]

Continues(s, t, n) == \E c : Counts(c, s, t, n)

(* A function on 1..n is a sequence of length n.                           *)
LEMMA Tabulated ==
    ASSUME NEW n \in Nat, NEW f, f = [i \in 1..n |-> f[i]]
    PROVE  f \in Seq({f[i] : i \in 1..n}) /\ Len(f) = n
  <1>1. f \in [1..n -> {f[i] : i \in 1..n}]
    OBVIOUS
  <1> QED
    BY <1>1

(* What is in the channel when the watch begins is all there is to tell.   *)
LEMMA FirstContinues ==
    ASSUME NEW E, NEW s \in Seq(E), \A i \in DOMAIN s : s[i].type # "ERROR"
    PROVE  Continues(s, s, 0)
  <1> DEFINE c == [i \in 0..Len(s) |-> i]
  <1>1. Counts(c, s, s, 0)
    BY DEF Counts
  <1> QED
    BY <1>1 DEF Continues

(* Reading an event moves on by one, or by none at an error event.         *)
LEMMA ReadContinues ==
    ASSUME NEW E, NEW s \in Seq(E), s # << >>, NEW F, NEW t \in Seq(F), NEW n \in Nat,
           Continues(s, t, n)
    PROVE  /\ Head(s).type = "ERROR" => Continues(Tail(s), t, n)
           /\ Head(s).type # "ERROR" =>
                 Continues(Tail(s), t, n + 1) /\ n + 1 \in DOMAIN t /\ t[n + 1] = Head(s)
  <1>1. PICK c : Counts(c, s, t, n)
    BY DEF Continues
  <1> DEFINE m == IF Head(s).type = "ERROR" THEN n ELSE n + 1
             d == [i \in 0..(Len(s) - 1) |-> c[i + 1]]
  <1>2. /\ Len(s) \in Nat /\ Len(s) >= 1 /\ Head(s) = s[1] /\ Tail(s) \in Seq(E)
        /\ Len(Tail(s)) = Len(s) - 1 /\ \A i \in 1..(Len(s) - 1) : Tail(s)[i] = s[i + 1]
    OBVIOUS
  <1>3. c[1] = m /\ (Head(s).type # "ERROR" => t[n + 1] = Head(s) /\ n + 1 <= Len(t))
    BY <1>1, <1>2 DEF Counts
  <1>4. Counts(d, Tail(s), t, m)
    <2> HIDE DEF m
    <2>1. d \in [0..Len(Tail(s)) -> Nat]
      BY <1>1, <1>2 DEF Counts
    <2>2. d[0] = m /\ d[Len(Tail(s))] = Len(t) /\ \A i \in 0..Len(Tail(s)) : d[i] <= Len(t)
      BY <1>1, <1>2, <1>3 DEF Counts
    <2>3. ASSUME NEW i \in 1..Len(Tail(s))
          PROVE  IF Tail(s)[i].type = "ERROR" THEN d[i] = d[i - 1]
                 ELSE d[i] = d[i - 1] + 1 /\ t[d[i]] = Tail(s)[i]
      <3>1. /\ i + 1 \in 1..Len(s) /\ Tail(s)[i] = s[i + 1] /\ d[i] = c[i + 1]
            /\ d[i - 1] = c[(i - 1) + 1] /\ (i - 1) + 1 = i /\ (i + 1) - 1 = i
        BY <1>2, <2>3
      <3> QED
        BY <1>1, <3>1 DEF Counts
    <2> QED
      BY <2>1, <2>2, <2>3 DEF Counts
  <1>5. Continues(Tail(s), t, m)
    BY <1>4 DEF Continues
  <1>6. Head(s).type # "ERROR" => n + 1 \in DOMAIN t
    BY <1>3
  <1> QED
    BY <1>3, <1>5, <1>6

(* Sending an event extends the channel and what was told alike.           *)
LEMMA SendContinues ==
    ASSUME NEW E, NEW s \in Seq(E), NEW t \in Seq(E), NEW ev \in E, NEW n \in Nat,
           Continues(s, t, n)
    PROVE  /\ ev.type = "ERROR" => Continues(Append(s, ev), t, n)
           /\ ev.type # "ERROR" => Continues(Append(s, ev), Append(t, ev), n)
  <1>1. PICK c : Counts(c, s, t, n)
    BY DEF Continues
  <1> DEFINE s2 == Append(s, ev)
             t2 == IF ev.type = "ERROR" THEN t ELSE Append(t, ev)
             k == Len(s) + 1
             d == [i \in 0..k |-> IF i = k THEN Len(t2) ELSE c[i]]
  <1>2. /\ Len(s) \in Nat /\ k \in Nat /\ Len(s2) = k /\ s2[k] = ev
        /\ \A i \in 1..Len(s) : s2[i] = s[i]
    OBVIOUS
  <1>3. /\ Len(t) \in Nat /\ t2 \in Seq(E)
        /\ Len(t2) = IF ev.type = "ERROR" THEN Len(t) ELSE Len(t) + 1
        /\ \A i \in 1..Len(t) : t2[i] = t[i]
        /\ ev.type # "ERROR" => t2[Len(t) + 1] = ev
    OBVIOUS
  <1> HIDE DEF t2, s2
  <1>4. Counts(d, s2, t2, n)
    <2>1. d \in [0..Len(s2) -> Nat]
      BY <1>1, <1>2, <1>3 DEF Counts
    <2>2. d[0] = n /\ d[Len(s2)] = Len(t2) /\ \A i \in 0..Len(s2) : d[i] <= Len(t2)
      BY <1>1, <1>2, <1>3 DEF Counts
    <2>3. ASSUME NEW i \in 1..Len(s2)
          PROVE  IF s2[i].type = "ERROR" THEN d[i] = d[i - 1]
                 ELSE d[i] = d[i - 1] + 1 /\ t2[d[i]] = s2[i]
      <3>1. CASE i = k
        <4>1. d[i] = Len(t2) /\ d[i - 1] = c[Len(s)] /\ c[Len(s)] = Len(t) /\ s2[i] = ev
          BY <1>1, <1>2, <3>1 DEF Counts
        <4> QED
          BY <1>3, <4>1
      <3>2. CASE i # k
        <4>1. i \in 1..Len(s) /\ d[i] = c[i] /\ d[i - 1] = c[i - 1] /\ s2[i] = s[i]
          BY <1>2, <2>3, <3>2
        <4>0. i - 1 \in 0..Len(s) /\ i \in 0..Len(s)
          BY <1>2, <4>1
        <4>2. c[i - 1] \in Nat /\ c[i] \in Nat /\ c[i] <= Len(t)
          BY <1>1, <4>0 DEF Counts
        <4>3. s[i].type # "ERROR" => c[i] \in 1..Len(t)
          BY <1>1, <4>1, <4>2 DEF Counts
        <4> QED
          BY <1>1, <1>3, <4>1, <4>3 DEF Counts
      <3> QED
        BY <3>1, <3>2
    <2> QED
      BY <2>1, <2>2, <2>3 DEF Counts
  <1>5. Continues(s2, t2, n)
    BY <1>4 DEF Continues
  <1> QED
    BY <1>5 DEF s2, t2

(* A watch has read and rendered a beginning of what it was told, one row  *)
(* after the header for each event; the output holds a beginning of that;  *)
(* and what is in the stream continues it.                                 *)
WatchByStep ==
    inv.verb \in KubeVerbs =>
        /\ step \in {"parse", "connect", "request"} => out = << >> /\ refused = << >>
        /\ step = "watch" =>
              /\ exit \in {Running, OK} => refused = << >>
              /\ Len(out) <= Len(due) /\ \A i \in 1..Len(out) : out[i] = due[i]
              /\ Len(due) > 0 /\ Len(due) - 1 <= Len(told)
              /\ \A i \in 1..(Len(due) - 1) : RowOf(due[i + 1], told[i])
              /\ Continues(stream, told, Len(due) - 1)
              /\ \E E : stream \in Seq(E) /\ told \in Seq(E)
              /\ exit = OK => stream = << >>

(* A command that has not begun watches nothing.                           *)
LEMMA WatchInit == CtlInit => WatchByStep
  BY DEF CtlInit, OutputInit, KubeInit, WatchByStep

(* No step of the command or of the cluster loses or swaps an event.       *)
LEMMA WatchNext ==
    CommandByCall /\ OutputProof /\ AnswerInv /\ WatchByStep /\ [NewRootCommand]_ctlVars
        => WatchByStep'
  <1> SUFFICES ASSUME CommandByCall, OutputInv, OutputByStep, inv \in Invocations, AnswerByStep,
                      WatchByStep, [NewRootCommand]_ctlVars, inv.verb \in KubeVerbs
               PROVE  WatchByStep'
    <2>1. inv.verb \notin KubeVerbs /\ [NewRootCommand]_ctlVars => WatchByStep'
      BY InvKept DEF WatchByStep
    <2> QED
      BY <2>1 DEF OutputProof, AnswerInv
  <1>0. inv' = inv
    BY InvKept
  <1>a. PICK P : todo \in Seq(P) /\ due \in Seq(P) /\ out \in Seq(P)
    BY DEF OutputInv, Sequenced
  <1>b. ASSUME step = "watch", exit = Running PROVE due = out \o todo /\ refused = << >>
    BY <1>b, RunningIsNotOK DEF WatchByStep, OutputByStep, OutputInv, NothingLost
  (* Steps that leave output and stream alone.                             *)
  <1>1. ASSUME UNCHANGED <<due, out, refused, stream, told>>,
               \/ exit' = exit
               \/ exit' \notin {Running, OK}
               \/ step \notin {"watch", "parse", "connect", "request"},
               \/ step' = step
               \/ step' \in {"done", "render"}
               \/ step \in {"parse", "connect"} /\ step' \in {"connect", "request"}
        PROVE  WatchByStep'
    BY <1>0, <1>1, RunningIsNotOK DEF WatchByStep
  <1>2. CASE step' \in {"render", "done"}
    BY <1>0, <1>2 DEF WatchByStep
  <1>3. CASE KubeWrite
    <2>1. /\ WriteStep /\ exit = Running /\ todo # << >> /\ UNCHANGED <<due, stream, told, step>>
      BY <1>3 DEF KubeWrite, WriteStep, WriteChecked, printf, Flush, Writing, kubeVars
    <2>2. step \notin {"parse", "connect", "request"}
      BY <2>1 DEF OutputByStep
    <2>3. CASE step = "watch"
      <3>1. Head(todo).how = "checked"
        BY <1>a, <2>1, <2>3 DEF OutputByStep
      <3>2. WriteChecked
        BY <2>1, <3>1 DEF WriteStep, printf, Flush
      <3>3. due = out \o todo /\ refused = << >>
        BY <1>b, <2>1, <2>3
      <3>4. CASE Accepted /\ UNCHANGED exit
        <4>1. out' = Append(out, Head(todo)) /\ refused' = refused
          BY <3>4 DEF Accepted
        <4>2. Len(out') <= Len(due) /\ \A i \in 1..Len(out') : out'[i] = due[i]
          BY <1>a, <2>1, <3>3, <4>1
        <4> QED
          BY <1>0, <2>1, <2>3, <3>4, <4>1, <4>2 DEF WatchByStep
      <3>5. CASE Refused /\ exit' = WriteError
        <4>1. out' = out
          BY <3>5 DEF Refused
        <4> QED
          BY <1>0, <2>1, <2>3, <3>5, <4>1, RunningIsNotOK DEF WatchByStep
      <3> QED
        BY <3>2, <3>4, <3>5 DEF WriteChecked
    <2>4. CASE step # "watch"
      BY <1>0, <2>1, <2>2, <2>4 DEF WatchByStep
    <2> QED
      BY <2>3, <2>4
  <1>4. CASE KubeReturn
    <2>1. step' = "render"
      BY <1>4 DEF KubeReturn, kubeVars
    <2> QED
      BY <1>2, <2>1
  <1>5. CASE ParseArgs
    <2>1. UNCHANGED <<due, out, refused, stream, told>>
      BY <1>5 DEF ParseArgs, Exit, outputVars
    <2>2. step = "parse" /\ (step' = step \/ step' = "connect")
      BY <1>5 DEF ParseArgs, At
    <2> QED
      BY <1>0, <2>1, <2>2 DEF WatchByStep
  <1>6. CASE newKubeContext
    <2>1. UNCHANGED <<due, out, refused, stream, told>>
      BY <1>6 DEF newKubeContext, Exit, outputVars
    <2>2. step = "connect" /\ (step' = step \/ step' = "request")
      BY <1>6 DEF newKubeContext, At
    <2> QED
      BY <1>0, <2>1, <2>2 DEF WatchByStep
  <1>7. CASE RequestFails \/ runGetList \/ runGetOne
    BY <1>2, <1>7 DEF RequestFails, runGetList, runGetOne, Requested
  <1>8. CASE runWatch
    <2> DEFINE first == [i \in 1..Cardinality(Listed) |-> Event("ADDED", SetToSeq(Listed)[i])]
               header == Show("checked", "header", {})
    <2>1. /\ step = "request" /\ exit = Running /\ inv.name = "" /\ inv.verb = "get"
          /\ Render(<< header >>) /\ step' = "watch" /\ stream' = first /\ told' = first
      BY <1>8 DEF runWatch, At
    <2>2. /\ Resource # "" /\ due = << >> /\ out = << >> /\ refused = << >>
          /\ cluster \subseteq Namespaces \X Names
      BY <2>1 DEF AnswerByStep, WatchByStep
    <2>3. IsFiniteSet(Listed)
      BY <2>2, ListedAsked
    <2>4. (\E E : first \in Seq(E)) /\ \A i \in DOMAIN first : first[i].type = "ADDED"
      BY <2>3, FirstEvents
    <2> HIDE DEF first, header
    <2>5. PICK E : first \in Seq(E)
      BY <2>4
    <2>6. Continues(first, first, 0) /\ Len(first) \in Nat
      <3>1. \A i \in DOMAIN first : first[i].type # "ERROR"
        BY <2>4
      <3> QED
        BY <2>5, <3>1, FirstContinues
    <2>7. due' = << header >> /\ Len(due') = 1 /\ UNCHANGED <<out, refused, exit>>
      <3>1. << >> \o << header >> = << header >> /\ Len(<< header >>) = 1
        OBVIOUS
      <3>2. due' = due \o << header >> /\ UNCHANGED <<out, refused, exit>>
        BY <2>1 DEF Render
      <3> QED
        BY <2>2, <3>1, <3>2
    <2>8. Len(out') <= Len(due') /\ \A i \in 1..Len(out') : out'[i] = due'[i]
      <3>1. Len(<< >>) = 0
        OBVIOUS
      <3>2. Len(out') = 0
        BY <2>2, <2>7, <3>1
      <3> QED
        BY <2>7, <3>2
    <2>9. /\ Len(due') > 0 /\ Len(due') - 1 = 0 /\ 0 <= Len(told')
          /\ \A i \in 1..0 : RowOf(due'[i + 1], told'[i])
      <3>1. told' = first /\ Len(first) \in Nat
        BY <2>1, <2>6
      <3>2. 0 <= Len(told')
        BY <3>1
      <3> QED
        BY <2>7, <3>2
    <2>10. exit' # OK /\ refused' = << >>
      BY <2>1, <2>2, <2>7, RunningIsNotOK
    <2> QED
      BY <1>0, <2>1, <2>5, <2>6, <2>8, <2>9, <2>10 DEF WatchByStep
  (* Reading.                                                              *)
  <1>c. ASSUME step = "watch"
        PROVE  /\ Len(due) \in Nat /\ Len(due) > 0 /\ Len(due) - 1 \in Nat
               /\ Len(due) - 1 <= Len(told)
               /\ \A i \in 1..(Len(due) - 1) : RowOf(due[i + 1], told[i])
               /\ Continues(stream, told, Len(due) - 1)
    BY <1>a, <1>c DEF WatchByStep
  <1>9. CASE WatchRow
    <2> DEFINE row == Show("checked", Head(stream).type, {Head(stream).object})
               n == Len(due) - 1
    <2>1. /\ step = "watch" /\ step' = "watch" /\ exit = Running /\ todo = << >> /\ stream # << >>
          /\ Head(stream).type # "ERROR" /\ Render(<< row >>) /\ stream' = Tail(stream)
          /\ told' = told
      BY <1>9 DEF WatchRow, Reading, At
    <2>2. RowOf(row, Head(stream))
      BY DEF RowOf, Show, Piece
    <2> HIDE DEF row
    <2>3. PICK E : stream \in Seq(E) /\ told \in Seq(E)
      BY <2>1 DEF WatchByStep
    <2>4. /\ Continues(Tail(stream), told, n + 1) /\ n + 1 \in DOMAIN told
          /\ told[n + 1] = Head(stream)
      BY <1>c, <2>1, <2>3, ReadContinues
    <2>5. due' = due \o << row >> /\ UNCHANGED <<out, refused, exit>>
      BY <2>1 DEF Render
    <2>6. /\ Len(due') = Len(due) + 1 /\ \A i \in 1..Len(due) : due'[i] = due[i]
          /\ due'[Len(due) + 1] = row
      <3>1. due \in Seq(P \cup {row}) /\ << row >> \in Seq(P \cup {row})
        BY <1>a
      <3>2. Len(<< row >>) = 1 /\ << row >>[1] = row
        OBVIOUS
      <3> QED
        BY <2>5, <3>1, <3>2
    <2>7. Len(due') > 0 /\ Len(due') - 1 = n + 1 /\ n + 1 <= Len(told)
      BY <1>c, <2>1, <2>3, <2>4, <2>6
    <2>8. ASSUME NEW i \in 1..(n + 1) PROVE RowOf(due'[i + 1], told[i])
      <3>1. CASE i = n + 1
        BY <1>c, <2>1, <2>2, <2>4, <2>6, <3>1
      <3>2. CASE i # n + 1
        <4>1. i \in 1..(Len(due) - 1) /\ i + 1 \in 1..Len(due)
          BY <1>c, <2>1, <2>8, <3>2
        <4> QED
          BY <1>c, <2>1, <2>6, <4>1
      <3> QED
        BY <3>1, <3>2
    <2>9. Len(out) <= Len(due') /\ \A i \in 1..Len(out) : out[i] = due'[i]
      <3>1. Len(out) <= Len(due) /\ Len(out) \in Nat /\ \A i \in 1..Len(out) : out[i] = due[i]
        BY <1>a, <2>1 DEF WatchByStep
      <3> QED
        BY <1>c, <2>1, <2>6, <3>1
    <2>10. refused = << >> /\ Tail(stream) \in Seq(E)
      BY <1>b, <2>1, <2>3
    <2> HIDE DEF n
    <2> QED
      BY <1>0, <2>1, <2>3, <2>4, <2>5, <2>7, <2>8, <2>9, <2>10, RunningIsNotOK DEF WatchByStep
  <1>10. CASE WatchSkip
    <2>1. /\ step = "watch" /\ stream # << >> /\ Head(stream).type = "ERROR"
          /\ stream' = Tail(stream) /\ exit = Running
          /\ UNCHANGED <<told, due, out, refused, exit, step>>
      BY <1>10 DEF WatchSkip, Reading, At, outputVars
    <2>2. PICK E : stream \in Seq(E) /\ told \in Seq(E)
      BY <2>1 DEF WatchByStep
    <2>3. Continues(Tail(stream), told, Len(due) - 1) /\ Tail(stream) \in Seq(E)
      BY <1>c, <2>1, <2>2, ReadContinues
    <2> QED
      BY <1>0, <2>1, <2>2, <2>3, RunningIsNotOK DEF WatchByStep
  <1>11. CASE WatchEnds
    <2>1. /\ step = "watch" /\ stream = << >> /\ exit = Running
          /\ UNCHANGED <<told, stream, due, out, refused, step>>
      BY <1>11 DEF WatchEnds, Reading, At, Exit
    <2> QED
      BY <1>0, <2>1 DEF WatchByStep
  (* Events arriving.                                                      *)
  <1>d. ASSUME step = "watch", exit = Running, NEW ev, stream' = Append(stream, ev),
               told' = IF ev.type = "ERROR" THEN told ELSE Append(told, ev),
               UNCHANGED <<due, out, refused, exit, step>>
        PROVE  WatchByStep'
    <2>1. PICK E0 : stream \in Seq(E0) /\ told \in Seq(E0)
      BY <1>d DEF WatchByStep
    <2> DEFINE E == E0 \cup {ev}
    <2>2. stream \in Seq(E) /\ told \in Seq(E) /\ ev \in E
      BY <2>1
    <2> HIDE DEF E
    <2>3. Continues(stream', told', Len(due) - 1)
      BY <1>c, <1>d, <2>2, SendContinues
    <2>4. /\ stream' \in Seq(E) /\ told' \in Seq(E) /\ Len(told) <= Len(told')
          /\ Len(told) \in Nat /\ Len(told') \in Nat
          /\ \A i \in 1..Len(told) : told'[i] = told[i]
      BY <1>d, <2>2
    <2>5. \A i \in 1..(Len(due) - 1) : RowOf(due[i + 1], told'[i])
      BY <1>c, <1>d, <2>4
    <2>6. Len(due) - 1 <= Len(told')
      BY <1>c, <1>d, <2>4
    <2> QED
      BY <1>0, <1>d, <2>3, <2>4, <2>5, <2>6, RunningIsNotOK DEF WatchByStep
  <1>e. ASSUME NEW type, type # "ERROR", NEW o, Told(type, o), exit = Running,
               UNCHANGED <<due, out, refused, exit, step>>
        PROVE  WatchByStep'
    <2>1. CASE UNCHANGED <<stream, told>>
      BY <1>1, <1>e, <2>1
    <2> DEFINE ev == Event(type, <<inv.means>> \o o)
    <2>2. CASE open /\ Send(ev)
      <3>1. step = "watch"
        BY <2>2 DEF AnswerByStep
      <3>2. ev.type # "ERROR"
        BY <1>e DEF Event
      <3> HIDE DEF ev
      <3> QED
        BY <1>d, <1>e, <2>2, <3>1, <3>2 DEF Send
    <2> QED
      BY <1>e, <2>1, <2>2 DEF Told
  <1>12. CASE CreateObject
    BY <1>e, <1>12 DEF CreateObject, outputVars
  <1>13. CASE DeleteObject
    BY <1>e, <1>13 DEF DeleteObject, outputVars
  <1>14. CASE SendStatus
    <2> DEFINE ev == Event("ERROR", << >>)
    <2>1. ev.type = "ERROR"
      BY DEF Event
    <2>2. /\ stream' = Append(stream, ev) /\ exit = Running /\ open
          /\ UNCHANGED <<told, due, out, refused, exit, step>>
      BY <1>14 DEF SendStatus, outputVars
    <2> HIDE DEF ev
    <2>3. step = "watch"
      BY <2>2 DEF AnswerByStep
    <2> QED
      BY <1>d, <2>1, <2>2, <2>3
  <1>15. CASE CloseWatch
    BY <1>1, <1>15 DEF CloseWatch, outputVars
  <1>16. CASE UNCHANGED ctlVars
    BY <1>1, <1>16 DEF ctlVars, outputVars, kubeVars
  <1>17. CASE ApiNext /\ UNCHANGED kubeVars
    <2>1. inv.verb \notin CtlVerbs
      BY VerbsApart
    <2>2. DoFails \/ ServeRequest
      <3>1. ~ SendRequest /\ ~ ReceiveAnswer
        BY <2>1, SendsMeant, ReceivesOK DEF CtlVerbs
      <3>2. ~ notImplemented /\ ~ version /\ ~ ApiWrite /\ ~ ApiReturn
        BY <2>1 DEF notImplemented, version, ApiWrite, ApiReturn, CtlVerbs
      <3> QED
        BY <1>17, <3>1, <3>2 DEF ApiNext
    <2>3. CASE DoFails
      <3>1. exit' \notin {Running, OK} /\ UNCHANGED <<due, out, refused>>
        BY <2>3, FailedIsNotOK DEF DoFails, Exit
      <3> QED
        BY <1>1, <1>17, <3>1 DEF kubeVars
    <2>4. CASE ServeRequest
      BY <1>1, <1>17, <2>4 DEF ServeRequest, outputVars, kubeVars
    <2> QED
      BY <2>2, <2>3, <2>4
  <1> QED
    BY <1>3, <1>4, <1>5, <1>6, <1>7, <1>8, <1>9, <1>10, <1>11, <1>12, <1>13, <1>14,
       <1>15, <1>16, <1>17 DEF NewRootCommand, KubeNext, KubeCommand, Cluster

(* get --watch prints the events it is told once, in order and with none   *)
(* missing, for every history of the cluster, every error event, every     *)
(* moment the channel closes and every refused write; one that ends well   *)
(* has printed them all.                                                   *)
THEOREM WatchOrdered == CtlSpec => []WatchInOrder
  <1>1. CommandByCall /\ OutputProof /\ WatchByStep => WatchInOrder
    <2> SUFFICES ASSUME CommandByCall, OutputInv, WatchByStep, step = "watch"
                 PROVE  /\ out # << >> => IsPrefix(EventsShown, EventsTold)
                        /\ exit = OK => EventsShown = EventsTold
      BY DEF OutputProof, WatchInOrder
    <2>1. inv.verb \in KubeVerbs
      BY DEF CommandByCall
    <2>2. PICK P : todo \in Seq(P) /\ due \in Seq(P) /\ out \in Seq(P)
      BY DEF OutputInv, Sequenced
    <2>3. PICK E : stream \in Seq(E) /\ told \in Seq(E)
      BY <2>1 DEF WatchByStep
    <2>4. /\ Len(out) \in Nat /\ Len(due) \in Nat /\ Len(told) \in Nat /\ Len(out) <= Len(due)
          /\ \A i \in 1..Len(out) : out[i] = due[i]
          /\ Len(due) > 0 /\ Len(due) - 1 <= Len(told)
          /\ \A i \in 1..(Len(due) - 1) : RowOf(due[i + 1], told[i])
      BY <2>1, <2>2, <2>3 DEF WatchByStep
    <2>0. EventsTold = [i \in 1..Len(told) |-> [part |-> told[i].type, objects |-> {told[i].object}]]
      <3>1. DOMAIN told = 1..Len(told)
        BY <2>3
      <3> QED
        BY <3>1, Zenon DEF EventsTold
    <2>5. ASSUME NEW i \in 1..(Len(out) - 1) PROVE i \in 1..Len(told) /\ EventsShown[i] = EventsTold[i]
      <3>1. i \in 1..Len(told) /\ i \in 1..(Len(due) - 1) /\ i + 1 \in 1..Len(out)
        BY <2>4
      <3>2. EventsShown[i] = out[i + 1].what
        BY DEF EventsShown
      <3>3. EventsTold[i] = [part |-> told[i].type, objects |-> {told[i].object}]
        BY <2>0, <3>1
      <3>4. out[i + 1] = due[i + 1] /\ RowOf(due[i + 1], told[i])
        BY <2>4, <3>1
      <3> QED
        BY <3>1, <3>2, <3>3, <3>4 DEF RowOf
    <2>6. EventsTold \in Seq({EventsTold[i] : i \in 1..Len(told)}) /\ Len(EventsTold) = Len(told)
      <3>1. EventsTold = [i \in 1..Len(told) |-> EventsTold[i]]
        BY <2>0
      <3> QED
        BY <2>4, <3>1, Tabulated
    <2>7. ASSUME out # << >>
          PROVE  /\ EventsShown \in Seq({EventsShown[i] : i \in 1..(Len(out) - 1)})
                 /\ Len(EventsShown) = Len(out) - 1 /\ Len(out) - 1 \in Nat
      <3>1. Len(out) - 1 \in Nat
        BY <2>2, <2>4, <2>7
      <3>2. EventsShown = [i \in 1..(Len(out) - 1) |-> EventsShown[i]]
        BY DEF EventsShown
      <3> QED
        BY <3>1, <3>2, Tabulated
    <2>8. ASSUME out # << >> PROVE IsPrefix(EventsShown, EventsTold)
      <3> DEFINE k == Len(out) - 1
                 V == {EventsShown[i] : i \in 1..k} \cup {EventsTold[i] : i \in 1..Len(told)}
      <3>1. k \in Nat /\ k <= Len(told)
        BY <2>2, <2>4, <2>8
      <3>2. EventsShown \in Seq(V) /\ EventsTold \in Seq(V) /\ Len(EventsShown) = k
        BY <2>6, <2>7, <2>8
      <3> HIDE DEF V
      <3>3. \A i \in 1..k : EventsShown[i] = EventsTold[i]
        BY <2>5
      <3> HIDE DEF k
      <3>4. /\ SubSeq(EventsShown, 1, k) \in Seq(V) /\ Len(SubSeq(EventsShown, 1, k)) = k
            /\ SubSeq(EventsTold, 1, k) \in Seq(V) /\ Len(SubSeq(EventsTold, 1, k)) = k
            /\ \A i \in 1..k : SubSeq(EventsShown, 1, k)[i] = SubSeq(EventsTold, 1, k)[i]
        BY <2>6, <3>1, <3>2, <3>3
      <3>5. SubSeq(EventsShown, 1, k) = SubSeq(EventsTold, 1, k)
        BY <3>4, SeqEqual
      <3> QED
        BY <2>6, <3>1, <3>2, <3>5 DEF IsPrefix
    <2>9. ASSUME exit = OK PROVE EventsShown = EventsTold
      <3>1. stream = << >> /\ refused = << >> /\ todo = << >> /\ ~ latch
        BY <2>1, <2>9 DEF WatchByStep, OutputInv, EndedWell
      <3>2. due = out \o todo
        BY <2>9, <3>1 DEF OutputInv, NothingLost
      <3>3. due = out
        BY <2>2, <3>1, <3>2
      <3>4. Continues(stream, told, Len(due) - 1)
        BY <2>1 DEF WatchByStep
      <3>5. Len(due) - 1 = Len(told)
        <4>1. PICK c : Counts(c, stream, told, Len(due) - 1)
          BY <3>4 DEF Continues
        <4>2. Len(stream) = 0
          BY <3>1
        <4> QED
          BY <4>1, <4>2 DEF Counts
      <3>6. EventsShown = [i \in 1..Len(told) |-> EventsTold[i]]
        BY <2>5, <3>3, <3>5 DEF EventsShown
      <3> QED
        BY <2>0, <3>6
    <2> QED
      BY <2>8, <2>9
  <1> QED
    BY <1>1, WatchInit, WatchNext, AnswerInvariant, CommandInvariant, OutputInvariant, PTL
       DEF CtlSpec
==============================================================================
