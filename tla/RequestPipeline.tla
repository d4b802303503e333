-------------------------- MODULE RequestPipeline --------------------------
(***************************************************************************)
(* The life of one HTTP request in the API server: the middleware chain    *)
(* requestID -> logging -> recover -> auth (internal/api/server/server.go  *)
(* Handler), the mux, the generated parameter binding and body decoding,   *)
(* the authorization checkpoint, the operation, the generated response     *)
(* writer, and the way back out through the error sink, the panic guard    *)
(* and the access log.                                                     *)
(*                                                                         *)
(* The server keeps no state between requests, so one request is a whole   *)
(* behaviour: Init enumerates what a client can send and how the server is *)
(* configured.  The client's disconnecting is a concurrent process: it can *)
(* happen between any two steps, and is what makes a response write fail   *)
(* after its header has gone out.                                          *)
(***************************************************************************)
EXTENDS Naturals, Sequences

CONSTANTS
    Policies,    \* the sets of (verb, resource) pairs an auth.Authorizer may grant
    ClientIDs,   \* values a client may send as X-Request-Id
    MintedID,    \* what newRequestID returns
    None         \* an absent value

-----------------------------------------------------------------------------
(* The contract's operations, as the generated router registers them.      *)

ReadOps == {"GetApplications", "GetApplicationsName", "GetApplicationsNameMatrix",
            "GetApplicationsNamePromotions", "GetApplicationsNameReleases",
            "GetAudit", "GetDiff", "GetEnvironments", "GetPromotions",
            "GetPromotionsID", "GetReleases", "GetTargets",
            "GetTargetsNameDrift", "GetTargetsNameHealth"}

WriteOps == {"PostPromotions", "PostPromotionsIDApprove",
             "PostPromotionsIDCancel", "PostPromotionsIDRetry"}

Operations == ReadOps \cup WriteOps

\* Operations whose strict handler decodes a JSON body before anything else.
BodyOps == {"PostPromotions", "PostPromotionsIDApprove"}

\* Operations with no parameter to bind: their binding cannot fail.
NoParamOps == {"GetEnvironments", "GetTargets"}

\* Where the mux sends a request: to an operation, to a route Handler adds by
\* hand, or to its own not-found and method-not-allowed replies.
Routes == Operations \cup {"spec", "probe", "unknownPath", "wrongMethod"}

\* What a client can send, as far as the pipeline tells requests apart.
Requests == [route : Routes,
             authorization : {"absent", "otherScheme", "blank", "bearer"},
             id : ClientIDs \cup {None},
             paramsOK : BOOLEAN,
             bodyOK : BOOLEAN]

-----------------------------------------------------------------------------
(* Authorization: which (verb, resource) an operation needs.               *)

\* Seeded bug: the resource is the last one the operation's name mentions.
resourceOfLast(op) ==
    CASE op \in {"GetApplications", "GetApplicationsName", "GetApplicationsNameMatrix"} -> "applications"
      [] op \in {"GetPromotions", "GetPromotionsID", "GetApplicationsNamePromotions"} -> "promotions"
      [] op \in {"GetReleases", "GetApplicationsNameReleases"} -> "releases"
      [] op \in {"GetTargets", "GetTargetsNameDrift", "GetTargetsNameHealth"} -> "targets"
      [] op = "GetEnvironments" -> "environments"
      [] op = "GetDiff" -> "diff"
      [] op = "GetAudit" -> "audit"
      [] OTHER -> "lowercased"

resourceOf(op) ==
    CASE op \in {"GetApplications", "GetApplicationsName", "GetApplicationsNameMatrix",
                 "GetApplicationsNamePromotions", "GetApplicationsNameReleases"} -> "applications"
      [] op \in {"GetPromotions", "GetPromotionsID"} -> "promotions"
      [] op = "GetReleases" -> "releases"
      [] op \in {"GetTargets", "GetTargetsNameDrift", "GetTargetsNameHealth"} -> "targets"
      [] op = "GetEnvironments" -> "environments"
      [] op = "GetDiff" -> "diff"
      [] op = "GetAudit" -> "audit"
      [] OTHER -> "lowercased"

authzForOperation(op) ==
    CASE op = "PostPromotions"          -> <<"promote", "promotions">>
      [] op = "PostPromotionsIDApprove" -> <<"approve", "promotions">>
      [] op = "PostPromotionsIDCancel"  -> <<"cancel", "promotions">>
      [] op = "PostPromotionsIDRetry"   -> <<"retry", "promotions">>
      [] OTHER                          -> <<"read", resourceOf(op)>>

\* Every pair the checkpoint can ask about.
Permissions == {authzForOperation(op) : op \in Operations}

ASSUME PoliciesAssumption == Policies \subseteq SUBSET Permissions

-----------------------------------------------------------------------------
(* Errors and the RFC 9457 problems they become.                           *)

\* The error values that reach the sink.  "decode" is the wrapped JSON error
\* of a malformed body, "write" a failed response write, "failed" any other.
Errors == {"notImplemented", "notFound", "param", "forbidden", "decode",
           "encode", "write", "failed"}

ASSUME NoneAssumption ==
    /\ None \notin Nat
    /\ None \notin ClientIDs \cup {MintedID}
    /\ None \notin Operations \cup Errors \cup {"panic", "stub"}

problem(status, slug, detail, perm) ==
    [kind |-> "problem", status |-> status, slug |-> slug, detail |-> detail,
     permission |-> perm]

classify(err, perm) ==
    CASE err = "notImplemented" -> problem(501, "not_implemented", "cause", None)
      [] err = "notFound"       -> problem(404, "not_found", "fixed", None)
      [] err = "param"          -> problem(400, "invalid", "cause", None)
      [] err = "forbidden"      -> problem(403, "forbidden", "fixed", perm)
      [] OTHER                  -> problem(500, "degraded", "fixed", None)

-----------------------------------------------------------------------------
VARIABLES
    conf,       \* [required, policy]: auth.Config and the Authorizer
    req,        \* the request, read-only
    pc,         \* where the request's goroutine is
    ctx,        \* [id, identity]: the values stamped on the request context
    w,          \* the response writer: headers, statusRecorder, what is sent
    err,        \* the error or panic on its way to its handler
    entered,    \* the Server method that was called, or None
    accessLog,  \* loggingMiddleware's lines
    errorLog,   \* onError's and recoverMiddleware's lines
    gone        \* whether the client has disconnected

vars == <<conf, req, pc, ctx, w, err, entered, accessLog, errorLog, gone>>

Steps == {"requestID", "auth", "mux", "bind", "decode", "authz", "handle",
          "visit", "onError", "panicked", "returned", "logged"}

Chunks == [kind : {"json", "yaml", "ok", "text"}, status : {200, 404, 405}]
              \cup {classify(e, p) : e \in Errors, p \in Permissions \cup {None}}
              \cup {problem(401, "unauthenticated", "fixed", None)}

IDs == ClientIDs \cup {MintedID, None}

ContentTypes == {"json", "yaml", "text", "problem+json", None}

\* The response writer: the header map, the statusRecorder, and what net/http
\* has sent and delivered.
Writers == [ctype : ContentTypes,
            id    : IDs,
            rec   : [status : Nat, wroteHeader : BOOLEAN],
            sent  : [status : Nat \cup {None}, ctype : ContentTypes, id : IDs],
            body  : Seq(Chunks)]

TypeOK ==
    /\ conf \in [required : BOOLEAN, policy : Policies]
    /\ req \in Requests
    /\ pc \in Steps
    /\ ctx \in [id : IDs, identity : {"stub", None}]
    /\ w \in Writers
    /\ err \in Errors \cup {"panic", None}
    /\ entered \in Operations \cup {None}
    /\ accessLog \in Seq([status : Nat, id : IDs])
    /\ errorLog \in Seq([cause : Errors \cup {"panic"}, id : IDs])
    /\ gone \in BOOLEAN

Init ==
    /\ conf \in [required : BOOLEAN, policy : Policies]
    /\ req \in Requests
    /\ pc = "requestID"
    /\ ctx = [id |-> None, identity |-> None]
    /\ w = [ctype |-> None, id |-> None,
            rec |-> [status |-> 200, wroteHeader |-> FALSE],
            sent |-> [status |-> None, ctype |-> None, id |-> None],
            body |-> << >>]
    /\ err = None
    /\ entered = None
    /\ accessLog = << >>
    /\ errorLog = << >>
    /\ gone = FALSE

-----------------------------------------------------------------------------
(* The response writer.  net/http (external) sends the header once, with   *)
(* the header map as it is then; a second WriteHeader changes nothing.     *)

netWriteHeader(rw, code) ==
    IF rw.sent.status # None THEN rw
    ELSE [rw EXCEPT !.sent = [status |-> code, ctype |-> rw.ctype, id |-> rw.id]]

\* Seeded bug: no wroteHeader guard, so a late error rewrites the recorded status.
WriteHeaderUnguarded(rw, code) ==
    netWriteHeader([rw EXCEPT !.rec = [status |-> code, wroteHeader |-> TRUE]], code)

\* statusRecorder.WriteHeader: only the first call is recorded and forwarded.
WriteHeader(rw, code) ==
    IF rw.rec.wroteHeader THEN rw
    ELSE netWriteHeader([rw EXCEPT !.rec = [status |-> code, wroteHeader |-> TRUE]], code)

\* statusRecorder.Write: an implicit 200 when no header has been written.  A
\* chunk written after the client has gone is never delivered.
Write(rw, chunk) ==
    LET opened == netWriteHeader([rw EXCEPT !.rec.wroteHeader = TRUE], 200)
    IN  IF gone THEN opened ELSE [opened EXCEPT !.body = Append(@, chunk)]

SetContentType(rw, ct) == [rw EXCEPT !.ctype = ct]

Reply(rw, ct, code, chunk) == Write(WriteHeader(SetContentType(rw, ct), code), chunk)

writeProblem(rw, p) == Reply(rw, "problem+json", p.status, p)

-----------------------------------------------------------------------------
(* The way in.                                                             *)

requestIDMiddleware ==
    /\ pc = "requestID"
    /\ LET id == IF req.id = None THEN MintedID ELSE req.id
       IN  /\ w' = [w EXCEPT !.id = id]
           /\ ctx' = [ctx EXCEPT !.id = id]
    /\ pc' = "auth"
    /\ UNCHANGED <<conf, req, err, entered, accessLog, errorLog, gone>>

\* bearerToken: the header must have the Bearer scheme and a non-blank token.
bearerToken(r) == r.authorization = "bearer"

authPass ==
    /\ pc = "auth"
    /\ ~conf.required \/ bearerToken(req)
    /\ ctx' = [ctx EXCEPT !.identity = "stub"]
    /\ pc' = "mux"
    /\ UNCHANGED <<conf, req, w, err, entered, accessLog, errorLog, gone>>

authReject ==
    /\ pc = "auth"
    /\ conf.required /\ ~bearerToken(req)
    /\ w' = writeProblem(w, problem(401, "unauthenticated", "fixed", None))
    /\ pc' = "returned"
    /\ UNCHANGED <<conf, req, ctx, err, entered, accessLog, errorLog, gone>>

routeOperation ==
    /\ pc = "mux"
    /\ req.route \in Operations
    /\ pc' = "bind"
    /\ UNCHANGED <<conf, req, ctx, w, err, entered, accessLog, errorLog, gone>>

\* The mux's own replies for a path or a method nobody registered (net/http).
routeNowhere ==
    /\ pc = "mux"
    /\ req.route \in {"unknownPath", "wrongMethod"}
    /\ LET code == IF req.route = "unknownPath" THEN 404 ELSE 405
       IN  w' = Reply(w, "text", code, [kind |-> "text", status |-> code])
    /\ pc' = "returned"
    /\ UNCHANGED <<conf, req, ctx, err, entered, accessLog, errorLog, gone>>

handleOK ==
    /\ pc = "mux"
    /\ req.route = "probe"
    /\ w' = Reply(w, "text", 200, [kind |-> "ok", status |-> 200])
    /\ pc' = "returned"
    /\ UNCHANGED <<conf, req, ctx, err, entered, accessLog, errorLog, gone>>

\* handleSpec: loading or marshalling the embedded contract may fail.
handleSpec ==
    /\ pc = "mux"
    /\ req.route = "spec"
    /\ \/ w' = Reply(w, "yaml", 200, [kind |-> "yaml", status |-> 200])
       \/ w' = writeProblem(w, problem(500, "degraded", "fixed", None))
    /\ pc' = "returned"
    /\ UNCHANGED <<conf, req, ctx, err, entered, accessLog, errorLog, gone>>

\* ServerInterfaceWrapper: a parameter that does not bind ends the request.
bindParams ==
    /\ pc = "bind"
    /\ IF req.paramsOK \/ req.route \in NoParamOps
         THEN pc' = "decode" /\ err' = err
         ELSE pc' = "onError" /\ err' = "param"
    /\ UNCHANGED <<conf, req, ctx, w, entered, accessLog, errorLog, gone>>

\* strictHandler: the body is decoded before the middlewares run.
decodeBody ==
    /\ pc = "decode"
    /\ IF req.bodyOK \/ req.route \notin BodyOps
         THEN pc' = "authz" /\ err' = err
         ELSE pc' = "onError" /\ err' = "decode"
    /\ UNCHANGED <<conf, req, ctx, w, entered, accessLog, errorLog, gone>>

authzMiddleware ==
    /\ pc = "authz"
    /\ IF authzForOperation(req.route) \in conf.policy
         THEN pc' = "handle" /\ err' = err
         ELSE pc' = "onError" /\ err' = "forbidden"
    /\ UNCHANGED <<conf, req, ctx, w, entered, accessLog, errorLog, gone>>

-----------------------------------------------------------------------------
(* The operation and its response.                                         *)

\* A read asks the read model, which answers, reports ErrNotFound or fails;
\* either the read model or the mapping onto the response may panic.
handleRead ==
    /\ pc = "handle"
    /\ req.route \in ReadOps
    /\ entered' = req.route
    /\ \/ pc' = "visit" /\ err' = err
       \/ pc' = "onError" /\ err' \in {"notFound", "failed"}
       \/ pc' = "panicked" /\ err' = "panic"
    /\ UNCHANGED <<conf, req, ctx, w, accessLog, errorLog, gone>>

\* The write surface is inert: every Post* method returns errNotImplemented.
handleWrite ==
    /\ pc = "handle"
    /\ req.route \in WriteOps
    /\ entered' = req.route
    /\ err' = "notImplemented"
    /\ pc' = "onError"
    /\ UNCHANGED <<conf, req, ctx, w, accessLog, errorLog, gone>>

\* Seeded bug: the response is encoded straight onto the wire, so an encoding
\* failure is noticed after the header and part of the body have gone out.
visitResponseUnbuffered ==
    /\ pc = "visit"
    /\ w' = Reply(w, "json", 200, [kind |-> "json", status |-> 200])
    /\ \/ err' = "encode" /\ pc' = "onError"
       \/ pc' = "returned" /\ err' = err
       \/ gone /\ pc' = "onError" /\ err' = "write"
    /\ UNCHANGED <<conf, req, ctx, entered, accessLog, errorLog, gone>>

\* Visit*Response encodes into a buffer first: an encoding failure leaves the
\* response untouched.  Once the client has gone the buffered write may fail.
visitResponse ==
    /\ pc = "visit"
    /\ \/ err' = "encode" /\ w' = w /\ pc' = "onError"
       \/ /\ w' = Reply(w, "json", 200, [kind |-> "json", status |-> 200])
          /\ \/ pc' = "returned" /\ err' = err
             \/ gone /\ pc' = "onError" /\ err' = "write"
    /\ UNCHANGED <<conf, req, ctx, entered, accessLog, errorLog, gone>>

onError ==
    /\ pc = "onError"
    /\ LET p == classify(err, authzForOperation(req.route))
       IN  /\ errorLog' = IF p.status = 500
                            THEN Append(errorLog, [cause |-> err, id |-> ctx.id])
                            ELSE errorLog
           /\ w' = writeProblem(w, p)
    /\ pc' = "returned"
    /\ UNCHANGED <<conf, req, ctx, err, entered, accessLog, gone>>

-----------------------------------------------------------------------------
(* The way out, and the client.                                            *)

\* Seeded bug: the panic is answered but not reported.
recoverMiddlewareSilent ==
    /\ pc = "panicked"
    /\ w' = writeProblem(w, problem(500, "degraded", "fixed", None))
    /\ pc' = "returned"
    /\ UNCHANGED <<conf, req, ctx, err, entered, accessLog, errorLog, gone>>

\* Seeded bug: the nil check on recover() is missing, so a handler that returned
\* is reported and answered as a panic too.
recoverMiddlewareNoNilCheck ==
    /\ pc \in {"panicked", "returned"}
    /\ errorLog' = Append(errorLog, [cause |-> err, id |-> ctx.id])
    /\ w' = writeProblem(w, problem(500, "degraded", "fixed", None))
    /\ pc' = "returned"
    /\ UNCHANGED <<conf, req, ctx, err, entered, accessLog, gone>>

recoverMiddleware ==
    /\ pc = "panicked"
    /\ errorLog' = Append(errorLog, [cause |-> err, id |-> ctx.id])
    /\ w' = writeProblem(w, problem(500, "degraded", "fixed", None))
    /\ pc' = "returned"
    /\ UNCHANGED <<conf, req, ctx, err, entered, accessLog, gone>>

loggingMiddleware ==
    /\ pc = "returned"
    /\ accessLog' = Append(accessLog, [status |-> w.rec.status, id |-> ctx.id])
    /\ pc' = "logged"
    /\ UNCHANGED <<conf, req, ctx, w, err, entered, errorLog, gone>>

\* The client disconnects; the server's steps go on.
disconnect ==
    /\ ~gone
    /\ pc # "logged"
    /\ gone' = TRUE
    /\ UNCHANGED <<conf, req, pc, ctx, w, err, entered, accessLog, errorLog>>

Next ==
    \/ requestIDMiddleware
    \/ authPass
    \/ authReject
    \/ routeOperation
    \/ routeNowhere
    \/ handleOK
    \/ handleSpec
    \/ bindParams
    \/ decodeBody
    \/ authzMiddleware
    \/ handleRead
    \/ handleWrite
    \/ visitResponse
    \/ onError
    \/ recoverMiddleware
    \/ loggingMiddleware
    \/ disconnect

Spec == Init /\ [][Next]_vars
-----------------------------------------------------------------------------
(* What the pipeline promises.                                             *)

\* The verb ADR 0003 section 6 gives each sanctioned write.
WriteVerb == [PostPromotions |-> "promote", PostPromotionsIDApprove |-> "approve",
              PostPromotionsIDCancel |-> "cancel", PostPromotionsIDRetry |-> "retry"]

\* The reads below each top-level path of the contract.
Reads == [applications |-> {"GetApplications", "GetApplicationsName",
                            "GetApplicationsNameMatrix", "GetApplicationsNamePromotions",
                            "GetApplicationsNameReleases"},
          promotions   |-> {"GetPromotions", "GetPromotionsID"},
          releases     |-> {"GetReleases"},
          targets      |-> {"GetTargets", "GetTargetsNameDrift", "GetTargetsNameHealth"},
          environments |-> {"GetEnvironments"},
          diff         |-> {"GetDiff"},
          audit        |-> {"GetAudit"}]

\* A Server method runs only for a caller that auth.Middleware identified (with
\* a bearer token, when one is required), and only past the checkpoint: a write
\* under its own verb, never under a read permission, and a read under the read
\* permission of the resource whose path it is below (an application's
\* promotions and releases are the application's).
GuardedOperations ==
    entered # None =>
        /\ ctx.identity # None
        /\ conf.required => bearerToken(req)
        /\ entered \in WriteOps => <<WriteVerb[entered], "promotions">> \in conf.policy
        /\ entered \in ReadOps =>
              \E r \in DOMAIN Reads : entered \in Reads[r] /\ <<"read", r>> \in conf.policy

\* However a request ends (served, refused, failed, panicked, abandoned by the
\* client half way) loggingMiddleware writes one line for it, carrying the status
\* and the X-Request-Id that went out in the response header; an id the client
\* chose is the one echoed.
AccessLogTruthful ==
    pc = "logged" =>
        /\ Len(accessLog) = 1
        /\ accessLog[1].status = w.sent.status
        /\ accessLog[1].id = w.sent.id
        /\ w.sent.id = IF req.id = None THEN MintedID ELSE req.id

\* A client never receives two bodies, nor a problem document under a success
\* header: what onError or recoverMiddleware writes after a response has begun
\* does not reach it, and a problem's status member is the HTTP status.
OneCoherentAnswer ==
    /\ Len(w.body) <= 1
    /\ \A i \in DOMAIN w.body :
          /\ w.body[i].status = w.sent.status
          /\ (w.body[i].kind = "problem") <=> (w.sent.ctype = "problem+json")

\* When an operation of the contract fails inside the server, a panicking one
\* included, the client gets a fixed detail and the cause is logged under the ID
\* the client has: onError and recoverMiddleware log what they hide (ADR 0009,
\* section 1).  handleSpec, which serves no operation, answers 500 and logs nothing.
CauseLoggedNotLeaked ==
    (pc = "logged" /\ req.route \in Operations /\ w.sent.status = 500) =>
        /\ \E i \in DOMAIN errorLog : errorLog[i].id = w.sent.id
        /\ \A i \in DOMAIN w.body : w.body[i].detail = "fixed"
=============================================================================
