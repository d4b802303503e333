------------------------ MODULE RequestPipelineProofs ------------------------
(***************************************************************************)
(* Proofs that the request pipeline of the API server guards its           *)
(* operations, gives one coherent answer, logs it truthfully and reports   *)
(* hidden causes, for every policy, every client and every way a request   *)
(* can end.                                                                *)
(***************************************************************************)
EXTENDS RequestPipeline, TLAPS

(* The request's ID: the client's, or the one minted for it.               *)
RequestID == IF req.id = None THEN MintedID ELSE req.id

Untouched(rw) ==
    /\ rw.rec = [status |-> 200, wroteHeader |-> FALSE]
    /\ rw.sent.status = None
    /\ rw.body = << >>

Begun(rw) ==
    /\ rw.rec.wroteHeader
    /\ rw.sent.status # None
    /\ rw.sent.status = rw.rec.status

(* What is known where the request is: nothing is written on the way in;   *)
(* only a failed write brings a request that has begun its response to the *)
(* error sink; and on the way out every request has begun one.             *)
ResponseByStep ==
    /\ pc \in {"requestID", "auth", "mux", "bind", "decode", "authz", "handle",
               "visit", "panicked"} => Untouched(w)
    /\ pc = "onError" => Untouched(w) \/ (err = "write" /\ gone /\ Begun(w) /\ w.sent.status = 200)
    /\ pc \in {"returned", "logged"} => Begun(w)
    /\ w.sent.status # None => Begun(w)

(* The context, the header map and what was sent carry the request's ID.   *)
Stamped ==
    /\ pc # "requestID" => w.id = RequestID /\ ctx.id = RequestID
    /\ w.sent.status # None => w.sent.id = RequestID

(* Errors travel only to the handler that takes them.                      *)
ErrorByStep ==
    /\ pc = "onError" => err \in Errors
    /\ pc = "panicked" => err = "panic"

(* Past the mux's operations a request belongs to one, past auth it has an *)
(* identity, and past the checkpoint a permission.                         *)
GuardsByStep ==
    /\ pc \in {"bind", "decode", "authz", "handle", "visit", "onError", "panicked"} =>
          req.route \in Operations
    /\ pc \in {"mux", "bind", "decode", "authz", "handle", "visit", "panicked"} =>
          ctx.identity = "stub" /\ (conf.required => bearerToken(req))
    /\ pc = "requestID" => entered = None
    /\ pc = "handle" => authzForOperation(req.route) \in conf.policy
    /\ entered # None =>
          /\ entered = req.route
          /\ ctx.identity = "stub" /\ (conf.required => bearerToken(req))
          /\ authzForOperation(req.route) \in conf.policy

LogByStep ==
    IF pc = "logged" THEN accessLog = << [status |-> w.rec.status, id |-> ctx.id] >>
                     ELSE accessLog = << >>

(* CauseLoggedNotLeaked as soon as the request has been answered.          *)
CauseReported ==
    (pc \in {"returned", "logged"} /\ req.route \in Operations /\ w.sent.status = 500) =>
        /\ \E i \in DOMAIN errorLog : errorLog[i].id = RequestID
        /\ \A i \in DOMAIN w.body : w.body[i].detail = "fixed"

PipelineInv ==
    /\ TypeOK
    /\ ResponseByStep
    /\ Stamped
    /\ ErrorByStep
    /\ GuardsByStep
    /\ LogByStep
    /\ OneCoherentAnswer
    /\ CauseReported

-----------------------------------------------------------------------------
(* Setting one field of a writer leaves the others alone.                  *)
LEMMA WriterFields ==
    ASSUME NEW rw \in Writers
    PROVE  /\ \A c \in ContentTypes :
                LET r == [rw EXCEPT !.ctype = c]
                IN  r \in Writers /\ r.ctype = c /\ r.id = rw.id /\ r.rec = rw.rec
                    /\ r.sent = rw.sent /\ r.body = rw.body
           /\ \A rec \in [status : Nat, wroteHeader : BOOLEAN] :
                LET r == [rw EXCEPT !.rec = rec]
                IN  r \in Writers /\ r.ctype = rw.ctype /\ r.id = rw.id /\ r.rec = rec
                    /\ r.sent = rw.sent /\ r.body = rw.body
           /\ \A b \in Seq(Chunks) :
                LET r == [rw EXCEPT !.body = b]
                IN  r \in Writers /\ r.ctype = rw.ctype /\ r.id = rw.id /\ r.rec = rw.rec
                    /\ r.sent = rw.sent /\ r.body = b
  BY DEF Writers

(* net/http sends the header once, with the header map as it is then.      *)
LEMMA HeaderSentOnce ==
    ASSUME NEW rw \in Writers, NEW code \in Nat
    PROVE  LET r == netWriteHeader(rw, code)
           IN  /\ r \in Writers /\ r.id = rw.id /\ r.rec = rw.rec /\ r.body = rw.body
               /\ r.sent = IF rw.sent.status # None THEN rw.sent
                           ELSE [status |-> code, ctype |-> rw.ctype, id |-> rw.id]
  BY DEF Writers, netWriteHeader

(* statusRecorder and net/http: the first reply fixes recorder and header, *)
(* a later one changes neither, and a chunk is delivered only to a client  *)
(* that is still there.                                                    *)
LEMMA ReplyShape ==
    ASSUME TypeOK, NEW rw \in Writers, NEW ct \in ContentTypes, NEW code \in Nat, NEW chunk \in Chunks
    PROVE  /\ Reply(rw, ct, code, chunk) \in Writers
           /\ Reply(rw, ct, code, chunk).id = rw.id
           /\ Reply(rw, ct, code, chunk).body = IF gone THEN rw.body ELSE Append(rw.body, chunk)
           /\ Untouched(rw) =>
                /\ Reply(rw, ct, code, chunk).rec = [status |-> code, wroteHeader |-> TRUE]
                /\ Reply(rw, ct, code, chunk).sent = [status |-> code, ctype |-> ct, id |-> rw.id]
           /\ Begun(rw) =>
                /\ Reply(rw, ct, code, chunk).rec = rw.rec
                /\ Reply(rw, ct, code, chunk).sent = rw.sent
  <1> DEFINE r1 == SetContentType(rw, ct)
             r2 == WriteHeader(r1, code)
             r2w == [r2 EXCEPT !.rec = [status |-> r2.rec.status, wroteHeader |-> TRUE]]
             r3 == netWriteHeader(r2w, 200)
  <1>1. r1 \in Writers /\ r1.id = rw.id /\ r1.body = rw.body /\ r1.rec = rw.rec
        /\ r1.sent = rw.sent /\ r1.ctype = ct
    BY WriterFields DEF SetContentType
  <1>2. /\ r2 \in Writers /\ r2.id = rw.id /\ r2.body = rw.body
        /\ Untouched(rw) => /\ r2.rec = [status |-> code, wroteHeader |-> TRUE]
                            /\ r2.sent = [status |-> code, ctype |-> ct, id |-> rw.id]
        /\ Begun(rw) => r2.rec = rw.rec /\ r2.sent = rw.sent
    <2> DEFINE n == [r1 EXCEPT !.rec = [status |-> code, wroteHeader |-> TRUE]]
    <2> HIDE DEF r1
    <2>1. /\ n \in Writers /\ n.id = rw.id /\ n.body = rw.body /\ n.sent = rw.sent
          /\ n.ctype = ct /\ n.rec = [status |-> code, wroteHeader |-> TRUE]
      BY <1>1, WriterFields
    <2> HIDE DEF n
    <2>2. LET r == netWriteHeader(n, code)
          IN  /\ r \in Writers /\ r.id = rw.id /\ r.body = rw.body
              /\ r.rec = [status |-> code, wroteHeader |-> TRUE]
              /\ r.sent = IF rw.sent.status # None THEN rw.sent
                          ELSE [status |-> code, ctype |-> ct, id |-> rw.id]
      BY <2>1, HeaderSentOnce
    <2>3. r2 = IF r1.rec.wroteHeader THEN r1 ELSE netWriteHeader(n, code)
      BY DEF WriteHeader, n
    <2> QED
      BY <1>1, <2>2, <2>3 DEF Untouched, Begun
  <1> HIDE DEF r1, r2
  <1>3. /\ r2w \in Writers /\ r2w.id = rw.id /\ r2w.body = rw.body /\ r2w.sent = r2.sent
        /\ r2w.rec = [status |-> r2.rec.status, wroteHeader |-> TRUE]
    BY <1>2, WriterFields DEF Writers
  <1>4. r2w = [r2 EXCEPT !.rec.wroteHeader = TRUE]
    BY <1>2 DEF Writers
  <1>5. r2.rec = [status |-> r2.rec.status, wroteHeader |-> r2.rec.wroteHeader]
    BY <1>2 DEF Writers
  <1> HIDE DEF r2w
  <1>6. /\ r3 \in Writers /\ r3.id = rw.id /\ r3.body = rw.body
        /\ r3.rec = [status |-> r2.rec.status, wroteHeader |-> TRUE]
        /\ r3.sent = IF r2.sent.status # None THEN r2.sent
                     ELSE [status |-> 200, ctype |-> r2w.ctype, id |-> rw.id]
    BY <1>3, HeaderSentOnce
  <1>7. Reply(rw, ct, code, chunk) = IF gone THEN r3 ELSE [r3 EXCEPT !.body = Append(@, chunk)]
    BY <1>4 DEF Reply, Write, r2, r1
  <1> HIDE DEF r3
  <1>8. rw.body \in Seq(Chunks) /\ Append(rw.body, chunk) \in Seq(Chunks)
    BY DEF Writers
  <1>9. /\ Reply(rw, ct, code, chunk) \in Writers
        /\ Reply(rw, ct, code, chunk).id = rw.id
        /\ Reply(rw, ct, code, chunk).rec = r3.rec
        /\ Reply(rw, ct, code, chunk).sent = r3.sent
        /\ Reply(rw, ct, code, chunk).body = IF gone THEN rw.body ELSE Append(rw.body, chunk)
    <2>1. CASE gone
      BY <2>1, <1>6, <1>7
    <2>2. CASE ~gone
      <3>1. Reply(rw, ct, code, chunk) = [r3 EXCEPT !.body = Append(rw.body, chunk)]
        BY <2>2, <1>6, <1>7
      <3>2. r3 \in Writers
        BY <1>6
      <3>3. LET r == [r3 EXCEPT !.body = Append(rw.body, chunk)]
            IN  r \in Writers /\ r.id = r3.id /\ r.rec = r3.rec
                /\ r.sent = r3.sent /\ r.body = Append(rw.body, chunk)
        BY <3>2, <1>8 DEF Writers
      <3> QED
        BY <2>2, <3>1, <3>3, <1>6
    <2> QED
      BY <2>1, <2>2
  <1>10. ASSUME Untouched(rw)
         PROVE  /\ r3.rec = [status |-> code, wroteHeader |-> TRUE]
                /\ r3.sent = [status |-> code, ctype |-> ct, id |-> rw.id]
    <2>1. code # None
      BY NoneAssumption
    <2>2. /\ r2.rec.status = code
          /\ r2.sent = [status |-> code, ctype |-> ct, id |-> rw.id]
      BY <1>10, <1>2
    <2>3. r2.sent.status = code
      BY <2>2
    <2> QED
      BY <2>1, <2>2, <2>3, <1>6
  <1>11. ASSUME Begun(rw)
         PROVE  r3.rec = rw.rec /\ r3.sent = rw.sent
    <2>1. r2.rec.wroteHeader = TRUE
      BY <1>11, <1>2 DEF Begun, Writers
    <2>2. r2.sent.status # None
      BY <1>11, <1>2 DEF Begun
    <2> QED
      BY <2>1, <2>2, <1>11, <1>2, <1>5, <1>6
  <1> QED
    BY <1>9, <1>10, <1>11

(* A client that has gone receives nothing more.                           *)
LEMMA ReplyToGone ==
    ASSUME TypeOK, gone, NEW rw \in Writers, NEW ct \in ContentTypes, NEW code \in Nat,
           NEW chunk \in Chunks
    PROVE  Reply(rw, ct, code, chunk).body = rw.body
  BY ReplyShape, Zenon

(* The first reply to a request begins its response: the recorder, the     *)
(* header that goes out and the body the client gets agree.                *)
LEMMA FirstReply ==
    ASSUME PipelineInv, Untouched(w), w.id = RequestID, req' = req,
           NEW ct \in ContentTypes, NEW chunk \in Chunks, chunk.status \in Nat,
           (chunk.kind = "problem") <=> (ct = "problem+json"),
           w' = Reply(w, ct, chunk.status, chunk)
    PROVE  /\ w' \in Writers
           /\ Begun(w)'
           /\ w'.sent.status = chunk.status /\ w'.sent.ctype = ct
           /\ w'.id = RequestID' /\ w'.sent.id = RequestID'
           /\ OneCoherentAnswer'
           /\ \A i \in DOMAIN w'.body : w'.body[i] = chunk
  <1>1. TypeOK /\ w \in Writers
    BY DEF PipelineInv, TypeOK
  <1>2. /\ w' \in Writers /\ w'.id = w.id
        /\ w'.body = IF gone THEN w.body ELSE Append(w.body, chunk)
        /\ w'.rec = [status |-> chunk.status, wroteHeader |-> TRUE]
        /\ w'.sent = [status |-> chunk.status, ctype |-> ct, id |-> w.id]
    BY <1>1, ReplyShape
  <1>3. RequestID' = RequestID
    BY DEF RequestID
  <1>4. Begun(w)'
    BY <1>2, NoneAssumption DEF Begun
  <1>5. w'.body = << >> \/ w'.body = << chunk >>
    BY <1>2 DEF Untouched
  <1>6. /\ \A i \in DOMAIN w'.body : w'.body[i] = chunk
        /\ Len(w'.body) <= 1
    <2>1. CASE w'.body = << >>
      BY <2>1
    <2>2. CASE w'.body = << chunk >>
      <3>1. Len(<< chunk >>) = 1 /\ DOMAIN << chunk >> = {1} /\ << chunk >>[1] = chunk
        OBVIOUS
      <3> QED
        BY <2>2, <3>1
    <2> QED
      BY <1>5, <2>1, <2>2
  <1> QED
    BY <1>2, <1>3, <1>4, <1>6 DEF OneCoherentAnswer

(* A reply to a client that has gone, after the response has begun, changes *)
(* nothing the client or the access log can see.                           *)
LEMMA LateReply ==
    ASSUME PipelineInv, Begun(w), gone, req' = req,
           NEW ct \in ContentTypes, NEW chunk \in Chunks, chunk.status \in Nat,
           w' = Reply(w, ct, chunk.status, chunk)
    PROVE  w' \in Writers /\ w'.id = w.id /\ w'.rec = w.rec /\ w'.sent = w.sent
           /\ w'.body = w.body
  <1>1. TypeOK /\ w \in Writers
    BY DEF PipelineInv, TypeOK
  <1>2. /\ w' \in Writers /\ w'.id = w.id /\ w'.body = w.body
        /\ Begun(w) => w'.rec = w.rec /\ w'.sent = w.sent
    <2> DEFINE r == Reply(w, ct, chunk.status, chunk)
    <2>1. r \in Writers /\ r.id = w.id
      BY <1>1, ReplyShape
    <2>2. Begun(w) => r.rec = w.rec /\ r.sent = w.sent
      BY <1>1, ReplyShape
    <2>3. r.body = w.body
      BY <1>1, ReplyToGone
    <2> QED
      BY <2>1, <2>2, <2>3
  <1> QED
    BY <1>2

(* Every problem the pipeline writes is one of the chunks, under a status. *)
LEMMA ProblemChunks ==
    /\ \A e \in Errors, p \in Permissions \cup {None} :
          /\ classify(e, p) \in Chunks
          /\ classify(e, p).status \in Nat
          /\ classify(e, p).kind = "problem" /\ classify(e, p).status # 200
          /\ classify(e, p).status = 500 => classify(e, p).detail = "fixed"
    /\ LET c == problem(401, "unauthenticated", "fixed", None)
       IN  c \in Chunks /\ c.status = 401 /\ c.kind = "problem"
    /\ LET c == problem(500, "degraded", "fixed", None)
       IN  c \in Chunks /\ c.status = 500 /\ c.kind = "problem" /\ c.detail = "fixed"
  <1>1. ASSUME NEW e \in Errors, NEW p \in Permissions \cup {None}
        PROVE  /\ classify(e, p).status \in Nat
               /\ classify(e, p).kind = "problem" /\ classify(e, p).status # 200
               /\ classify(e, p).status = 500 => classify(e, p).detail = "fixed"
    BY DEF classify, problem, Errors
  <1>2. \A e \in Errors, p \in Permissions \cup {None} : classify(e, p) \in Chunks
    BY DEF Chunks
  <1>3. classify("failed", None) = problem(500, "degraded", "fixed", None)
    BY DEF classify
  <1>4. problem(500, "degraded", "fixed", None) \in Chunks
    BY <1>2, <1>3 DEF Errors
  <1>5. problem(401, "unauthenticated", "fixed", None) \in Chunks
    BY DEF Chunks
  <1> QED
    BY <1>1, <1>2, <1>4, <1>5 DEF problem

-----------------------------------------------------------------------------
(* A handler that answers a request nobody has answered, and returns, keeps *)
(* the invariant, provided a 500 to an operation hides a cause it reported. *)
LEMMA Answered ==
    ASSUME PipelineInv, Untouched(w), pc \notin {"requestID", "returned", "logged"},
           pc' = "returned", UNCHANGED <<conf, req, ctx, err, entered, accessLog, gone>>,
           errorLog' \in Seq([cause : Errors \cup {"panic"}, id : IDs]),
           NEW ct \in ContentTypes, NEW chunk \in Chunks, chunk.status \in Nat,
           (chunk.kind = "problem") <=> (ct = "problem+json"),
           w' = Reply(w, ct, chunk.status, chunk),
           chunk.status = 500 /\ req.route \in Operations =>
              /\ chunk.detail = "fixed"
              /\ \E i \in DOMAIN errorLog' : errorLog'[i].id = RequestID
    PROVE  PipelineInv'
  <1>1. w.id = RequestID /\ ctx.id = RequestID /\ RequestID' = RequestID
    BY DEF PipelineInv, Stamped, RequestID
  <1>2. /\ w' \in Writers
        /\ Begun(w)'
        /\ w'.sent.status = chunk.status
        /\ w'.id = RequestID /\ w'.sent.id = RequestID
        /\ OneCoherentAnswer'
        /\ \A i \in DOMAIN w'.body : w'.body[i] = chunk
    BY <1>1, FirstReply
  <1>3. TypeOK'
    BY <1>2 DEF PipelineInv, TypeOK, Steps
  <1>4. ResponseByStep' /\ Stamped' /\ ErrorByStep'
    BY <1>1, <1>2 DEF ResponseByStep, Stamped, ErrorByStep
  <1>5. GuardsByStep'
    BY DEF PipelineInv, GuardsByStep, bearerToken
  <1>6. LogByStep'
    BY DEF PipelineInv, LogByStep
  <1>7. CauseReported'
    BY <1>1, <1>2 DEF CauseReported
  <1> QED
    BY <1>2, <1>3, <1>4, <1>5, <1>6, <1>7 DEF PipelineInv

(* A step that writes nothing keeps what the invariant says of the response.*)
LEMMA Unwritten ==
    ASSUME PipelineInv, UNCHANGED <<conf, req, ctx, w, accessLog, errorLog, gone>>,
           Untouched(w), pc \notin {"requestID", "returned", "logged"},
           pc' \in {"mux", "bind", "decode", "authz", "handle", "visit", "onError", "panicked"},
           err' \in Errors \cup {"panic", None}, entered' \in Operations \cup {None},
           ErrorByStep', GuardsByStep'
    PROVE  PipelineInv'
  <1>1. RequestID' = RequestID
    BY DEF RequestID
  <1>2. TypeOK'
    BY DEF PipelineInv, TypeOK, Steps
  <1>3. ResponseByStep' /\ Stamped'
    BY <1>1 DEF PipelineInv, ResponseByStep, Stamped, Untouched, Begun
  <1>4. LogByStep' /\ OneCoherentAnswer' /\ CauseReported'
    BY DEF PipelineInv, LogByStep, OneCoherentAnswer, CauseReported
  <1> QED
    BY <1>2, <1>3, <1>4 DEF PipelineInv

(* A request that has just arrived has been given nothing.                 *)
LEMMA InvInit == Init => PipelineInv
  <1> SUFFICES ASSUME Init PROVE PipelineInv
    OBVIOUS
  <1>1. w \in Writers /\ Untouched(w)
    BY DEF Init, Writers, Untouched, ContentTypes, IDs
  <1>2. TypeOK
    <2>1. /\ conf \in [required : BOOLEAN, policy : Policies] /\ req \in Requests
          /\ pc \in Steps /\ err \in Errors \cup {"panic", None}
          /\ entered \in Operations \cup {None} /\ gone \in BOOLEAN
      BY DEF Init, Steps
    <2>2. ctx \in [id : IDs, identity : {"stub", None}]
      BY DEF Init, IDs
    <2>3. /\ accessLog \in Seq([status : Nat, id : IDs])
          /\ errorLog \in Seq([cause : Errors \cup {"panic"}, id : IDs])
      BY DEF Init
    <2> QED
      BY <1>1, <2>1, <2>2, <2>3 DEF TypeOK
  <1>3. ResponseByStep /\ Stamped /\ ErrorByStep
    BY <1>1 DEF Init, ResponseByStep, Stamped, ErrorByStep, Untouched
  <1>4. GuardsByStep /\ LogByStep
    BY DEF Init, GuardsByStep, LogByStep
  <1>5. OneCoherentAnswer
    BY DEF Init, OneCoherentAnswer
  <1>6. CauseReported
    BY DEF Init, CauseReported
  <1> QED
    BY <1>2, <1>3, <1>4, <1>5, <1>6 DEF PipelineInv

(* Every step of the request, and the client's leaving, keeps it.          *)
LEMMA InvNext == PipelineInv /\ [Next]_vars => PipelineInv'
  <1> SUFFICES ASSUME PipelineInv, [Next]_vars PROVE PipelineInv'
    OBVIOUS
  <1> USE DEF PipelineInv
  <1>1. CASE requestIDMiddleware
    <2>1. /\ w' = [w EXCEPT !.id = RequestID] /\ ctx' = [ctx EXCEPT !.id = RequestID]
          /\ RequestID' = RequestID /\ RequestID \in IDs
      BY <1>1 DEF requestIDMiddleware, RequestID, TypeOK, Requests, IDs
    <2>2. /\ w' \in Writers /\ w'.id = RequestID /\ w'.rec = w.rec /\ w'.sent = w.sent
          /\ w'.body = w.body /\ w'.ctype = w.ctype
      BY <2>1 DEF TypeOK, Writers
    <2>3. ctx' \in [id : IDs, identity : {"stub", None}] /\ ctx'.id = RequestID
      BY <2>1 DEF TypeOK
    <2>4. TypeOK'
      BY <1>1, <2>2, <2>3 DEF requestIDMiddleware, TypeOK, Steps
    <2>5. ResponseByStep' /\ Stamped' /\ ErrorByStep' /\ LogByStep'
      BY <1>1, <2>1, <2>2, <2>3
      DEF requestIDMiddleware, ResponseByStep, Stamped, ErrorByStep, LogByStep, Untouched
    <2>6. GuardsByStep'
      BY <1>1 DEF requestIDMiddleware, GuardsByStep
    <2>7. OneCoherentAnswer' /\ CauseReported'
      BY <1>1, <2>2 DEF requestIDMiddleware, OneCoherentAnswer, CauseReported
    <2> QED
      BY <2>4, <2>5, <2>6, <2>7
  <1>2. CASE authPass
    <2>1. /\ ctx' = [id |-> ctx.id, identity |-> "stub"]
          /\ ctx' \in [id : IDs, identity : {"stub", None}]
      BY <1>2 DEF authPass, TypeOK
    <2>2. RequestID' = RequestID
      BY <1>2 DEF authPass, RequestID
    <2>3. TypeOK'
      BY <1>2, <2>1 DEF authPass, TypeOK, Steps
    <2>4. ResponseByStep' /\ Stamped' /\ ErrorByStep' /\ LogByStep'
      BY <1>2, <2>1, <2>2
      DEF authPass, ResponseByStep, Stamped, ErrorByStep, LogByStep, Untouched, Begun
    <2>5. GuardsByStep'
      BY <1>2, <2>1 DEF authPass, GuardsByStep, bearerToken
    <2>6. OneCoherentAnswer' /\ CauseReported'
      BY <1>2 DEF authPass, OneCoherentAnswer, CauseReported
    <2> QED
      BY <2>3, <2>4, <2>5, <2>6
  <1>3. CASE authReject
    <2> DEFINE c == problem(401, "unauthenticated", "fixed", None)
    <2>1. c \in Chunks /\ c.status = 401 /\ c.kind = "problem"
      BY ProblemChunks
    <2> HIDE DEF c
    <2>2. w' = Reply(w, "problem+json", c.status, c)
      BY <1>3 DEF authReject, writeProblem, c
    <2>3. Untouched(w) /\ errorLog' \in Seq([cause : Errors \cup {"panic"}, id : IDs])
      BY <1>3 DEF authReject, ResponseByStep, TypeOK
    <2> QED
      BY <1>3, <2>1, <2>2, <2>3, Answered DEF authReject, ContentTypes
  <1>4. CASE routeOperation
    <2>1. Untouched(w)
      BY <1>4 DEF routeOperation, ResponseByStep
    <2>2. ErrorByStep' /\ GuardsByStep'
      BY <1>4 DEF routeOperation, ErrorByStep, GuardsByStep, bearerToken
    <2> QED
      BY <1>4, <2>1, <2>2, Unwritten DEF routeOperation, TypeOK
  <1>5. CASE routeNowhere
    <2> DEFINE code == IF req.route = "unknownPath" THEN 404 ELSE 405
               c == [kind |-> "text", status |-> code]
    <2>1. c \in Chunks /\ c.status \in Nat /\ c.status # 500 /\ c.kind = "text"
      BY DEF Chunks
    <2>2. w' = Reply(w, "text", c.status, c)
      BY <1>5 DEF routeNowhere
    <2> HIDE DEF c
    <2>3. Untouched(w) /\ errorLog' \in Seq([cause : Errors \cup {"panic"}, id : IDs])
      BY <1>5 DEF routeNowhere, ResponseByStep, TypeOK
    <2> QED
      BY <1>5, <2>1, <2>2, <2>3, Answered DEF routeNowhere, ContentTypes
  <1>6. CASE handleOK
    <2> DEFINE c == [kind |-> "ok", status |-> 200]
    <2>1. c \in Chunks /\ c.status = 200 /\ c.kind = "ok"
      BY DEF Chunks
    <2>2. w' = Reply(w, "text", c.status, c)
      BY <1>6 DEF handleOK
    <2> HIDE DEF c
    <2>3. Untouched(w) /\ errorLog' \in Seq([cause : Errors \cup {"panic"}, id : IDs])
      BY <1>6 DEF handleOK, ResponseByStep, TypeOK
    <2> QED
      BY <1>6, <2>1, <2>2, <2>3, Answered DEF handleOK, ContentTypes
  <1>7. CASE handleSpec
    <2> DEFINE y == [kind |-> "yaml", status |-> 200]
               d == problem(500, "degraded", "fixed", None)
    <2>1. y \in Chunks /\ y.status = 200 /\ y.kind = "yaml"
      BY DEF Chunks
    <2>2. d \in Chunks /\ d.status = 500 /\ d.kind = "problem"
      BY ProblemChunks
    <2>3. w' = Reply(w, "yaml", y.status, y) \/ w' = Reply(w, "problem+json", d.status, d)
      BY <1>7 DEF handleSpec, writeProblem
    <2> HIDE DEF y, d
    <2>4. Untouched(w) /\ errorLog' \in Seq([cause : Errors \cup {"panic"}, id : IDs])
      BY <1>7 DEF handleSpec, ResponseByStep, TypeOK
    <2>5. req.route \notin Operations
      BY <1>7 DEF handleSpec, Operations, ReadOps, WriteOps
    <2>6. CASE w' = Reply(w, "yaml", y.status, y)
      BY <1>7, <2>1, <2>4, <2>6, Answered DEF handleSpec, ContentTypes
    <2>7. CASE w' = Reply(w, "problem+json", d.status, d)
      BY <1>7, <2>2, <2>4, <2>5, <2>7, Answered DEF handleSpec, ContentTypes
    <2> QED
      BY <2>3, <2>6, <2>7
  <1>8. CASE bindParams
    <2>1. Untouched(w)
      BY <1>8 DEF bindParams, ResponseByStep
    <2>2. ErrorByStep' /\ GuardsByStep'
      BY <1>8 DEF bindParams, ErrorByStep, GuardsByStep, Errors, bearerToken
    <2> QED
      BY <1>8, <2>1, <2>2, Unwritten DEF bindParams, TypeOK, Errors
  <1>9. CASE decodeBody
    <2>1. Untouched(w)
      BY <1>9 DEF decodeBody, ResponseByStep
    <2>2. ErrorByStep' /\ GuardsByStep'
      BY <1>9 DEF decodeBody, ErrorByStep, GuardsByStep, Errors, bearerToken
    <2> QED
      BY <1>9, <2>1, <2>2, Unwritten DEF decodeBody, TypeOK, Errors
  <1>10. CASE authzMiddleware
    <2>1. Untouched(w)
      BY <1>10 DEF authzMiddleware, ResponseByStep
    <2>2. ErrorByStep' /\ GuardsByStep'
      BY <1>10 DEF authzMiddleware, ErrorByStep, GuardsByStep, Errors, bearerToken
    <2> QED
      BY <1>10, <2>1, <2>2, Unwritten DEF authzMiddleware, TypeOK, Errors
  <1>11. CASE handleRead
    <2>1. Untouched(w)
      BY <1>11 DEF handleRead, ResponseByStep
    <2>2. ErrorByStep' /\ GuardsByStep'
      BY <1>11 DEF handleRead, ErrorByStep, GuardsByStep, Errors, bearerToken, Operations
    <2> QED
      BY <1>11, <2>1, <2>2, Unwritten DEF handleRead, TypeOK, Errors, Operations
  <1>12. CASE handleWrite
    <2>1. Untouched(w)
      BY <1>12 DEF handleWrite, ResponseByStep
    <2>2. ErrorByStep' /\ GuardsByStep'
      BY <1>12 DEF handleWrite, ErrorByStep, GuardsByStep, Errors, bearerToken, Operations
    <2> QED
      BY <1>12, <2>1, <2>2, Unwritten DEF handleWrite, TypeOK, Errors, Operations
  <1>13. CASE visitResponse
    <2> DEFINE c == [kind |-> "json", status |-> 200]
    <2>1. c \in Chunks /\ c.status = 200 /\ c.kind = "json"
      BY DEF Chunks
    <2>2. Untouched(w)
      BY <1>13 DEF visitResponse, ResponseByStep
    <2>3. CASE err' = "encode" /\ w' = w /\ pc' = "onError"
      <3>1. ErrorByStep' /\ GuardsByStep'
        BY <1>13, <2>3 DEF visitResponse, ErrorByStep, GuardsByStep, Errors, bearerToken
      <3> QED
        BY <1>13, <2>2, <2>3, <3>1, Unwritten DEF visitResponse, TypeOK, Errors
    <2>4. CASE w' = Reply(w, "json", c.status, c) /\ pc' = "returned" /\ err' = err
      <3> HIDE DEF c
      <3>1. errorLog' \in Seq([cause : Errors \cup {"panic"}, id : IDs])
        BY <1>13 DEF visitResponse, TypeOK
      <3> QED
        BY <1>13, <2>1, <2>2, <2>4, <3>1, Answered DEF visitResponse, ContentTypes
    <2>5. CASE w' = Reply(w, "json", c.status, c) /\ gone /\ pc' = "onError" /\ err' = "write"
      <3> HIDE DEF c
      <3>1. w.id = RequestID /\ ctx.id = RequestID /\ RequestID' = RequestID
        BY <1>13 DEF visitResponse, Stamped, RequestID
      <3>2. /\ w' \in Writers /\ Begun(w)' /\ w'.sent.status = 200
            /\ w'.id = RequestID' /\ w'.sent.id = RequestID' /\ OneCoherentAnswer'
        BY <1>13, <2>1, <2>2, <2>5, <3>1, FirstReply DEF visitResponse, ContentTypes
      <3>3. TypeOK'
        BY <1>13, <2>5, <3>2 DEF visitResponse, TypeOK, Steps, Errors
      <3>4. ResponseByStep'
        BY <1>13, <2>5, <3>2 DEF visitResponse, ResponseByStep
      <3>5. Stamped' /\ ErrorByStep' /\ GuardsByStep'
        BY <1>13, <2>5, <3>1, <3>2
        DEF visitResponse, Stamped, ErrorByStep, Errors, GuardsByStep, bearerToken
      <3>6. LogByStep' /\ CauseReported'
        BY <1>13, <2>5 DEF visitResponse, LogByStep, CauseReported
      <3> QED
        BY <3>2, <3>3, <3>4, <3>5, <3>6
    <2> QED
      BY <1>13, <2>3, <2>4, <2>5 DEF visitResponse
  <1>14. CASE onError
    <2> DEFINE p == classify(err, authzForOperation(req.route))
    <2>1. err \in Errors /\ req.route \in Operations
      BY <1>14 DEF onError, ErrorByStep, GuardsByStep
    <2>2. /\ p \in Chunks /\ p.status \in Nat /\ p.kind = "problem"
          /\ p.status = 500 => p.detail = "fixed"
      BY <2>1, ProblemChunks DEF Permissions
    <2>3. /\ errorLog' = IF p.status = 500
                          THEN Append(errorLog, [cause |-> err, id |-> ctx.id]) ELSE errorLog
          /\ w' = Reply(w, "problem+json", p.status, p)
      BY <1>14 DEF onError, writeProblem
    <2> HIDE DEF p
    <2>4. ctx.id = RequestID /\ w.id = RequestID /\ RequestID' = RequestID /\ ctx.id \in IDs
      BY <1>14 DEF onError, Stamped, RequestID, TypeOK
    <2>5. /\ errorLog' \in Seq([cause : Errors \cup {"panic"}, id : IDs])
          /\ p.status = 500 => \E i \in DOMAIN errorLog' : errorLog'[i].id = RequestID
      <3> DEFINE line == [cause |-> err, id |-> ctx.id]
      <3>1. line \in [cause : Errors \cup {"panic"}, id : IDs] /\ line.id = RequestID
        BY <2>1, <2>4
      <3>2. errorLog \in Seq([cause : Errors \cup {"panic"}, id : IDs])
        BY DEF TypeOK
      <3> HIDE DEF line
      <3>3. /\ Append(errorLog, line) \in Seq([cause : Errors \cup {"panic"}, id : IDs])
            /\ Len(errorLog) + 1 \in DOMAIN Append(errorLog, line)
            /\ Append(errorLog, line)[Len(errorLog) + 1] = line
        BY <3>1, <3>2
      <3> QED
        BY <2>3, <3>1, <3>2, <3>3 DEF line
    <2>6. CASE Untouched(w)
      BY <1>14, <2>2, <2>3, <2>5, <2>6, Answered DEF onError, ContentTypes
    <2>7. CASE gone /\ Begun(w) /\ w.sent.status = 200
      <3>1. w' \in Writers /\ w'.id = w.id /\ w'.rec = w.rec /\ w'.sent = w.sent
            /\ w'.body = w.body
        BY <1>14, <2>2, <2>3, <2>7, LateReply DEF onError, ContentTypes
      <3>2. TypeOK'
        BY <1>14, <2>5, <3>1 DEF onError, TypeOK, Steps
      <3>3. ResponseByStep' /\ Stamped' /\ ErrorByStep'
        BY <1>14, <2>4, <2>7, <3>1
        DEF onError, ResponseByStep, Stamped, ErrorByStep, Begun
      <3>4. GuardsByStep' /\ LogByStep'
        BY <1>14 DEF onError, GuardsByStep, LogByStep, bearerToken
      <3>5. OneCoherentAnswer' /\ CauseReported'
        BY <1>14, <2>7, <3>1 DEF onError, OneCoherentAnswer, CauseReported
      <3> QED
        BY <3>2, <3>3, <3>4, <3>5
    <2> QED
      BY <1>14, <2>6, <2>7 DEF onError, ResponseByStep
  <1>15. CASE recoverMiddleware
    <2> DEFINE d == problem(500, "degraded", "fixed", None)
               line == [cause |-> err, id |-> ctx.id]
    <2>1. d \in Chunks /\ d.status = 500 /\ d.kind = "problem" /\ d.detail = "fixed"
      BY ProblemChunks
    <2>2. /\ errorLog' = Append(errorLog, line)
          /\ w' = Reply(w, "problem+json", d.status, d)
      BY <1>15 DEF recoverMiddleware, writeProblem
    <2>3. /\ line \in [cause : Errors \cup {"panic"}, id : IDs] /\ line.id = RequestID
          /\ Untouched(w)
      BY <1>15 DEF recoverMiddleware, ErrorByStep, Stamped, ResponseByStep, TypeOK
    <2>4. errorLog \in Seq([cause : Errors \cup {"panic"}, id : IDs])
      BY DEF TypeOK
    <2> HIDE DEF d, line
    <2>5. /\ errorLog' \in Seq([cause : Errors \cup {"panic"}, id : IDs])
          /\ \E i \in DOMAIN errorLog' : errorLog'[i].id = RequestID
      <3>1. /\ Append(errorLog, line) \in Seq([cause : Errors \cup {"panic"}, id : IDs])
            /\ Len(errorLog) + 1 \in DOMAIN Append(errorLog, line)
            /\ Append(errorLog, line)[Len(errorLog) + 1] = line
        BY <2>3, <2>4
      <3> QED
        BY <2>2, <2>3, <3>1
    <2> QED
      BY <1>15, <2>1, <2>2, <2>3, <2>5, Answered DEF recoverMiddleware, ContentTypes
  <1>16. CASE loggingMiddleware
    <2> DEFINE line == [status |-> w.rec.status, id |-> ctx.id]
    <2>1. accessLog' = << line >>
      BY <1>16 DEF loggingMiddleware, LogByStep
    <2>2. line \in [status : Nat, id : IDs]
      BY DEF TypeOK, Writers
    <2>3. accessLog' \in Seq([status : Nat, id : IDs])
      BY <2>1, <2>2
    <2>4. TypeOK'
      BY <1>16, <2>3 DEF loggingMiddleware, TypeOK, Steps
    <2>5. RequestID' = RequestID
      BY <1>16 DEF loggingMiddleware, RequestID
    <2>6. ResponseByStep' /\ Stamped' /\ ErrorByStep'
      BY <1>16, <2>5 DEF loggingMiddleware, ResponseByStep, Stamped, ErrorByStep, Begun
    <2>7. GuardsByStep' /\ LogByStep'
      BY <1>16, <2>1 DEF loggingMiddleware, GuardsByStep, LogByStep, bearerToken
    <2>8. OneCoherentAnswer' /\ CauseReported'
      BY <1>16, <2>5 DEF loggingMiddleware, OneCoherentAnswer, CauseReported
    <2> QED
      BY <2>4, <2>6, <2>7, <2>8
  <1>17. CASE disconnect
    <2>1. RequestID' = RequestID
      BY <1>17 DEF disconnect, RequestID
    <2>2. TypeOK'
      BY <1>17 DEF disconnect, TypeOK
    <2>3. ResponseByStep' /\ Stamped' /\ ErrorByStep'
      BY <1>17, <2>1 DEF disconnect, ResponseByStep, Stamped, ErrorByStep, Begun, Untouched
    <2>4. GuardsByStep' /\ LogByStep'
      BY <1>17 DEF disconnect, GuardsByStep, LogByStep, bearerToken
    <2>5. OneCoherentAnswer' /\ CauseReported'
      BY <1>17, <2>1 DEF disconnect, OneCoherentAnswer, CauseReported
    <2> QED
      BY <2>2, <2>3, <2>4, <2>5
  <1>18. CASE UNCHANGED vars
    <2>1. RequestID' = RequestID
      BY <1>18 DEF vars, RequestID
    <2>2. TypeOK'
      BY <1>18 DEF vars, TypeOK
    <2>3. ResponseByStep' /\ Stamped' /\ ErrorByStep'
      BY <1>18, <2>1 DEF vars, ResponseByStep, Stamped, ErrorByStep, Begun, Untouched
    <2>4. GuardsByStep' /\ LogByStep'
      BY <1>18 DEF vars, GuardsByStep, LogByStep, bearerToken
    <2>5. OneCoherentAnswer' /\ CauseReported'
      BY <1>18, <2>1 DEF vars, OneCoherentAnswer, CauseReported
    <2> QED
      BY <2>2, <2>3, <2>4, <2>5
  <1> QED
    BY <1>1, <1>2, <1>3, <1>4, <1>5, <1>6, <1>7, <1>8, <1>9, <1>10, <1>11, <1>12,
       <1>13, <1>14, <1>15, <1>16, <1>17, <1>18 DEF Next

-----------------------------------------------------------------------------
(* Where an answer comes from: JSON only from an operation that was entered *)
(* and did not fail, a problem never under 200, and an operation answers    *)
(* with nothing else.                                                       *)
ServedByStep ==
    /\ pc \in {"requestID", "auth", "mux", "bind", "decode", "authz", "handle", "visit"} =>
          err = None
    /\ pc = "visit" => entered = req.route
    /\ pc = "onError" => w.body = << >>
    /\ \A i \in DOMAIN w.body :
          /\ w.body[i].kind = "json" =>
                /\ req.route \in Operations /\ entered = req.route /\ err = None
                /\ w.sent.status = 200 /\ w.sent.ctype = "json"
          /\ w.body[i].kind = "problem" => w.sent.status # 200
          /\ req.route \in Operations => w.body[i].kind \in {"json", "problem"}
          /\ w.sent.ctype = "json" => w.body[i].kind = "json"

(* Nothing has been served yet.                                            *)
LEMMA ServedInit == Init => ServedByStep
  BY DEF Init, ServedByStep

(* A first reply keeps it if the chunk is of the right kind.               *)
LEMMA ServedAnswer ==
    ASSUME PipelineInv, Untouched(w), w.id = RequestID, pc' \in {"returned", "logged"},
           UNCHANGED <<req, entered, err>>,
           NEW ct \in ContentTypes, NEW chunk \in Chunks, chunk.status \in Nat,
           (chunk.kind = "problem") <=> (ct = "problem+json"),
           (chunk.kind = "json") <=> (ct = "json"),
           w' = Reply(w, ct, chunk.status, chunk),
           chunk.kind = "json" => /\ req.route \in Operations /\ entered = req.route
                                  /\ err = None /\ chunk.status = 200,
           chunk.kind = "problem" => chunk.status # 200,
           req.route \in Operations => chunk.kind \in {"json", "problem"}
    PROVE  ServedByStep'
  <1>1. /\ w'.sent.status = chunk.status /\ w'.sent.ctype = ct
        /\ \A i \in DOMAIN w'.body : w'.body[i] = chunk
    BY FirstReply
  <1> QED
    BY <1>1 DEF ServedByStep

(* No step breaks what is known of the served operation.                   *)
LEMMA ServedNext == PipelineInv /\ ServedByStep /\ [Next]_vars => ServedByStep'
  <1> SUFFICES ASSUME PipelineInv, ServedByStep, [Next]_vars PROVE ServedByStep'
    OBVIOUS
  <1>0. /\ pc # "requestID" => w.id = RequestID
        /\ pc \in {"auth", "mux", "visit", "panicked"} => Untouched(w)
    BY DEF PipelineInv, Stamped, ResponseByStep
  <1>1. CASE requestIDMiddleware
    <2>1. w'.body = << >>
      BY <1>1 DEF requestIDMiddleware, PipelineInv, ResponseByStep, Untouched, TypeOK, Writers
    <2> QED
      BY <1>1, <2>1 DEF requestIDMiddleware, ServedByStep
  <1>2. CASE authPass \/ routeOperation \/ bindParams \/ decodeBody \/ authzMiddleware
    <2>1. w.body = << >>
      BY <1>2 DEF authPass, routeOperation, bindParams, decodeBody, authzMiddleware,
                  PipelineInv, ResponseByStep, Untouched
    <2> QED
      BY <1>2, <2>1 DEF authPass, routeOperation, bindParams, decodeBody, authzMiddleware,
                        ServedByStep
  <1>3. CASE authReject
    <2> DEFINE c == problem(401, "unauthenticated", "fixed", None)
    <2>1. c \in Chunks /\ c.status = 401 /\ c.kind = "problem"
      BY ProblemChunks
    <2> HIDE DEF c
    <2>2. w' = Reply(w, "problem+json", c.status, c)
      BY <1>3 DEF authReject, writeProblem, c
    <2> QED
      BY <1>0, <1>3, <2>1, <2>2, ServedAnswer DEF authReject, ContentTypes
  <1>4. CASE routeNowhere
    <2> DEFINE code == IF req.route = "unknownPath" THEN 404 ELSE 405
               c == [kind |-> "text", status |-> code]
    <2>1. c \in Chunks /\ c.status \in Nat /\ c.kind = "text"
      BY DEF Chunks
    <2>2. w' = Reply(w, "text", c.status, c)
      BY <1>4 DEF routeNowhere
    <2> HIDE DEF c
    <2>3. req.route \notin Operations
      BY <1>4 DEF routeNowhere, Operations, ReadOps, WriteOps
    <2> QED
      BY <1>0, <1>4, <2>1, <2>2, <2>3, ServedAnswer DEF routeNowhere, ContentTypes
  <1>5. CASE handleOK
    <2> DEFINE c == [kind |-> "ok", status |-> 200]
    <2>1. c \in Chunks /\ c.status = 200 /\ c.kind = "ok"
      BY DEF Chunks
    <2>2. w' = Reply(w, "text", c.status, c)
      BY <1>5 DEF handleOK
    <2> HIDE DEF c
    <2>3. req.route \notin Operations
      BY <1>5 DEF handleOK, Operations, ReadOps, WriteOps
    <2> QED
      BY <1>0, <1>5, <2>1, <2>2, <2>3, ServedAnswer DEF handleOK, ContentTypes
  <1>6. CASE handleSpec
    <2> DEFINE y == [kind |-> "yaml", status |-> 200]
               d == problem(500, "degraded", "fixed", None)
    <2>1. y \in Chunks /\ y.status = 200 /\ y.kind = "yaml"
      BY DEF Chunks
    <2>2. d \in Chunks /\ d.status = 500 /\ d.kind = "problem"
      BY ProblemChunks
    <2>3. w' = Reply(w, "yaml", y.status, y) \/ w' = Reply(w, "problem+json", d.status, d)
      BY <1>6 DEF handleSpec, writeProblem
    <2> HIDE DEF y, d
    <2>4. req.route \notin Operations
      BY <1>6 DEF handleSpec, Operations, ReadOps, WriteOps
    <2>5. CASE w' = Reply(w, "yaml", y.status, y)
      BY <1>0, <1>6, <2>1, <2>4, <2>5, ServedAnswer DEF handleSpec, ContentTypes
    <2>6. CASE w' = Reply(w, "problem+json", d.status, d)
      BY <1>0, <1>6, <2>2, <2>4, <2>6, ServedAnswer DEF handleSpec, ContentTypes
    <2> QED
      BY <2>3, <2>5, <2>6
  <1>7. CASE handleRead \/ handleWrite
    <2>1. w.body = << >>
      BY <1>7 DEF handleRead, handleWrite, PipelineInv, ResponseByStep, Untouched
    <2> QED
      BY <1>7, <2>1 DEF handleRead, handleWrite, ServedByStep
  <1>8. CASE visitResponse
    <2> DEFINE c == [kind |-> "json", status |-> 200]
    <2>1. c \in Chunks /\ c.status = 200 /\ c.kind = "json"
      BY DEF Chunks
    <2>2. CASE err' = "encode" /\ w' = w /\ pc' = "onError"
      <3>1. w.body = << >>
        BY <1>0, <1>8 DEF visitResponse, Untouched
      <3> QED
        BY <1>8, <2>2, <3>1 DEF visitResponse, ServedByStep
    <2>3. CASE w' = Reply(w, "json", c.status, c) /\ pc' = "returned" /\ err' = err
      <3> HIDE DEF c
      <3>1. req.route \in Operations /\ entered = req.route /\ err = None
        BY <1>8 DEF visitResponse, ServedByStep, PipelineInv, GuardsByStep
      <3> QED
        BY <1>0, <1>8, <2>1, <2>3, <3>1, ServedAnswer DEF visitResponse, ContentTypes
    <2>4. CASE w' = Reply(w, "json", c.status, c) /\ gone /\ pc' = "onError" /\ err' = "write"
      <3> HIDE DEF c
      <3>1. w'.body = << >>
        <4>1. w.body = << >> /\ TypeOK /\ w \in Writers /\ c.status \in Nat
          BY <1>0, <1>8, <2>1 DEF visitResponse, Untouched, PipelineInv, TypeOK
        <4>2. "json" \in ContentTypes
          BY DEF ContentTypes
        <4>3. Reply(w, "json", c.status, c).body = w.body
          BY <2>1, <2>4, <4>1, <4>2, ReplyToGone
        <4> QED
          BY <2>4, <4>1, <4>3
      <3> QED
        BY <2>4, <3>1 DEF ServedByStep
    <2> QED
      BY <1>8, <2>2, <2>3, <2>4 DEF visitResponse
  <1>9. CASE onError
    <2> DEFINE p == classify(err, authzForOperation(req.route))
    <2>1. err \in Errors /\ req.route \in Operations
      BY <1>9 DEF onError, PipelineInv, ErrorByStep, GuardsByStep
    <2>2. p \in Chunks /\ p.status \in Nat /\ p.kind = "problem" /\ p.status # 200
      BY <2>1, ProblemChunks DEF Permissions
    <2>3. w' = Reply(w, "problem+json", p.status, p)
      BY <1>9 DEF onError, writeProblem
    <2> HIDE DEF p
    <2>4. CASE Untouched(w)
      BY <1>0, <1>9, <2>2, <2>3, <2>4, ServedAnswer DEF onError, ContentTypes
    <2>5. CASE gone /\ Begun(w)
      <3>1. w'.body = w.body
        BY <1>9, <2>2, <2>3, <2>5, LateReply DEF onError, ContentTypes
      <3> QED
        BY <1>9, <3>1 DEF onError, ServedByStep
    <2> QED
      BY <1>9, <2>4, <2>5 DEF onError, PipelineInv, ResponseByStep
  <1>10. CASE recoverMiddleware
    <2> DEFINE d == problem(500, "degraded", "fixed", None)
    <2>1. d \in Chunks /\ d.status = 500 /\ d.kind = "problem"
      BY ProblemChunks
    <2>2. w' = Reply(w, "problem+json", d.status, d)
      BY <1>10 DEF recoverMiddleware, writeProblem
    <2> HIDE DEF d
    <2> QED
      BY <1>0, <1>10, <2>1, <2>2, ServedAnswer DEF recoverMiddleware, ContentTypes
  <1>11. CASE loggingMiddleware \/ disconnect
    BY <1>11 DEF loggingMiddleware, disconnect, ServedByStep
  <1>12. CASE UNCHANGED vars
    BY <1>12 DEF vars, ServedByStep
  <1> QED
    BY <1>1, <1>2, <1>3, <1>4, <1>5, <1>6, <1>7, <1>8, <1>9, <1>10, <1>11, <1>12 DEF Next

-----------------------------------------------------------------------------
(* The resource a read is judged by is the one whose path it is below.     *)
LEMMA ReadsHaveResource ==
    ASSUME NEW op \in ReadOps
    PROVE  /\ authzForOperation(op) = <<"read", resourceOf(op)>>
           /\ resourceOf(op) \in DOMAIN Reads /\ op \in Reads[resourceOf(op)]
  <1>1. authzForOperation(op) = <<"read", resourceOf(op)>>
    BY DEF ReadOps, authzForOperation
  <1>2. resourceOf(op) \in DOMAIN Reads /\ op \in Reads[resourceOf(op)]
    BY DEF ReadOps, resourceOf, Reads
  <1> QED  BY <1>1, <1>2

(* Permission for an operation is permission for its own verb and resource. *)
LEMMA InvGuards == PipelineInv => GuardedOperations
  <1> SUFFICES ASSUME PipelineInv, entered # None
               PROVE  /\ ctx.identity # None
                      /\ conf.required => bearerToken(req)
                      /\ entered \in WriteOps => <<WriteVerb[entered], "promotions">> \in conf.policy
                      /\ entered \in ReadOps =>
                            \E r \in DOMAIN Reads : entered \in Reads[r] /\ <<"read", r>> \in conf.policy
    BY DEF GuardedOperations
  <1>1. /\ ctx.identity = "stub" /\ (conf.required => bearerToken(req))
        /\ authzForOperation(entered) \in conf.policy
    BY DEF PipelineInv, GuardsByStep
  <1>2. ctx.identity # None
    BY <1>1, NoneAssumption
  <1>3. entered \in WriteOps => authzForOperation(entered) = <<WriteVerb[entered], "promotions">>
    BY DEF WriteOps, WriteVerb, authzForOperation
  <1>4. ASSUME entered \in ReadOps
        PROVE  \E r \in DOMAIN Reads : entered \in Reads[r] /\ <<"read", r>> \in conf.policy
    BY <1>1, <1>4, ReadsHaveResource, Zenon
  <1> QED
    BY <1>1, <1>2, <1>3, <1>4

(* At the end the recorder has what was sent, and the log has the recorder. *)
LEMMA InvLog == PipelineInv => AccessLogTruthful
  <1> SUFFICES ASSUME PipelineInv, pc = "logged"
               PROVE  /\ Len(accessLog) = 1
                      /\ accessLog[1].status = w.sent.status
                      /\ accessLog[1].id = w.sent.id
                      /\ w.sent.id = RequestID
    BY DEF AccessLogTruthful, RequestID
  <1>1. accessLog = << [status |-> w.rec.status, id |-> ctx.id] >>
    BY DEF PipelineInv, LogByStep
  <1>2. Len(accessLog) = 1 /\ accessLog[1] = [status |-> w.rec.status, id |-> ctx.id]
    BY <1>1
  <1>3. w.sent.status # None /\ w.sent.status = w.rec.status
    BY DEF PipelineInv, ResponseByStep, Begun
  <1>4. w.sent.id = RequestID /\ ctx.id = RequestID
    BY <1>3 DEF PipelineInv, Stamped
  <1> QED
    BY <1>2, <1>3, <1>4

(* At the end a hidden cause has been logged.                              *)
LEMMA InvCause == PipelineInv => CauseLoggedNotLeaked
  <1> SUFFICES ASSUME PipelineInv, pc = "logged", req.route \in Operations, w.sent.status = 500
               PROVE  /\ \E i \in DOMAIN errorLog : errorLog[i].id = w.sent.id
                      /\ \A i \in DOMAIN w.body : w.body[i].detail = "fixed"
    BY DEF CauseLoggedNotLeaked
  <1>1. w.sent.id = RequestID
    BY DEF PipelineInv, ResponseByStep, Begun, Stamped
  <1> QED
    BY <1>1 DEF PipelineInv, CauseReported

(* The invariant holds of every request, whatever the policy, the client's *)
(* header and the moment the client leaves.                                *)
THEOREM PipelineInvariant == Spec => []PipelineInv
  BY InvInit, InvNext, PTL DEF Spec

(* The request's context, response writer, recorder and logs always have   *)
(* the shapes the middlewares rely on.                                     *)
THEOREM RequestTypeCorrect == Spec => []TypeOK
  <1>1. PipelineInv => TypeOK
    BY DEF PipelineInv
  <1> QED
    BY <1>1, PipelineInvariant, PTL

(* authzMiddleware and auth.Middleware are never bypassed: a Server method *)
(* runs only for an identified caller, and under the permission of its own *)
(* verb on its own resource, for every policy.                             *)
THEOREM OperationsGuarded == Spec => []GuardedOperations
  BY InvGuards, PipelineInvariant, PTL

(* loggingMiddleware's single line carries the status and ID that went out. *)
THEOREM LogTruthful == Spec => []AccessLogTruthful
  BY InvLog, PipelineInvariant, PTL

(* However onError and recoverMiddleware are reached, the client gets at    *)
(* most one body, under a header that agrees with it.                      *)
THEOREM OneAnswer == Spec => []OneCoherentAnswer
  <1>1. PipelineInv => OneCoherentAnswer
    BY DEF PipelineInv
  <1> QED
    BY <1>1, PipelineInvariant, PTL

(* A 500 to an operation is always backed by a line in the error log under *)
(* the ID the client was given, and never shows its cause.                 *)
THEOREM CausesReported == Spec => []CauseLoggedNotLeaked
  BY InvCause, PipelineInvariant, PTL
==============================================================================
