------------------------------- MODULE CtlApi -------------------------------
(***************************************************************************)
(* keleustesctl's product verbs composed with the server they call: the    *)
(* command builds a request with the generated client, the pipeline of     *)
(* RequestPipeline serves it, and the command turns whatever comes back    *)
(* into output and an exit status.  The connection may break at any moment *)
(* in between (RequestPipeline's disconnect).                              *)
(*                                                                         *)
(* NAME and APPLICATION arguments are names Kubernetes accepts.            *)
(***************************************************************************)
EXTENDS CtlOutput, RequestPipeline

VARIABLE call   \* "idle", "sent", or "done" once the client has an answer or a failure

pipelineVars == vars

(* A request as http.NewRequest leaves it.                                 *)
Blank == [route |-> "unknownPath", authorization |-> "absent", id |-> None,
          paramsOK |-> TRUE, bodyOK |-> TRUE]

(* apiBaseURL and normalizeBaseURL: the default and a URL without a path   *)
(* point where the contract is mounted, any other path is left alone.      *)
normalizeBaseURL(url) == IF url \in {"default", "bareHost"} THEN "mounted" ELSE url

(* The generated request builders: the operation's path below the base.    *)
NewRequest(op) ==
    [Blank EXCEPT !.route = IF normalizeBaseURL(inv.url) = "mounted" THEN op ELSE @]

NewGetApplicationsRequest               == NewRequest("GetApplications")
NewGetApplicationsNameRequest           == NewRequest("GetApplicationsName")
NewGetApplicationsNameMatrixRequest     == NewRequest("GetApplicationsNameMatrix")
NewGetApplicationsNamePromotionsRequest == NewRequest("GetApplicationsNamePromotions")
NewGetApplicationsNameReleasesRequest   == NewRequest("GetApplicationsNameReleases")
NewGetDiffRequest                       == NewRequest("GetDiff")

(* newAPIClient's authEditor, run by applyEditors on every request.        *)
applyEditors(r) == [r EXCEPT !.authorization = "bearer"]

-----------------------------------------------------------------------------
(* Sending.  A base URL that does not parse fails before anything is sent. *)
Do(verb, r) ==
    /\ exit = Running /\ call = "idle" /\ inv.verb = verb
    /\ IF normalizeBaseURL(inv.url) = "malformed"
         THEN Exit(Failed("badURL")) /\ UNCHANGED <<call, req>>
         ELSE call' = "sent" /\ req' = applyEditors(r) /\ UNCHANGED outputVars
    /\ UNCHANGED <<inv, conf, pc, ctx, w, err, entered, accessLog, errorLog, gone>>

GetApplications               == Do("app list", NewGetApplicationsRequest)
GetApplicationsName           == Do("app get", NewGetApplicationsNameRequest)
GetApplicationsNameMatrix     == Do("matrix", NewGetApplicationsNameMatrixRequest)
GetApplicationsNamePromotions == Do("blockers", NewGetApplicationsNamePromotionsRequest)
GetApplicationsNameReleases   == Do("release list", NewGetApplicationsNameReleasesRequest)
GetDiff                       == Do("diff", NewGetDiffRequest)

SendRequest == GetApplications \/ GetApplicationsName \/ GetApplicationsNameMatrix
               \/ GetApplicationsNamePromotions \/ GetApplicationsNameReleases \/ GetDiff

(* Client.Do or io.ReadAll fails: nothing listens, or the connection broke.*)
DoFails ==
    /\ exit = Running /\ call = "sent" /\ inv.verb # "other"
    /\ gone \/ pc = "requestID"
    /\ Exit(Failed("transport"))
    /\ call' = "done" /\ gone' = TRUE
    /\ UNCHANGED <<inv, conf, req, pc, ctx, w, err, entered, accessLog, errorLog>>

-----------------------------------------------------------------------------
(* Receiving.  The statuses the generated parsers decode; with any other   *)
(* one the response keeps only its raw body.                               *)
ParseGetApplicationsResponse               == {200, 400, 401, 403, 500, 503}
ParseGetApplicationsNameResponse           == {200, 400, 401, 403, 404, 500, 503}
ParseGetApplicationsNameMatrixResponse     == {200, 400, 401, 403, 404, 500, 503}
ParseGetApplicationsNamePromotionsResponse == {200, 400, 401, 403, 500, 503}
ParseGetApplicationsNameReleasesResponse   == {200, 400, 401, 403, 500, 503}
ParseGetDiffResponse                       == {200, 400, 401, 403, 500, 503}

(* Seeded bug: a JSON content type alone selects the 200 field, which      *)
(* "application/problem+json" has too.                                     *)
ParseAnyJSON(statuses) == IF w.sent.ctype \in {"json", "problem+json"} THEN 200 ELSE 0

(* The response value: the decoded field that is set, 0 when none is.      *)
Parse(statuses) ==
    IF w.sent.ctype \in {"json", "problem+json"} /\ w.sent.status \in statuses
      THEN w.sent.status ELSE 0

(* The raw body is decoded once more, as a problem with a type.            *)
apiError ==
    IF w.body[1].kind = "problem"
      THEN [kind |-> "problem", slug |-> w.body[1].slug, status |-> w.sent.status]
      ELSE [kind |-> "unexpected", status |-> w.sent.status]

(* printTable: a table of no rows is one checked line.  Lines of a single  *)
(* cell pass through the tabwriter's buffer and their errors are seen.     *)
printTable(rows, cells) == Piece(IF rows = 0 \/ cells = 1 THEN "checked" ELSE "flush", "table")

RowCounts == {0, 2}

renderApplications(rows) == << printTable(rows, 4) >>
renderReleases(rows)     == << printTable(rows, 4) >>
renderPromotions(rows)   == << printTable(rows, 5) >>
renderMatrix(rows, columns) == << Piece("checked", "as of"), printTable(rows, 1 + columns) >>
renderDiff(rows, summaries) ==
    << Piece("checked", "mode"), printTable(rows, 3) >> \o
    [i \in 1..summaries |-> Piece("checked", "summary")]

(* The part the run functions share: the answer is in, it is a 200 of the  *)
(* operation and is rendered, or it becomes the command's error.           *)
Receive(verb, statuses, renderings) ==
    /\ exit = Running /\ call = "sent" /\ inv.verb = verb
    /\ pc = "logged" /\ w.body # << >>
    /\ call' = "done"
    /\ IF Parse(statuses) = 200 THEN \E r \in renderings : Render(r)
       ELSE Exit(apiError)
    /\ UNCHANGED inv /\ UNCHANGED pipelineVars

runAppList == Receive("app list", ParseGetApplicationsResponse,
                      {renderApplications(n) : n \in RowCounts})

runAppGet == Receive("app get", ParseGetApplicationsNameResponse, {renderApplications(1)})

(* --env may leave the matrix without columns.                             *)
runMatrix == Receive("matrix", ParseGetApplicationsNameMatrixResponse,
                     {renderMatrix(n, c) : n \in RowCounts, c \in {0, 2}})

runReleaseList == Receive("release list", ParseGetApplicationsNameReleasesResponse,
                          {renderReleases(n) : n \in RowCounts})

(* Only the blocked promotions are kept, and of those the ones to --to.    *)
runBlockers == Receive("blockers", ParseGetApplicationsNamePromotionsResponse,
                       {renderPromotions(n) : n \in RowCounts})

runDiff == Receive("diff", ParseGetDiffResponse,
                   {renderDiff(n, s) : n \in RowCounts, s \in {0, 1}})

ReceiveAnswer == runAppList \/ runAppGet \/ runMatrix \/ runReleaseList \/ runBlockers \/ runDiff

-----------------------------------------------------------------------------
(* Verbs that send nothing.                                                *)
notImplemented ==
    /\ exit = Running /\ inv.verb \in {"promote", "rollback"}
    /\ Exit(Failed("notImplemented"))
    /\ UNCHANGED <<inv, call>> /\ UNCHANGED pipelineVars

version ==
    /\ exit = Running /\ inv.verb = "version" /\ due = << >>
    /\ Render(<< Piece("checked", "version") >>)
    /\ UNCHANGED <<inv, call>> /\ UNCHANGED pipelineVars

ApiVerbs == {"app list", "app get", "matrix", "blockers", "release list", "diff"}
CtlVerbs == ApiVerbs \cup {"promote", "rollback", "version"}

ApiWrite  == /\ inv.verb \in CtlVerbs /\ WriteStep
             /\ UNCHANGED <<inv, call>> /\ UNCHANGED pipelineVars
ApiReturn == /\ inv.verb \in CtlVerbs /\ RenderReturns
             /\ UNCHANGED <<inv, call>> /\ UNCHANGED pipelineVars

(* The server works on a request once it has been sent.  A request of some *)
(* other client is there from the beginning.                               *)
ApiInit ==
    /\ call = IF inv.verb = "other" THEN "sent" ELSE "idle"
    /\ req \in IF inv.verb = "other" THEN Requests ELSE {Blank}
    /\ conf \in IF inv.verb \in ApiVerbs \cup {"other"}
                  THEN [required : BOOLEAN, policy : Policies]
                  ELSE {[required |-> FALSE, policy |-> CHOOSE p \in Policies : TRUE]}
    /\ Init

ServeRequest == /\ call # "idle" /\ Next
                /\ UNCHANGED <<inv, call>> /\ UNCHANGED outputVars

ApiNext == \/ SendRequest \/ DoFails \/ ReceiveAnswer
           \/ notImplemented \/ version
           \/ ApiWrite \/ ApiReturn
           \/ ServeRequest

-----------------------------------------------------------------------------
Meant == [v \in ApiVerbs |->
            CASE v = "app list"     -> "GetApplications"
              [] v = "app get"      -> "GetApplicationsName"
              [] v = "matrix"       -> "GetApplicationsNameMatrix"
              [] v = "blockers"     -> "GetApplicationsNamePromotions"
              [] v = "release list" -> "GetApplicationsNameReleases"
              [] v = "diff"         -> "GetDiff"]

(* The end of a product verb says what happened on the server, whatever    *)
(* the base URL, the policy, the failures on the way and the moment the    *)
(* connection broke.  Exit 0: the server entered the operation the verb    *)
(* stands for, logged a 200 and sent a JSON body.  An error answer: the    *)
(* user sees the status of the access log and, when the server delivered a *)
(* problem, its type slug, whether or not the contract declares that       *)
(* status for the operation.  A reply that is no problem comes only from a *)
(* base URL that leads elsewhere: a bare host never ends at the mux.       *)
CtlReportTruthful ==
    inv.verb \in ApiVerbs =>
        /\ exit = OK =>
              /\ entered = Meant[inv.verb]
              /\ accessLog[1].status = 200 /\ w.sent.ctype = "json"
              /\ err = None
        /\ exit.kind \in {"problem", "unexpected"} =>
              /\ exit.status = accessLog[1].status
              /\ (exit.kind = "problem") <=> (w.body[1].kind = "problem")
              /\ exit.kind = "problem" => exit.slug = w.body[1].slug
        /\ exit.kind = "unexpected" => inv.url \notin {"default", "bareHost"}
==============================================================================
