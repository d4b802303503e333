------------------------------- MODULE CtlKube -------------------------------
(***************************************************************************)
(* keleustesctl get and describe: the commands that read custom resources  *)
(* from the Kubernetes API server through the dynamic client, once or as a *)
(* watch, while others create and delete the objects.                      *)
(*                                                                         *)
(* An object is named by resource, namespace and name; its columns and its *)
(* YAML are part of the piece that shows it.                               *)
(***************************************************************************)
EXTENDS CtlOutput, Integers, SequencesExt

CONSTANTS Namespaces, Names,
          MaxChanges     \* bound on the creations and deletions by others

VARIABLES cluster,  \* the objects of the kind the user means
          step,     \* where the command is
          asked,    \* the cluster when the API server answered
          stream,   \* watch events sent and not yet read
          told,     \* every watch event sent that carries an object
          open,     \* the watch's channel is open
          changes

kubeVars == <<cluster, step, asked, stream, told, open, changes>>

KubeVerbs == {"get", "describe"}

Row(kind, resource, aliases) == [Kind |-> kind, Resource |-> resource, Aliases |-> aliases]

(* The registry, without its columns.                                      *)
keleustesKinds ==
    << Row("Application", "applications", {"app", "application", "applications"}),
       Row("Source", "sources", {"src", "source", "sources"}),
       Row("Release", "releases", {"rel", "release", "releases"}),
       Row("Deployment", "deployments", {"deploy", "deployment", "deployments"}),
       Row("Environment", "environments", {"env", "environment", "environments"}),
       Row("Cell", "cells", {"cell", "cells"}),
       Row("DeploymentTarget", "deploymenttargets",
           {"dt", "deploymenttarget", "deploymenttargets"}),
       Row("Promotion", "promotions", {"promo", "promotion", "promotions"}),
       Row("PromotionPolicy", "promotionpolicies",
           {"pp", "promotionpolicy", "promotionpolicies"}),
       Row("Approval", "approvals", {"appr", "approval", "approvals"}),
       Row("FreezeWindow", "freezewindows", {"fw", "freezewindow", "freezewindows"}),
       Row("SyncPlan", "syncplans", {"sp", "syncplan", "syncplans"}),
       Row("SyncRun", "syncruns", {"sr", "syncrun", "syncruns"}),
       Row("HealthCheck", "healthchecks", {"hc", "healthcheck", "healthchecks"}),
       Row("Notifier", "notifiers", {"notif", "notifier", "notifiers"}) >>

(* What is typed for a kind: its letters, and whether some are capitals.   *)
Lowercase(word) == [letters |-> word, capitals |-> FALSE]

ToLower(s) == Lowercase(s.letters)

(* The first row with the alias, in any case; "" when there is none.       *)
resolveKind(s) ==
    LET key  == ToLower(s)
        Hits == {i \in DOMAIN keleustesKinds :
                     \E alias \in keleustesKinds[i].Aliases : key = Lowercase(alias)}
    IN  IF Hits = {} THEN ""
        ELSE keleustesKinds[CHOOSE i \in Hits : \A j \in Hits : i <= j].Resource

Formats == {"", "wide", "json", "yaml"}     \* what parseOutputFormat accepts

KubeInit ==
    /\ cluster \in IF inv.verb \in KubeVerbs THEN SUBSET (Namespaces \X Names) ELSE {{}}
    /\ step = "parse" /\ asked = {}
    /\ stream = << >> /\ told = << >> /\ open = FALSE
    /\ changes = 0

Resource == resolveKind(inv.alias)

(* Seeded bug: the namespace flag reaches no request.                      *)
namespaceIgnored == ""

(* RunE's ns: -A turns the namespace off.  describe has no -A.             *)
namespace == IF inv.verb = "get" /\ inv.allNamespaces THEN "" ELSE inv.ns

(* What the API server holds of a resource: the objects in `cluster' for   *)
(* the kind the user means, one object of its own for any other.           *)
Holds(resource) ==
    IF resource = inv.means THEN {<<resource>> \o o : o \in cluster}
    ELSE {<<resource, "default", "other">>}

InScope(o)   == namespace \in {"", o[2]}
Listed       == {o \in Holds(Resource) : InScope(o)}
(* A namespaced object has no path without its namespace.                  *)
Fetched      == {o \in Holds(Resource) : o[2] = namespace /\ o[3] = inv.name}

-----------------------------------------------------------------------------
At(s) == exit = Running /\ step = s

(* parseOutputFormat, resolveKind; splitDescribeArgs, resolveKind.         *)
ParseArgs ==
    /\ At("parse")
    /\ LET reason  == CASE inv.verb = "get" /\ inv.output \notin Formats -> "badFormat"
                        [] inv.verb = "describe" /\ inv.name = ""        -> "badArgs"
                        [] Resource = ""                                 -> "unknownKind"
                        [] OTHER                                         -> ""
       IN  IF reason = "" THEN step' = "connect" /\ UNCHANGED outputVars
           ELSE Exit(Failed(reason)) /\ UNCHANGED step
    /\ UNCHANGED <<inv, cluster, asked, stream, told, open, changes>>

newKubeContext ==
    /\ At("connect")
    /\ \/ Exit(Failed("badConfig")) /\ UNCHANGED step
       \/ /\ inv.watch /\ inv.name # ""
          /\ Exit(Failed("watchOne")) /\ UNCHANGED step
       \/ /\ ~ (inv.watch /\ inv.name # "")
          /\ step' = "request" /\ UNCHANGED outputVars
    /\ UNCHANGED <<inv, cluster, asked, stream, told, open, changes>>

(* A piece shows a part of the output and names the objects in it.         *)
Show(how, part, items) == Piece(how, [part |-> part, objects |-> items])

(* A table of nothing is one checked line, "No resources found."           *)
renderTable(items) == << Show(IF items = {} THEN "checked" ELSE "flush", "rows", items) >>

(* renderList, and renderOne with one object.                              *)
renderList(items)  == IF inv.output \in {"json", "yaml"}
                      THEN << Show("checked", "rows", items) >> ELSE renderTable(items)

(* The metadata block, the spec, and the status when there is one.         *)
renderDescribe(items) ==
    LET head == << Show("latched", "metadata", items), Show("latched", "spec", items) >>
    IN  {head, Append(head, Show("latched", "status", items))}

(* A request the API server answers from its state, or that fails.         *)
Requested(s) == /\ step' = s
                /\ asked' = Holds(Resource)
                /\ UNCHANGED <<inv, cluster, stream, told, open, changes>>

RequestFails ==
    /\ At("request")
    /\ Exit(Failed("failed"))
    /\ Requested("done")

runGetList ==
    /\ At("request") /\ inv.verb = "get" /\ inv.name = "" /\ ~ inv.watch
    /\ Render(renderList(Listed))
    /\ Requested("render")

runGetOne ==
    /\ At("request") /\ inv.name # ""
    /\ \/ Fetched = {} /\ Exit([kind |-> "notFound", namespace |-> namespace])
       \/ /\ Fetched # {} /\ inv.verb = "get"
          /\ Render(renderList(Fetched))
       \/ /\ Fetched # {} /\ inv.verb = "describe"
          /\ \E pieces \in renderDescribe(Fetched) : Render(pieces)
    /\ Requested("render")

-----------------------------------------------------------------------------
(* get --watch.  A watch from no resource version begins with an ADDED     *)
(* event for each object there is.                                         *)
Event(type, o) == [type |-> type, object |-> o]

runWatch ==
    /\ At("request") /\ inv.verb = "get" /\ inv.name = "" /\ inv.watch
    /\ LET first == [i \in 1..Cardinality(Listed) |-> Event("ADDED", SetToSeq(Listed)[i])]
       IN  stream' = first /\ told' = first
    /\ asked' = Holds(Resource)
    /\ open' = TRUE
    /\ Render(<< Show("checked", "header", {}) >>)
    /\ step' = "watch"
    /\ UNCHANGED <<inv, cluster, changes>>

Reading == At("watch") /\ todo = << >>

(* An event that carries an object is printed.                             *)
WatchRow ==
    /\ Reading /\ stream # << >> /\ Head(stream).type # "ERROR"
    /\ Render(<< Show("checked", Head(stream).type, {Head(stream).object}) >>)
    /\ stream' = Tail(stream)
    /\ UNCHANGED <<inv, cluster, step, asked, told, open, changes>>

(* Seeded bug: an event that carries no object ends the command.           *)
WatchSkipEnds ==
    /\ Reading /\ stream # << >> /\ Head(stream).type = "ERROR"
    /\ stream' = Tail(stream)
    /\ Exit(OK)
    /\ UNCHANGED <<inv, cluster, step, asked, told, open, changes>>

(* An ERROR event carries a Status, which is no Unstructured: skipped.     *)
WatchSkip ==
    /\ Reading /\ stream # << >> /\ Head(stream).type = "ERROR"
    /\ stream' = Tail(stream)
    /\ UNCHANGED <<inv, cluster, step, asked, told, open, changes>>
    /\ UNCHANGED outputVars

(* The channel is closed and drained.  ctx.Done() never fires: Execute     *)
(* runs the command with the background context.                           *)
WatchEnds ==
    /\ Reading /\ stream = << >> /\ ~ open
    /\ Exit(OK)
    /\ UNCHANGED <<inv, cluster, step, asked, stream, told, open, changes>>

-----------------------------------------------------------------------------
(* The API server and its other clients.                                   *)
Send(ev) == stream' = Append(stream, ev) /\ told' = Append(told, ev)

Told(type, o) ==
    IF open /\ InScope(<<inv.means>> \o o) THEN Send(Event(type, <<inv.means>> \o o))
    ELSE UNCHANGED <<stream, told>>

CreateObject ==
    /\ inv.verb \in KubeVerbs /\ exit = Running /\ changes < MaxChanges
    /\ \E o \in (Namespaces \X Names) \ cluster :
          cluster' = cluster \cup {o} /\ Told("ADDED", o)
    /\ changes' = changes + 1
    /\ UNCHANGED <<inv, step, asked, open>> /\ UNCHANGED outputVars

DeleteObject ==
    /\ inv.verb \in KubeVerbs /\ exit = Running /\ changes < MaxChanges
    /\ \E o \in cluster : cluster' = cluster \ {o} /\ Told("DELETED", o)
    /\ changes' = changes + 1
    /\ UNCHANGED <<inv, step, asked, open>> /\ UNCHANGED outputVars

(* The server reports that the watch fell behind; more events may follow.  *)
SendStatus ==
    /\ open /\ exit = Running /\ changes < MaxChanges
    /\ stream' = Append(stream, Event("ERROR", << >>))
    /\ changes' = changes + 1
    /\ UNCHANGED <<inv, cluster, step, asked, told, open>> /\ UNCHANGED outputVars

CloseWatch ==
    /\ open /\ exit = Running
    /\ open' = FALSE
    /\ UNCHANGED <<inv, cluster, step, asked, stream, told, changes>>
    /\ UNCHANGED outputVars

KubeWrite  == /\ inv.verb \in KubeVerbs /\ WriteStep
              /\ UNCHANGED inv /\ UNCHANGED kubeVars
KubeReturn == /\ step = "render" /\ RenderReturns
              /\ UNCHANGED inv /\ UNCHANGED kubeVars

KubeCommand == ParseArgs \/ newKubeContext \/ RequestFails \/ runGetList \/ runGetOne
               \/ runWatch \/ WatchRow \/ WatchSkip \/ WatchEnds

Cluster == CreateObject \/ DeleteObject \/ SendStatus \/ CloseWatch

KubeNext ==
    \/ inv.verb \in KubeVerbs /\ KubeCommand
    \/ KubeWrite \/ KubeReturn
    \/ Cluster

-----------------------------------------------------------------------------
(* What each alias is for, in any case, as docs and the CRDs' short names  *)
(* give it.                                                                *)
Means == [applications |-> {"app", "application", "applications"},
          sources |-> {"src", "source", "sources"},
          releases |-> {"rel", "release", "releases"},
          deployments |-> {"deploy", "deployment", "deployments"},
          environments |-> {"env", "environment", "environments"},
          cells |-> {"cell", "cells"},
          deploymenttargets |-> {"dt", "deploymenttarget", "deploymenttargets"},
          promotions |-> {"promo", "promotion", "promotions"},
          promotionpolicies |-> {"pp", "promotionpolicy", "promotionpolicies"},
          approvals |-> {"appr", "approval", "approvals"},
          freezewindows |-> {"fw", "freezewindow", "freezewindows"},
          syncplans |-> {"sp", "syncplan", "syncplans"},
          syncruns |-> {"sr", "syncrun", "syncruns"},
          healthchecks |-> {"hc", "healthcheck", "healthchecks"},
          notifiers |-> {"notif", "notifier", "notifiers"}]

(* Whatever happens in the cluster meanwhile, get and describe show        *)
(* objects of the kind the user's alias names, of the namespace asked for  *)
(* and no other, a list shows all of them as of one moment, and "not found *)
(* in namespace" is said only of an object that was not there.             *)
AnswersTheQuestion ==
    inv.verb \in KubeVerbs =>
        /\ \A i \in DOMAIN due : \A o \in due[i].what.objects :
              /\ o[1] = inv.means
              /\ inv.ns = o[2] \/ (inv.verb = "get" /\ inv.allNamespaces)
              /\ inv.name \in {"", o[3]}
        /\ exit.kind = "notFound" =>
              <<inv.means, exit.namespace, inv.name>> \notin asked
        /\ (inv.verb = "get" /\ step = "render" /\ inv.name = "") =>
              due[1].what.objects = {o \in asked : inv.allNamespaces \/ o[2] = inv.ns}

EventsTold  == [i \in DOMAIN told |-> [part |-> told[i].type, objects |-> {told[i].object}]]
EventsShown == [i \in 1..(Len(out) - 1) |-> out[i + 1].what]

(* A watch prints each event once and in the order it was sent, with none  *)
(* missing in between, across error events, a slow reader and the closing  *)
(* of the channel; a watch that ends well has printed them all.            *)
WatchInOrder ==
    step = "watch" =>
        /\ out # << >> => IsPrefix(EventsShown, EventsTold)
        /\ exit = OK => EventsShown = EventsTold
==============================================================================
