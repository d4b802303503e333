--------------------------------- MODULE Ctl ---------------------------------
(***************************************************************************)
(* keleustesctl as a whole: one invocation of any command, the API server  *)
(* or the Kubernetes cluster it talks to, and the clients it shares the    *)
(* API server with.  The command runs once, so a behaviour is one process. *)
(***************************************************************************)
EXTENDS CtlApi, CtlKube

CONSTANT Invocations    \* the command lines; verb "other" is another API client

(* A namespace flag names a namespace, and the user means what the docs    *)
(* give the alias for, or types an alias the docs do not have.             *)
ASSUME InvocationsAssumption ==
    /\ IsFiniteSet(Namespaces) /\ IsFiniteSet(Names)
    /\ \A i \in Invocations : i.verb \in KubeVerbs =>
          /\ i.ns # ""
          /\ \/ i.means \in DOMAIN Means /\ i.alias.letters \in Means[i.means]
             \/ \A k \in DOMAIN Means : i.alias.letters \notin Means[k]

ctlVars == <<vars, outputVars, kubeVars, inv, call>>

CtlInit ==
    /\ inv \in Invocations
    /\ OutputInit /\ KubeInit /\ ApiInit

(* NewRootCommand: get and describe talk to Kubernetes, the product verbs  *)
(* to the API server.                                                      *)
NewRootCommand ==
    \/ KubeNext /\ UNCHANGED call /\ UNCHANGED vars
    \/ ApiNext /\ UNCHANGED kubeVars

CtlSpec == CtlInit /\ [][NewRootCommand]_ctlVars
==============================================================================
