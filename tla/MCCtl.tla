-------------------------------- MODULE MCCtl --------------------------------
(* keleustesctl for TLC.  Every alias is listed once; one kind goes through *)
(* every form of get and describe.  Another client sends each request of    *)
(* the pipeline.                                                            *)
EXTENDS Ctl

MCPolicies == {Permissions \ {p} : p \in Permissions} \cup {{p} : p \in Permissions}

Plain == [verb |-> "get", alias |-> Lowercase(""), means |-> "", ns |-> "default",
          allNamespaces |-> FALSE, name |-> "", output |-> "json", watch |-> FALSE]

MCInvocations ==
    {[verb |-> "other"]}
    \cup [verb : ApiVerbs, url : {"default", "bareHost", "otherPath", "malformed"}]
    \cup [verb : {"promote", "rollback", "version"}]
    \cup UNION {{[Plain EXCEPT !.alias = Lowercase(a), !.means = k] : a \in Means[k]} : k \in DOMAIN Means}
    \cup {[Plain EXCEPT !.alias = [letters |-> "app", capitals |-> TRUE], !.means = "applications"]}
    \cup [verb : {"get"}, alias : {Lowercase("app"), Lowercase("bogus")}, means : {"applications"},
          ns : {"default", "prod"}, allNamespaces : BOOLEAN, name : {"", "n1"},
          output : {"", "json", "table"}, watch : BOOLEAN]
    \cup [verb : {"describe"}, alias : {Lowercase("app"), Lowercase("bogus")}, means : {"applications"},
          ns : {"default", "prod"}, name : {"", "n1"}, watch : {FALSE}]
==============================================================================
