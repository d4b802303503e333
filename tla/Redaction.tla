------------------------------- MODULE Redaction -------------------------------
(***************************************************************************)
(* The redaction walk of internal/audit/redaction: Apply goes through a    *)
(* JSON document, in Go's unspecified map order, and replaces in place the *)
(* fields that the rules match.                                            *)
(*                                                                         *)
(* A document is the set of its nodes, each named by the keys that lead to *)
(* it (an element of a list by its index).  The rules see a node by its    *)
(* dotted path, and a key may hold dots itself (tls.crt), so a key and a   *)
(* path are given as strings.Split leaves them: a sequence of segments.    *)
(***************************************************************************)
EXTENDS Integers, SequencesExt

CONSTANT Documents   \* the inputs: [kind, nodes], nodes a function to Shapes

Shapes   == {"map", "list", "value"}
Classes  == {"secret-bytes", "bearer-token", "tls-material", "webhook-secret"}
NoRule   == "no rule"                      \* matchRule's ("", false)
AnyKind  == ""                             \* the ParentKind of a rule for every kind
RootPath == <<"">>                        \* the path Apply starts with

Key == {k \in Seq(STRING) : k # << >>}

(* What is redacted are Kubernetes objects.  The fields of an object and   *)
(* those of its spec are names of struct fields, without dots, and a data  *)
(* key is made of letters, digits, "-", "_" and ".".                       *)
IsObject(nodes) ==
    /\ \A n \in DOMAIN nodes : n \in Seq(Key) /\ nodes[n] \in Shapes
    /\ << >> \in DOMAIN nodes /\ nodes[<< >>] = "map"
    /\ \A n \in DOMAIN nodes : \A i \in 0..(Len(n) - 1) :
          SubSeq(n, 1, i) \in DOMAIN nodes /\ nodes[SubSeq(n, 1, i)] # "value"
    /\ \A n \in DOMAIN nodes :
          /\ Len(n) >= 1 => Len(n[1]) = 1 /\ n[1] # RootPath
          /\ Len(n) >= 2 /\ n[1] = <<"spec">> => Len(n[2]) = 1
          /\ Len(n) >= 2 /\ n[1] = <<"data">> => n[2][1] # "tls\\"

ASSUME DocumentsAssumption == \A d \in Documents : IsObject(d.nodes)

VARIABLES kind,     \* the Kind the caller names
          input,    \* the document as it was decoded
          doc,      \* the document now: a node is a shape or a Marker's class
          stack     \* the active calls of walk: node, path, children still to visit

walkVars == <<kind, input, doc, stack>>

Rule(parent, path, class) == [ParentKind |-> parent, FieldPath |-> path, Class |-> class]

(* FieldPath is given as strings.Split leaves it.  The two TLS patterns    *)
(* are split at the dot their backslash was meant to escape.               *)
DefaultRules ==
    << Rule("Secret", <<"data", "*">>, "secret-bytes"),
       Rule("Secret", <<"stringData", "*">>, "secret-bytes"),
       Rule(AnyKind, <<"spec", "webhook", "secret">>, "webhook-secret"),
       Rule(AnyKind, <<"spec", "webhook", "secretRef">>, "webhook-secret"),
       Rule(AnyKind, <<"data", "tls\\", "crt">>, "tls-material"),
       Rule(AnyKind, <<"data", "tls\\", "key">>, "tls-material"),
       Rule(AnyKind, <<"*", "token">>, "bearer-token"),
       Rule(AnyKind, <<"*", "bearerToken">>, "bearer-token") >>

(* Seeded bug: a pattern matches at any depth of the document.             *)
pathMatchesAnyDepth(pattern, path) ==
    /\ Len(pattern) <= Len(path)
    /\ \A i \in DOMAIN pattern :
          pattern[i] \in {"*", path[i + Len(path) - Len(pattern)]}

pathMatches(pattern, path) ==
    /\ Len(pattern) = Len(path)
    /\ \A i \in DOMAIN pattern : pattern[i] \in {"*", path[i]}

(* The class of the first rule that matches.                               *)
matchRule(k, path) ==
    LET Hits == {i \in DOMAIN DefaultRules :
                     /\ DefaultRules[i].ParentKind \in {AnyKind, k}
                     /\ pathMatches(DefaultRules[i].FieldPath, path)}
    IN  IF Hits = {} THEN NoRule
        ELSE DefaultRules[CHOOSE i \in Hits : \A j \in Hits : i <= j].Class

joinPath(parent, segment) == IF parent = RootPath THEN segment ELSE parent \o segment

indexSegment == <<"[]">>

-----------------------------------------------------------------------------
Below(d, n)    == {c \in DOMAIN d : c # n /\ IsPrefix(n, c)}
Children(d, n) == {c \in Below(d, n) : Len(c) = Len(n) + 1}

Frame(d, n, path) == [at |-> n, path |-> path, left |-> Children(d, n)]

ApplyInit == \E d \in Documents :
    /\ kind = d.kind
    /\ input = d.nodes
    /\ doc = d.nodes
    /\ stack = <<Frame(d.nodes, << >>, RootPath)>>

Top == stack[Len(stack)]

(* Writing a Marker over the nodes S drops what they held.                 *)
Replace(S, class) ==
    LET gone == UNION {Below(doc, n) : n \in S}
    IN  doc' = [n \in DOMAIN doc \ gone |-> IF n \in S THEN class ELSE doc[n]]

Visited(n) == stack' = [stack EXCEPT ![Len(stack)].left = @ \ {n}]

childPath(n) ==
    joinPath(Top.path, IF doc[Top.at] = "list" THEN indexSegment ELSE n[Len(n)])

InMap(n) == stack # << >> /\ doc[Top.at] = "map" /\ n \in Top.left

Container(n) == matchRule(kind, childPath(n) \o <<"*">>)

(* The child itself matches a rule.                                        *)
RedactField(n) ==
    /\ InMap(n)
    /\ matchRule(kind, childPath(n)) # NoRule
    /\ Replace({n}, matchRule(kind, childPath(n)))
    /\ Visited(n)
    /\ UNCHANGED <<kind, input>>

(* Seeded bug: no blanket treatment of a container.                        *)
BlanketNever(n) == FALSE

Blanket(n) == Container(n) # NoRule /\ doc[n] = "map"

(* The child is a map all of whose keys a rule matches.                    *)
RedactContainer(n) ==
    /\ InMap(n)
    /\ matchRule(kind, childPath(n)) = NoRule /\ Blanket(n)
    /\ Replace(Children(doc, n), Container(n))
    /\ Visited(n)
    /\ UNCHANGED <<kind, input>>

(* walk calls itself; for an element of a list no rule is tried, and a     *)
(* scalar returns at once.                                                 *)
Descend(n) ==
    /\ stack # << >> /\ n \in Top.left
    /\ InMap(n) => matchRule(kind, childPath(n)) = NoRule /\ ~ Blanket(n)
    /\ stack' = LET rest == [stack EXCEPT ![Len(stack)].left = @ \ {n}]
                IN  IF doc[n] = "value" THEN rest ELSE Append(rest, Frame(doc, n, childPath(n)))
    /\ UNCHANGED <<kind, input, doc>>

Return ==
    /\ stack # << >> /\ Top.left = {}
    /\ stack' = SubSeq(stack, 1, Len(stack) - 1)
    /\ UNCHANGED <<kind, input, doc>>

walk == \/ \E n \in DOMAIN input : RedactField(n) \/ RedactContainer(n) \/ Descend(n)
        \/ Return

Apply == ApplyInit /\ [][walk]_walkVars

-----------------------------------------------------------------------------
(* The redaction table of docs/plans/2026-05-audit-event-schema.md, section *)
(* 8.2, over the keys of a document: the class a field must be hidden as.   *)
(* A field is a key of maps all the way from the root.  What the table      *)
(* names by content (PEM blocks, the value of an Authorization header) or   *)
(* by an annotation of a CRD has no rule at all, and is left out.           *)
IsField(n) == \A i \in 0..(Len(n) - 1) : input[SubSeq(n, 1, i)] = "map"

InSecret(n) == kind = "Secret" /\ Len(n) = 2 /\ n[1] \in {<<"data">>, <<"stringData">>}

IsWebhookSecret(n) == /\ Len(n) = 3 /\ n[1] = <<"spec">> /\ n[2] = <<"webhook">>
                      /\ n[3] \in {<<"secret">>, <<"secretRef">>}

IsTLSMaterial(n) == Len(n) = 2 /\ n[1] = <<"data">> /\ n[2] \in {<<"tls", "crt">>, <<"tls", "key">>}

IsToken(n) == Len(n) = 2 /\ n[2] \in {<<"token">>, <<"bearerToken">>}

Sensitive(n) ==
    IF ~ IsField(n) THEN NoRule
    ELSE IF InSecret(n) THEN "secret-bytes"
    ELSE IF IsWebhookSecret(n) THEN "webhook-secret"
    ELSE IF IsTLSMaterial(n) THEN "tls-material"
    ELSE IF IsToken(n) THEN "bearer-token"
    ELSE NoRule

HiddenAs(n, class) == n \in DOMAIN doc /\ doc[n] = class /\ Below(doc, n) = {}

(* When Apply returns, every secret byte, token and webhook secret of the  *)
(* table is a Marker of its class, with nothing of the value left below    *)
(* it, whatever order the maps were walked in and whether or not the key   *)
(* has dots in it (a Secret's data["tls.crt"] has a path of three          *)
(* segments, which no rule matches: walk's container branch must).  The    *)
(* table's row for TLS material is left to TLSMaterialHidden.              *)
SensitiveHidden ==
    stack = << >> =>
        \A n \in DOMAIN input :
            Sensitive(n) \notin {NoRule, "tls-material"} => HiddenAs(n, Sensitive(n))

(* "TLS material | tls.crt, tls.key [...] | Replace with                   *)
(* @redacted:tls-material" (audit-event-schema.md:465), which the rules at *)
(* redact.go:59-60 are for: when Apply returns, data["tls.crt"] and        *)
(* data["tls.key"] of an object that is no Secret are Markers as well.     *)
TLSMaterialHidden ==
    stack = << >> =>
        \A n \in DOMAIN input : Sensitive(n) = "tls-material" => HiddenAs(n, "tls-material")

(* At every moment of the walk, what no row of the table names is as it    *)
(* was decoded: identifiers, names and labels stay ("never redacted",      *)
(* section 8.2), a label or a deep field that happens to be called token   *)
(* included, and the keys of the document are kept.                        *)
RestKept ==
    \A n \in DOMAIN input :
        \/ n \in DOMAIN doc /\ doc[n] = input[n]
        \/ \E m \in DOMAIN input : IsPrefix(m, n) /\ Sensitive(m) # NoRule
================================================================================
