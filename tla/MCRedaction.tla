---------------------------- MODULE MCRedaction ----------------------------
EXTENDS Redaction, FiniteSetsExt

K(s) == <<s>>      \* a key without dots

(* Fields of audited objects, with the near misses of every rule.          *)
Leaves ==
    { << K("data"), K("password") >>,
      << K("data"), <<"tls", "crt">> >>,
      << K("data"), <<"tls", "crt", "bak">> >>,
      << K("data"), K("token") >>,
      << K("stringData"), <<"my", "token">> >>,
      << K("spec"), K("webhook"), K("secret") >>,
      << K("spec"), K("webhook"), K("url") >>,
      << K("spec"), K("webhook"), K("secretRef"), K("name") >>,
      << K("spec"), K("token") >>,
      << K("spec"), K("auth"), K("token") >>,
      << K("spec"), K("hooks"), K("0"), K("token") >>,
      << K("spec"), K("hooks"), K("1") >>,
      << K("metadata"), K("name") >>,
      << K("metadata"), K("labels"), K("token") >>,
      << K("metadata"), K("labels"), <<"app", "kubernetes", "io/name">> >> }

NodesOf(L) == UNION {{SubSeq(l, 1, i) : i \in 0..Len(l)} : l \in L}

DocumentOf(k, L) ==
    [kind  |-> k,
     nodes |-> [n \in NodesOf(L) |->
                  CASE n \in L -> "value"
                    [] n = << K("spec"), K("hooks") >> -> "list"
                    [] OTHER -> "map"]]

(* Every document of up to three of the leaves.                            *)
SmallDocuments ==
    {DocumentOf(k, L) : k \in {"Secret", "ConfigMap", "Source"},
                        L \in UNION {kSubset(i, Leaves) : i \in 1..3}}
=============================================================================
