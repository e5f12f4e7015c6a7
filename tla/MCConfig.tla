------------------------------ MODULE MCConfig ------------------------------
(* Complete configurations of each election and provider, and what becomes *)
(* of each when one option is left out, emptied, or set in two places.     *)
EXTENDS Config, TLC

CONSTANTS ip1, v6           \* an IPv4 address, something else

MCIPv4 == {ip1}

Written(ip, port) == [Protocol |-> "http", IP |-> ip, Port |-> port]

Endpoints == {{Written(ip1, 80), Written(ip1, 65535)},
              {Written(ip1, 65616), Written(ip1, -1), Written(v6, 80)},
              {Written(ip1, 80), NIL}}

(* No -lb, one, two with the same name, or one in the file.                *)
LbOptions ==
    {[lbFlags |-> <<>>, lbs |-> <<>>]}
    \cup {[lbFlags |-> <<[name |-> "a", endpoints |-> e]>>, lbs |-> "a" :> {NIL}] :
        e \in Endpoints}
    \cup {[lbFlags |-> <<[name |-> "a", endpoints |-> {Written(ip1, 1)}],
                         [name |-> "a", endpoints |-> e]>>,
           lbs |-> <<>>] : e \in Endpoints}
    \cup {[lbFlags |-> <<>>, lbs |-> "a" :> e] : e \in Endpoints}

Complete(e, p) ==
    [f \in Flag \cup {"cfg"} |->
        CASE f = "election" -> e [] f = "provider" -> p [] OTHER -> "flag"]

Without(g, x) == [f \in DOMAIN g \ {x} |-> g[f]]

(* Flags that may be empty: a number or a switch has to be one.            *)
Texts == Flag \ (Numbers \cup Switches)

(* Option x: given, emptied, moved to the file, in both, or left out.      *)
Variants(g, x) ==
    {<<g, <<>>>>,
     <<IF x \in Texts THEN [g EXCEPT ![x] = ""] ELSE g, <<>>>>,
     <<Without(g, x), ReadFor[x] :> "">>,
     <<Without(g, x), ReadFor[x] :> "file">>,
     <<[g EXCEPT ![x] = "flag"], ReadFor[x] :> "file">>,
     <<Without(g, x), <<>>>>,
     <<Without(Without(g, x), "cfg"), ReadFor[x] :> "file">>}

MCInputs ==
    {[passed |-> v[1], file |-> v[2], lbFlags |-> l.lbFlags, lbs |-> l.lbs] :
        l \in LbOptions,
        v \in UNION {Variants(Complete(e, p), x) :
                        e \in {"singleton", "k8s", "raft"},
                        p \in {"autodns", "mock", "mockjson"},
                        x \in Flag}}
=============================================================================
