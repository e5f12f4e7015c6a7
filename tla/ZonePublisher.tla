--------------------------- MODULE ZonePublisher ---------------------------
(***************************************************************************)
(* What the DNS controller promises to those who look at the provider,     *)
(* without caches, hashes, loops or calls: lists are computed, some of     *)
(* them are adopted, in any order, and a zone changes only by the records  *)
(* of the list adopted last.                                               *)
(***************************************************************************)
CONSTANTS
    LB,             \* names of the load balancers
    Endpoint,       \* IPs of their endpoints
    Zone,           \* names of zones
    Foreign,        \* contents of a zone apart from the LBs' A records
    Feed,           \* the lists that may be computed
    NULL,           \* no list adopted yet
    HomeZone        \* the <<lb, zone>> such that lb belongs to zone

VARIABLES
    health,         \* the list computed last
    inFlight,       \* lists on their way to the publisher
    adopted,        \* the list to be published, or NULL
    upstream        \* the zones at the provider

ZoneContent == [rr : [LB -> SUBSET Endpoint], other : Foreign]

Init ==
    /\ health \in Feed
    /\ inFlight = {}
    /\ adopted = NULL
    /\ upstream \in UNION {[S -> ZoneContent] : S \in SUBSET Zone}

Compute(l) ==
    /\ health' = l
    /\ inFlight' = inFlight \cup {l}
    /\ UNCHANGED <<adopted, upstream>>

(* Lists get lost, but none is made up.                                    *)
Drop ==
    /\ inFlight' \in SUBSET inFlight
    /\ UNCHANGED <<health, adopted, upstream>>

Adopt(l) ==
    /\ l \in inFlight
    /\ adopted' = l
    /\ inFlight' \in {inFlight, inFlight \ {l}}
    /\ UNCHANGED <<health, upstream>>

(* What may replace content c of zone z: the records of every listed load  *)
(* balancer of the zone are those of the list, no other record appears, no *)
(* load balancer loses its last record, nothing else changes.              *)
Successor(z, c, d) ==
    /\ \A lb \in DOMAIN adopted :
           <<lb, z>> \in HomeZone => d.rr[lb] = adopted[lb]
    /\ \A lb \in LB :
           <<lb, z>> \notin HomeZone => d.rr[lb] \subseteq c.rr[lb]
    /\ \A lb \in LB : c.rr[lb] # {} => d.rr[lb] # {}
    /\ d.other = c.other

Publish(z) ==
    /\ adopted # NULL
    /\ z \in DOMAIN upstream
    /\ \E d \in ZoneContent :
           /\ Successor(z, upstream[z], d)
           /\ upstream' = [upstream EXCEPT ![z] = d]
    /\ UNCHANGED <<health, inFlight, adopted>>

Next ==
    \/ \E l \in Feed : Compute(l) \/ Adopt(l)
    \/ Drop
    \/ \E z \in Zone : Publish(z)

Spec == Init /\ [][Next]_<<health, inFlight, adopted, upstream>>
=============================================================================
