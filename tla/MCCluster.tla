----------------------------- MODULE MCCluster -----------------------------
(* A small instance of Cluster: one load balancer in one zone.             *)
EXTENDS Cluster, TLC

CONSTANTS a, za,            \* the load balancer and its zone
          e1, e2,           \* endpoints
          f1                \* content of the zone apart from A records

MCEndpoint == {e1, e2}
MCContains == {<<a, za>>}
MCNameLen == [z \in Zone |-> 1]

(* The endpoint of a is one, another, or a is down.                        *)
MCFeed == {[x \in {} |-> {}], a :> {e1}, a :> {e2}}
=============================================================================
