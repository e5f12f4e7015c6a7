-------------------------- MODULE MCDNSController --------------------------
(* Small instances of DNSController: two load balancers in two zones, and  *)
(* a third zone nobody balances.                                           *)
EXTENDS DNSController, TLC

CONSTANTS a, b,             \* load balancers
          e1, e2,           \* endpoints
          za, zb, zf,       \* the zone of a, the zone of b, a foreign zone
          f1, f2            \* contents of a zone apart from A records

MCLB == {a, b}
MCEndpoint == {e1, e2}
MCZone == {za, zb, zf}
MCForeign == {f1, f2}
MCContains == {<<a, za>>, <<b, zb>>}
MCNameLen == [z \in Zone |-> 1]

(* Everything down; a alone; both, with another endpoint for a.            *)
MCFeed == {[x \in {} |-> {}], a :> {e1}, a :> {e2} @@ b :> {e1}}

(* za is a subdomain of zb: both names contain zb, a's is longer.          *)
NestedContains == {<<a, za>>, <<a, zb>>, <<b, zb>>}
NestedNameLen == [z \in Zone |-> IF z = za THEN 2 ELSE 1]

ServedZones == {za, zb}

(* At the start a's records belong to zb: za is not there yet.             *)
OuterZones == {zb, zf}
ForeignSymmetry == Permutations(MCForeign)
=============================================================================
