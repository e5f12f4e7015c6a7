------------------------- MODULE MCETCDController -------------------------
(* Small instances of ETCDController: three agents, two load balancers.    *)
EXTENDS ETCDController, TLC

CONSTANTS a, b,             \* load balancers
          c1, c2,           \* checks
          x1, x2,           \* addresses
          g1, g2, g3        \* agents

MCLB == {a, b}
MCCheck == {c1, c2}
MCAddress == {x1, x2}
MCAddressOf == c1 :> x1 @@ c2 :> x2
MCWanted == a :> {c1} @@ b :> {c2}

(* At the start just a majority of the agents reaches the endpoints.       *)
MCReachable == {[g \in Agent |-> IF g = g1 THEN {} ELSE Check]}

MCAgents == <<g1, g2, g3>>
=============================================================================
