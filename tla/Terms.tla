------------------------------- MODULE Terms -------------------------------
(***************************************************************************)
(* What Run and Stop of the two controllers promise those who call them:   *)
(* which of the four loops may act.  The controllers are started from      *)
(* nothing, the etcd controller no later than the DNS controller, and      *)
(* stopped in the order sync loop, lbUpdateLoop, loops of the etcd         *)
(* controller, each between two pieces of its work; nothing is started     *)
(* again before all of them are down.                                      *)
(***************************************************************************)
VARIABLES
    up,             \* loops that run and have not been told to stop
    busy,           \* those in the middle of a cycle
    ending          \* the controllers are being stopped

DNS == {"sync", "lb"}

ETCD == {"monitor", "status"}

Init ==
    /\ up = {}
    /\ busy = {}
    /\ ending = FALSE

(* Both controllers at once, or the etcd controller first.                 *)
Start ==
    /\ ~ending
    /\ \/ up = {} /\ up' \in {ETCD, ETCD \cup DNS}
       \/ up = ETCD /\ up' = ETCD \cup DNS
    /\ UNCHANGED <<busy, ending>>

End ==
    /\ up = ETCD \cup DNS
    /\ ~ending
    /\ ending' = TRUE
    /\ UNCHANGED <<up, busy>>

Work ==
    /\ \E k \in up \ busy : busy' = busy \cup {k}
    /\ UNCHANGED <<up, ending>>

Rest ==
    /\ \E k \in busy : busy' = busy \ {k}
    /\ UNCHANGED <<up, ending>>

(* Who is still up when others go.                                         *)
InOrder ==
    /\ "sync" \in up' => "lb" \in up'
    /\ up' \cap DNS # {} => ETCD \subseteq up'

Halt ==
    /\ ending
    /\ up' \subseteq up /\ up' # up
    /\ busy \subseteq up'
    /\ InOrder
    /\ ending' = (up' # {})
    /\ UNCHANGED busy

(* The process ends.                                                       *)
Crash ==
    /\ up' = {}
    /\ busy' = {}
    /\ ending' = FALSE

Next == Start \/ End \/ Work \/ Rest \/ Halt \/ Crash

Spec == Init /\ [][Next]_<<up, busy, ending>>
=============================================================================
