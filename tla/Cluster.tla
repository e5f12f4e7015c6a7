------------------------------ MODULE Cluster ------------------------------
(***************************************************************************)
(* Instances of dnslb that share one DNS provider (the elections of        *)
(* src/main.go).  One of them is the DNS controller in every detail; the   *)
(* others are "the peer", of which only the uploads are seen.  One leads   *)
(* at a time, but a deposed instance finishes its cycle while the next     *)
(* leader writes.  Run resets nothing: caches, and lists blocked on the    *)
(* channel, survive from term to term.  A crash loses all of it.           *)
(***************************************************************************)
EXTENDS DNSController

CONSTANTS
    MaxTurns,       \* bound on takeovers by this instance
    MaxCrashes      \* bound on crashes of this instance

ASSUME ClusterAssumption == {MaxTurns, MaxCrashes} \subseteq Nat

VARIABLES
    role,           \* this instance: leads, follows, or where it is stopping
    peerLeads,      \* isLeadingA of another instance
    peerZones,      \* zones the peer still has to upload
    turns,          \* takeovers left
    crashes         \* crashes left

clusterVars == <<role, peerLeads, peerZones, turns, crashes>>
allVars     == <<vars, clusterVars>>

ClusterInit ==
    /\ Init
    /\ role = "follows"
    /\ peerLeads \in BOOLEAN
    /\ peerZones = NoZones
    /\ turns = MaxTurns
    /\ crashes = MaxCrashes

-----------------------------------------------------------------------------
(* The loops of this instance *)

(* A cycle begins only while the sync loop has not received its stop; it   *)
(* is then finished, whoever leads meanwhile.                              *)
LocalSync ==
    /\ SyncStep
    /\ pc = "select" => role \in {"leads", "stopSync"}
    /\ UNCHANGED clusterVars

LocalUpdates ==
    /\ LBUpdateStep
    /\ newLBs = NULL => role \in {"leads", "stopSync", "stopLB"}
    /\ UNCHANGED clusterVars

(* Nobody stops the goroutines that hold lists: they block on the channel  *)
(* when the DNS controller is gone, and until the next term.               *)
LocalStatus(l) ==
    /\ SendUpdate(l)
    /\ role # "follows"
    /\ UNCHANGED clusterVars

LocalTime == ZoneSyncDue /\ UNCHANGED clusterVars

-----------------------------------------------------------------------------
(* Leadership *)

(* Slip: Stop does not wait for the sync loop to take its stop.            *)
DNSStop_NoWait ==
    /\ \/ role = "stopSync" /\ role' = "stopLB"
       \/ role = "stopLB" /\ newLBs = NULL /\ role' = "stopETCD"
    /\ UNCHANGED <<vars, peerLeads, peerZones, turns, crashes>>

(* DNSController.Stop: its two stops are taken one after the other, each   *)
(* by a loop that is between two cycles.                                   *)
DNSStop ==
    /\ \/ role = "stopSync" /\ pc = "select" /\ role' = "stopLB"
       \/ role = "stopLB" /\ newLBs = NULL /\ role' = "stopETCD"
    /\ UNCHANGED <<vars, peerLeads, peerZones, turns, crashes>>

(* ETCDController.Stop returns when both of its loops have ended.          *)
ETCDStop ==
    /\ role = "stopETCD"
    /\ role' = "follows"
    /\ UNCHANGED <<vars, peerLeads, peerZones, turns, crashes>>

StartLeading ==
    /\ role = "follows"
    /\ ~peerLeads
    /\ turns > 0
    /\ turns' = turns - 1
    /\ role' = "leads"
    /\ UNCHANGED <<vars, peerLeads, peerZones, crashes>>

StopLeading ==
    /\ role = "leads"
    /\ role' = "stopSync"
    /\ UNCHANGED <<vars, peerLeads, peerZones, turns, crashes>>

(* The process dies and is started again; its goroutines die with it.      *)
Crash ==
    /\ crashes > 0
    /\ crashes' = crashes - 1
    /\ role' = "follows"
    /\ currentZonesEnforceSync' = FALSE
    /\ currentZones' = NoZones
    /\ currentZoneNames' = {}
    /\ wantedZones' = NoZones
    /\ wantedZonesLBHash' = NULL
    /\ wantedLBs' = NULL
    /\ wantedLBsCandidate' = NULL
    /\ zoneSyncDue' = TRUE
    /\ newLBs' = NULL
    /\ pc' = "select"
    /\ force' = FALSE
    /\ todo' = {}
    /\ allZoneNames' = {}
    /\ fetched' = NoZones
    /\ updates' = [l \in Feed |-> 0]
    /\ UNCHANGED <<upstream, health, budget, peerLeads, peerZones, turns>>

-----------------------------------------------------------------------------
(* The peer *)

PeerStartsLeading ==
    /\ role # "leads"
    /\ ~peerLeads
    /\ peerLeads' = TRUE
    /\ UNCHANGED <<vars, role, peerZones, turns, crashes>>

PeerStopsLeading ==
    /\ peerLeads
    /\ peerLeads' = FALSE
    /\ UNCHANGED <<vars, role, peerZones, turns, crashes>>

(* Its status loop sees the endpoints change; this instance is not told.   *)
PeerStatus(l) ==
    /\ peerLeads
    /\ l # health
    /\ health' = l
    /\ Spend("feed")
    /\ UNCHANGED <<ctrlVars, lbVars, loopVars, upstream, updates, clusterVars>>

(* It downloads the zones and builds what it wants.                        *)
PeerSync ==
    /\ peerLeads
    /\ peerZones' =
           [z \in DOMAIN upstream |->
                ReplaceRecords(upstream[z],
                               MapLBsToZones(health, DOMAIN upstream, z),
                               health)]
    /\ UNCHANGED <<vars, role, peerLeads, turns, crashes>>

(* It uploads a zone, or fails to; it may have lost the leadership since.  *)
PeerUploads(z) ==
    /\ z \in DOMAIN peerZones
    /\ peerZones' = [y \in DOMAIN peerZones \ {z} |-> peerZones[y]]
    /\ upstream' \in {upstream, [upstream EXCEPT ![z] = peerZones[z]]}
    /\ UNCHANGED <<ctrlVars, lbVars, loopVars, health, updates, budget,
                   role, peerLeads, turns, crashes>>

-----------------------------------------------------------------------------
ClusterNext ==
    \/ LocalSync
    \/ LocalUpdates
    \/ \E l \in Feed : LocalStatus(l) \/ PeerStatus(l)
    \/ LocalTime
    \/ DNSStop
    \/ ETCDStop
    \/ StartLeading
    \/ StopLeading
    \/ Crash
    \/ PeerStartsLeading
    \/ PeerStopsLeading
    \/ PeerSync
    \/ \E z \in Zone : PeerUploads(z)

(* The loops run and time passes.  Changes of leadership, stops, crashes   *)
(* and the peer are nobody's duty.                                         *)
ClusterSpec ==
    /\ ClusterInit
    /\ [][ClusterNext]_allVars
    /\ WF_allVars(LocalSync)
    /\ WF_allVars(LocalUpdates)
    /\ WF_allVars(LocalStatus(health))
    /\ WF_allVars(LocalTime)

-----------------------------------------------------------------------------
(* Properties *)

(* An instance that leads for good brings the provider to what the list    *)
(* says, over late uploads of a deposed leader, caches and lists of its    *)
(* own earlier terms, and a crash; the first of these are only repaired    *)
(* because the zones are downloaded again every now and then               *)
(* (dnsController.go:214).                                                 *)
LeaderConverges == <>[](role = "leads") => <>[]Published(health)

(* Once DNSController.Stop has returned no upload of this instance can     *)
(* meet one of the next leader (main.go:589, main.go:635).                 *)
QuietFollower ==
    [][(\E z \in Zone : Uploads(z)) => role \in {"leads", "stopSync"}]_allVars

(* What the records of lb can be in zone z: those it had before dnslb, none *)
(* in a new zone, and, if its name contains the zone, what one list says.  *)
Single(lb, z) ==
    SeedRecords \cup {{}} \cup
        IF <<lb, z>> \in Contains
        THEN {l[lb] : l \in {m \in Feed : lb \in DOMAIN m}}
        ELSE {}

(* Nobody who asks for a name ever gets the endpoints of two lists at      *)
(* once, nor does a name turn up in a zone of others: not between two      *)
(* leaders, not from caches of an earlier term, and not when a zone is     *)
(* uploaded over somebody else's edits (dnsController.go:142).             *)
OneListPerName ==
    \A z \in DOMAIN upstream : \A lb \in LB :
        upstream[z].rr[lb] \in Single(lb, z)
=============================================================================
