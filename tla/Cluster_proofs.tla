--------------------------- MODULE Cluster_proofs ---------------------------
(***************************************************************************)
(* What survives changes of leadership and crashes, for every set of load  *)
(* balancers, zones and lists, whatever the peer does.                     *)
(***************************************************************************)
EXTENDS Cluster, DNSController_proofs

(* A budget is a budget, a copy of the provider's zones consists of zones. *)
LEMMA PeerTypeOK ==
    ASSUME TypeOK, peerZones \in Zones,
           PeerSync \/ \E z \in Zone : PeerUploads(z)
    PROVE  TypeOK' /\ peerZones' \in Zones
<1> USE DEF PeerSync, PeerUploads
<1>0. /\ DOMAIN upstream \in SUBSET Zone
      /\ upstream \in [DOMAIN upstream -> ZoneContent]
      /\ health \in Feed
  BY ZonesElim DEF TypeOK
<1>1. CASE PeerSync
  <2> DEFINE m(z) == MapLBsToZones(health, DOMAIN upstream, z)
  <2>1. \A z \in DOMAIN upstream :
            ReplaceRecords(upstream[z], m(z), health) \in ZoneContent
    BY <1>0, ReplaceRecordsType DEF MapLBsToZones
  <2>2. peerZones' \in [DOMAIN upstream -> ZoneContent]
    BY <1>1, <2>1
  <2>3. peerZones' \in Zones
    BY <1>0, <2>2, ZonesIntro
  <2>4. UNCHANGED vars
    BY <1>1
  <2> QED
    BY <2>3, <2>4, NextTypeOK
<1>2. ASSUME NEW z \in Zone, PeerUploads(z)
      PROVE  TypeOK' /\ peerZones' \in Zones
  <2>1. peerZones[z] \in ZoneContent /\ z \in DOMAIN peerZones
    BY <1>2, ZonesElim
  <2>2. [upstream EXCEPT ![z] = peerZones[z]] \in [DOMAIN upstream -> ZoneContent]
    BY <1>0, <2>1
  <2>3. [upstream EXCEPT ![z] = peerZones[z]] \in Zones
    BY <1>0, <2>2, ZonesIntro
  <2>4. upstream' \in Zones
    BY <1>2, <2>3 DEF TypeOK
  <2>5. TypeOK'
    BY <1>2, <2>4 DEF TypeOK, ctrlVars, lbVars, loopVars
  <2>6. /\ DOMAIN peerZones \ {z} \in SUBSET Zone
        /\ peerZones' \in [DOMAIN peerZones \ {z} -> ZoneContent]
    BY <1>2, ZonesElim
  <2> QED
    BY <2>5, <2>6, ZonesIntro
<1> QED
  BY <1>1, <1>2

(* Steps of this instance are steps of a DNS controller, or none.          *)
LEMMA LocalStepNext ==
    ASSUME ClusterNext
    PROVE  \/ [Next]_vars
           \/ Crash
           \/ \E l \in Feed : PeerStatus(l)
           \/ PeerSync
           \/ \E z \in Zone : PeerUploads(z)
BY DEF ClusterNext, LocalSync, LocalUpdates, LocalStatus, LocalTime, DNSStop,
       ETCDStop, StartLeading, StopLeading, PeerStartsLeading, PeerStopsLeading, Next

ClusterInv == TypeOK /\ peerZones \in Zones

(* The types survive changes of leadership, the peer and crashes.          *)
LEMMA NextClusterInv ==
    ClusterInv /\ [ClusterNext]_allVars => ClusterInv'
<1> SUFFICES ASSUME ClusterInv, [ClusterNext]_allVars PROVE ClusterInv'
  OBVIOUS
<1>1. CASE PeerSync \/ \E z \in Zone : PeerUploads(z)
  BY <1>1, PeerTypeOK DEF ClusterInv
<1>2. ASSUME NEW l \in Feed, PeerStatus(l) PROVE ClusterInv'
  <2>1. budget' \in [{"feed", "edit", "zone", "download", "update"} -> Nat]
    BY <1>2, SpendType DEF PeerStatus, TypeOK, ClusterInv
  <2>2. TypeOK'
    BY <1>2, <2>1
       DEF PeerStatus, TypeOK, ctrlVars, lbVars, loopVars, ClusterInv
  <2> QED
    BY <1>2, <2>2 DEF PeerStatus, clusterVars, ClusterInv
<1>3. CASE Crash
  BY <1>3, NoZonesType DEF Crash, TypeOK, ClusterInv
<1>4. CASE [Next]_vars /\ UNCHANGED peerZones
  BY <1>4, NextTypeOK DEF ClusterInv
<1>5. CASE UNCHANGED allVars
  BY <1>4, <1>5 DEF allVars, clusterVars
<1>6. \/ UNCHANGED peerZones
      \/ PeerSync
      \/ \E z \in Zone : PeerUploads(z)
      \/ UNCHANGED allVars
  BY DEF ClusterNext, LocalSync, LocalUpdates, LocalStatus, LocalTime, DNSStop,
         ETCDStop, StartLeading, StopLeading, Crash, PeerStartsLeading,
         PeerStopsLeading, PeerStatus, clusterVars
<1> QED
  BY <1>1, <1>2, <1>3, <1>4, <1>5, <1>6, LocalStepNext

-----------------------------------------------------------------------------
(* The terms of an instance *)

Roles == {"leads", "stopSync", "stopLB", "stopETCD", "follows"}

(* No cycle and no received list outlives the Stop of its loop.            *)
LoopsInTerm ==
    /\ role \in Roles
    /\ pc # "select" => role \in {"leads", "stopSync"}
    /\ newLBs # NULL => role \in {"leads", "stopSync", "stopLB"}

(* What the sync loop does leaves lbUpdateLoop alone, and conversely.      *)
LEMMA LoopsApart ==
    /\ SyncStep => UNCHANGED newLBs
    /\ LBUpdateStep => UNCHANGED pc
BY DEF SyncStep, LBUpdateStep, Tick, ListZones, UpdateCurrentZones,
       CompareZones, GetZone, UpdateZone, UpdateZoneFails, UpdateZoneTimesOut,
       PushNext, DownloadFails, StoreCandidate, ReceiveUpdate,
       lbVars, loopVars, ctrlVars, envVars

(* Where the loops are changes only by their own steps, by a crash, and    *)
(* the role only by the election and by Stop.                              *)
LEMMA ClusterCases ==
    ASSUME ClusterNext
    PROVE  \/ LocalSync \/ LocalUpdates \/ DNSStop \/ ETCDStop
           \/ StartLeading \/ StopLeading \/ Crash
           \/ UNCHANGED <<pc, newLBs, role>>
BY DEF ClusterNext, LocalStatus, LocalTime, PeerStartsLeading,
       PeerStopsLeading, PeerStatus, PeerSync, PeerUploads, SendUpdate,
       ZoneSyncDue, vars, ctrlVars, lbVars, loopVars, envVars, clusterVars

LEMMA NextLoopsInTerm == LoopsInTerm /\ [ClusterNext]_allVars => LoopsInTerm'
<1> SUFFICES ASSUME LoopsInTerm, [ClusterNext]_allVars PROVE LoopsInTerm'
  OBVIOUS
<1> USE DEF LoopsInTerm, Roles
<1>1. CASE LocalSync
  BY <1>1, LoopsApart DEF LocalSync, clusterVars
<1>2. CASE LocalUpdates
  BY <1>2, LoopsApart DEF LocalUpdates, clusterVars
<1>3. CASE DNSStop \/ ETCDStop
  BY <1>3 DEF DNSStop, ETCDStop, vars, lbVars, loopVars
<1>4. CASE StartLeading
  BY <1>4 DEF StartLeading, vars, lbVars, loopVars
<1>5. CASE StopLeading
  BY <1>5 DEF StopLeading, vars, lbVars, loopVars
<1>6. CASE Crash
  BY <1>6 DEF Crash
<1>7. CASE UNCHANGED <<pc, newLBs, role>>
  BY <1>7
<1>8. CASE UNCHANGED allVars
  BY <1>8 DEF allVars, vars, lbVars, loopVars, clusterVars
<1> QED
  BY <1>1, <1>2, <1>3, <1>4, <1>5, <1>6, <1>7, <1>8, ClusterCases

(* No upload begins or ends outside a term: when DNSController.Stop has    *)
(* returned, the last upload of the term has.                              *)
THEOREM QuietFollowerHolds == ClusterSpec => QuietFollower
<1>1. ClusterInit => LoopsInTerm
  BY DEF ClusterInit, Init, LoopsInTerm, Roles
<1>2. LoopsInTerm /\ [ClusterNext]_allVars => LoopsInTerm'
  BY NextLoopsInTerm
<1>3. LoopsInTerm => [(\E z \in Zone : Uploads(z))
                        => role \in {"leads", "stopSync"}]_allVars
  BY DEF LoopsInTerm, Uploads, UpdateZone, UpdateZoneTimesOut, PushNext
<1> QED
  BY <1>1, <1>2, <1>3, PTL DEF ClusterSpec, QuietFollower

-----------------------------------------------------------------------------
(* One list per name *)

(* Content c of zone z, and all copies of zones in f, obey OneListPerName. *)
LoneContent(c, z) == \A lb \in LB : c.rr[lb] \in Single(lb, z)

Lone(f) == \A z \in DOMAIN f : LoneContent(f[z], z)

(* Every copy of a zone an instance holds may end up at the provider: that *)
(* of the peer, and this instance's through GetZone, updateCurrentZones,   *)
(* updateWantedZones and UpdateZone.                                       *)
OneListInv ==
    /\ Lone(upstream)
    /\ Lone(fetched)
    /\ Lone(currentZones)
    /\ Lone(wantedZones)
    /\ Lone(peerZones)

LEMMA NoZonesLone == Lone(NoZones)
BY NoZonesType DEF Lone

(* The records of a name are replaced as a whole, and only in a zone the   *)
(* name contains.                                                          *)
LEMMA ReplaceRecordsLone ==
    ASSUME NEW z, NEW c, LoneContent(c, z), NEW l \in Feed, NEW names
    PROVE  LoneContent(ReplaceRecords(c, MapLBsToZones(l, names, z), l), z)
<1> DEFINE m == MapLBsToZones(l, names, z)
<1> SUFFICES ASSUME NEW lb \in LB
             PROVE  ReplaceRecords(c, m, l).rr[lb] \in Single(lb, z)
  BY DEF LoneContent
<1>1. ReplaceRecords(c, m, l).rr[lb] = IF lb \in m THEN l[lb] ELSE c.rr[lb]
  BY DEF ReplaceRecords
<1>2. lb \in m => lb \in DOMAIN l /\ <<lb, z>> \in Contains
  BY DEF MapLBsToZones, Matches
<1>3. lb \in m => l[lb] \in Single(lb, z)
  BY <1>2 DEF Single
<1>4. c.rr[lb] \in Single(lb, z)
  BY DEF LoneContent
<1> HIDE DEF m
<1> QED
  BY <1>1, <1>3, <1>4

(* An edit by somebody else puts records of no list there.                 *)
LEMMA EditLone ==
    ASSUME TypeOK, Lone(upstream), Edit
    PROVE  Lone(upstream')
<1> SUFFICES ASSUME NEW z \in Zone,
                    \/ \E lb \in LB, eps \in SeedRecords : EditRecords(z, lb, eps)
                    \/ \E f \in Foreign : EditForeign(z, f) \/ CreateZone(z, f)
                    \/ DeleteZone(z)
             PROVE  Lone(upstream')
  BY DEF Edit
<1> USE DEF Lone, LoneContent
<1>1. ASSUME NEW lb \in LB, NEW eps \in SeedRecords, EditRecords(z, lb, eps)
      PROVE  Lone(upstream')
  <2>1. z \in DOMAIN upstream /\ upstream[z] \in ZoneContent
    BY <1>1, ZonesElim DEF EditRecords, TypeOK
  <2>2. /\ DOMAIN upstream' = DOMAIN upstream
        /\ upstream'[z].rr = [upstream[z].rr EXCEPT ![lb] = eps]
        /\ \A y \in DOMAIN upstream \ {z} : upstream'[y] = upstream[y]
    BY <1>1, <2>1 DEF EditRecords
  <2>3. \A k \in LB : upstream'[z].rr[k] =
                          IF k = lb THEN eps ELSE upstream[z].rr[k]
    BY <2>1, <2>2 DEF ZoneContent
  <2>4. eps \in Single(lb, z)
    BY DEF Single
  <2> QED
    BY <2>1, <2>2, <2>3, <2>4
<1>2. ASSUME NEW f \in Foreign, EditForeign(z, f) PROVE Lone(upstream')
  BY <1>2 DEF EditForeign
<1>3. ASSUME NEW f \in Foreign, CreateZone(z, f) PROVE Lone(upstream')
  <2>1. \A lb \in LB : {} \in Single(lb, z)
    BY DEF Single
  <2> QED
    BY <1>3, <2>1 DEF CreateZone, AddZone
<1>4. CASE DeleteZone(z)
  BY <1>4 DEF DeleteZone
<1> QED
  BY <1>1, <1>2, <1>3, <1>4

(* The steps of this instance copy zones around and replace records.       *)
LEMMA NextOneListInv ==
    ASSUME TypeOK, OneListInv, [Next]_vars, UNCHANGED peerZones
    PROVE  OneListInv'
<1> USE DEF OneListInv
<1>1. CASE Tick \/ ListZones \/ UpdateCurrentZones \/ DownloadFails
  BY <1>1, NoZonesLone
     DEF Tick, ListZones, UpdateCurrentZones, DownloadFails, ctrlVars, envVars
<1>2. CASE CompareZones
  <2>1. wantedLBs \in Feed
    BY <1>2 DEF CompareZones, TypeOK
  <2>2. Lone(UpdateWantedZones)
    BY <2>1, ReplaceRecordsLone DEF Lone, UpdateWantedZones
  <2> QED
    BY <1>2, <2>2 DEF CompareZones, envVars
<1>3. ASSUME NEW z \in Zone, GetZone(z) PROVE OneListInv'
  <2>1. LoneContent(upstream[z], z)
    BY <1>3 DEF GetZone, Lone
  <2>2. Lone(fetched')
    BY <1>3, <2>1 DEF GetZone, AddZone, Lone
  <2> QED
    BY <1>3, <2>2 DEF GetZone, ctrlVars, envVars
<1>4. ASSUME NEW z \in Zone, UpdateZone(z) \/ UpdateZoneTimesOut(z)
      PROVE  OneListInv'
  <2>1. /\ upstream' = [upstream EXCEPT ![z] = wantedZones[z]]
        /\ z \in DOMAIN upstream
        /\ z \in DOMAIN wantedZones
    BY <1>4 DEF UpdateZone, UpdateZoneTimesOut, PushNext, TypeOK
  <2>2. LoneContent(wantedZones[z], z)
    BY <2>1 DEF Lone
  <2>3. Lone(upstream')
    BY <2>1, <2>2 DEF Lone
  <2> QED
    BY <1>4, <2>3 DEF UpdateZone, UpdateZoneTimesOut, PushNext
<1>5. ASSUME NEW z \in Zone, UpdateZoneFails(z) PROVE OneListInv'
  BY <1>5 DEF UpdateZoneFails, PushNext
<1>6. CASE LBUpdateStep \/ \E l \in Feed : SendUpdate(l)
  BY <1>6 DEF LBUpdateStep, StoreCandidate, ReceiveUpdate, SendUpdate,
              ctrlVars, envVars, loopVars
<1>7. CASE ZoneSyncDue
  BY <1>7 DEF ZoneSyncDue, envVars, loopVars
<1>8. CASE Edit
  <2>1. Lone(upstream')
    BY <1>8, EditLone
  <2>2. UNCHANGED <<ctrlVars, loopVars>>
    BY <1>8 DEF Edit, EditRecords, EditForeign, CreateZone, DeleteZone
  <2> QED
    BY <2>1, <2>2 DEF ctrlVars, loopVars
<1>9. CASE UNCHANGED vars
  BY <1>9 DEF vars, ctrlVars, envVars, loopVars
<1> QED
  BY <1>1, <1>2, <1>3, <1>4, <1>5, <1>6, <1>7, <1>8, <1>9 DEF Next, SyncStep

(* So do the peer's.                                                       *)
LEMMA PeerOneListInv ==
    ASSUME TypeOK, OneListInv, PeerSync \/ \E z \in Zone : PeerUploads(z)
    PROVE  OneListInv'
<1> USE DEF OneListInv
<1>1. CASE PeerSync
  <2>1. health \in Feed
    BY DEF TypeOK
  <2>2. Lone(peerZones')
    BY <1>1, <2>1, ReplaceRecordsLone DEF PeerSync, Lone
  <2> QED
    BY <1>1, <2>2 DEF PeerSync, vars, ctrlVars, loopVars, envVars
<1>2. ASSUME NEW z \in Zone, PeerUploads(z) PROVE OneListInv'
  <2>1. LoneContent(peerZones[z], z)
    BY <1>2 DEF PeerUploads, Lone
  <2>2. Lone([upstream EXCEPT ![z] = peerZones[z]])
    BY <2>1 DEF Lone
  <2>3. Lone(upstream') /\ Lone(peerZones')
    BY <1>2, <2>2 DEF PeerUploads, Lone
  <2> QED
    BY <1>2, <2>3 DEF PeerUploads, ctrlVars, loopVars
<1> QED
  BY <1>1, <1>2

LEMMA InitOneListInv == ClusterInit => OneListInv
<1> SUFFICES ASSUME ClusterInit PROVE OneListInv
  OBVIOUS
<1>1. Lone(upstream)
  BY DEF ClusterInit, Init, Lone, LoneContent, Single
<1> QED
  BY <1>1, NoZonesLone DEF ClusterInit, Init, OneListInv

LEMMA StepOneListInv ==
    ASSUME TypeOK, OneListInv, [ClusterNext]_allVars
    PROVE  OneListInv'
<1>1. CASE PeerSync \/ \E z \in Zone : PeerUploads(z)
  BY <1>1, PeerOneListInv
<1>2. CASE \E l \in Feed : PeerStatus(l)
  BY <1>2 DEF PeerStatus, OneListInv, ctrlVars, loopVars, clusterVars
<1>3. CASE Crash
  BY <1>3, NoZonesLone DEF Crash, OneListInv
<1>4. CASE [Next]_vars /\ UNCHANGED peerZones
  BY <1>4, NextOneListInv
<1>5. CASE UNCHANGED allVars
  BY <1>4, <1>5 DEF allVars, clusterVars
<1>6. \/ UNCHANGED peerZones
      \/ PeerSync
      \/ \E z \in Zone : PeerUploads(z)
      \/ UNCHANGED allVars
  BY DEF ClusterNext, LocalSync, LocalUpdates, LocalStatus, LocalTime, DNSStop,
         ETCDStop, StartLeading, StopLeading, Crash, PeerStartsLeading,
         PeerStopsLeading, PeerStatus, clusterVars
<1> QED
  BY <1>1, <1>2, <1>3, <1>4, <1>5, <1>6, LocalStepNext

(* Whoever leads, whatever is cached and whoever edits the zones: a name   *)
(* has the endpoints of one list, or what it had without dnslb.            *)
THEOREM OneListPerNameHolds == ClusterSpec => []OneListPerName
<1> DEFINE Inv == ClusterInv /\ OneListInv
<1>1. ClusterInit => Inv
  BY InitTypeOK, NoZonesType, InitOneListInv DEF ClusterInit, ClusterInv
<1>2. Inv /\ [ClusterNext]_allVars => Inv'
  BY NextClusterInv, StepOneListInv DEF ClusterInv
<1>3. Inv => OneListPerName
  BY DEF OneListInv, Lone, LoneContent, OneListPerName
<1> QED
  BY <1>1, <1>2, <1>3, PTL DEF ClusterSpec

=============================================================================
