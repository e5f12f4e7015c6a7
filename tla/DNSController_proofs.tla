------------------------ MODULE DNSController_proofs ------------------------
(***************************************************************************)
(* What the DNS controller guarantees for every set of load balancers,     *)
(* zones and endpoints, and for any number of failures, edits and lists.   *)
(***************************************************************************)
EXTENDS DNSController, TLAPS

-----------------------------------------------------------------------------
(* Partial functions: zones and lists *)

(* A function on some of the zones is a dns.Zones.                         *)
LEMMA ZonesIntro ==
    ASSUME NEW S \in SUBSET Zone, NEW f \in [S -> ZoneContent]
    PROVE  f \in Zones
BY DEF Zones

(* ... and a dns.Zones is a function on some of the zones.                 *)
LEMMA ZonesElim ==
    ASSUME NEW f \in Zones
    PROVE  /\ DOMAIN f \in SUBSET Zone
           /\ f \in [DOMAIN f -> ZoneContent]
BY DEF Zones

(* A list maps some of the load balancers to endpoints.                    *)
LEMMA ListElim ==
    ASSUME NEW l \in Feed
    PROVE  /\ DOMAIN l \in SUBSET LB
           /\ l \in [DOMAIN l -> SUBSET Endpoint]
           /\ l # NULL
BY ConstantsAssumption DEF LoadbalancerList

(* No zones at all are zones too.                                          *)
LEMMA NoZonesType == NoZones \in Zones /\ DOMAIN NoZones = {}
<1>1. NoZones \in [{} -> ZoneContent]
  BY DEF NoZones
<1>2. {} \in SUBSET Zone
  OBVIOUS
<1>3. NoZones \in Zones
  BY <1>1, <1>2, ZonesIntro
<1> QED
  BY <1>3 DEF NoZones

(* One zone more: what GetZone and CreateZone do.                          *)
LEMMA AddZoneType ==
    ASSUME NEW f \in Zones, NEW z \in Zone, NEW c \in ZoneContent
    PROVE  AddZone(f, z, c) \in Zones
<1>1. DOMAIN f \cup {z} \in SUBSET Zone
  BY ZonesElim
<1>2. AddZone(f, z, c) \in [DOMAIN f \cup {z} -> ZoneContent]
  BY ZonesElim DEF AddZone
<1> QED
  BY <1>1, <1>2, ZonesIntro

(* One zone's content replaced: uploads and edits.                         *)
LEMMA SetZoneType ==
    ASSUME NEW f \in Zones, NEW z \in DOMAIN f, NEW c \in ZoneContent
    PROVE  [f EXCEPT ![z] = c] \in Zones
<1>1. [f EXCEPT ![z] = c] \in [DOMAIN f -> ZoneContent]
  BY ZonesElim
<1> QED
  BY <1>1, ZonesElim, ZonesIntro

(* Replacing the records of some of the listed LBs yields a zone.          *)
LEMMA ReplaceRecordsType ==
    ASSUME NEW c \in ZoneContent, NEW l \in Feed, NEW lbs \in SUBSET DOMAIN l
    PROVE  /\ ReplaceRecords(c, lbs, l) \in ZoneContent
           /\ ReplaceRecords(c, lbs, l).other = c.other
           /\ \A lb \in LB : ReplaceRecords(c, lbs, l).rr[lb] =
                                IF lb \in lbs THEN l[lb] ELSE c.rr[lb]
BY ListElim DEF ReplaceRecords, ZoneContent

(* The wanted zones are the current ones with the listed LBs' records.     *)
LEMMA UpdateWantedZonesType ==
    ASSUME TypeOK, wantedLBs # NULL
    PROVE  /\ UpdateWantedZones \in Zones
           /\ DOMAIN UpdateWantedZones = DOMAIN currentZones
           /\ \A z \in DOMAIN currentZones :
                MapLBsToZones(wantedLBs, currentZoneNames, z)
                    \in SUBSET DOMAIN wantedLBs
<1>1. wantedLBs \in Feed
  BY DEF TypeOK
<1>2. /\ DOMAIN currentZones \in SUBSET Zone
      /\ currentZones \in [DOMAIN currentZones -> ZoneContent]
  BY ZonesElim DEF TypeOK
<1>3. \A z \in DOMAIN currentZones :
        MapLBsToZones(wantedLBs, currentZoneNames, z) \in SUBSET DOMAIN wantedLBs
  BY DEF MapLBsToZones
<1>4. \A z \in DOMAIN currentZones :
        ReplaceRecords(currentZones[z],
                       MapLBsToZones(wantedLBs, currentZoneNames, z),
                       wantedLBs) \in ZoneContent
  BY <1>1, <1>2, <1>3, ReplaceRecordsType
<1>5. UpdateWantedZones \in [DOMAIN currentZones -> ZoneContent]
  BY <1>4 DEF UpdateWantedZones
<1> QED
  BY <1>2, <1>3, <1>5, ZonesIntro DEF UpdateWantedZones

(* A budget is spent from one kind and stays a budget.                     *)
LEMMA SpendType ==
    ASSUME NEW kind \in {"feed", "edit", "zone", "download", "update"},
           budget \in [{"feed", "edit", "zone", "download", "update"} -> Nat],
           Spend(kind)
    PROVE  budget' \in [{"feed", "edit", "zone", "download", "update"} -> Nat]
BY DEF Spend

-----------------------------------------------------------------------------
(* Type correctness *)

LEMMA InitTypeOK == Init => TypeOK
<1> SUFFICES ASSUME Init PROVE TypeOK
  OBVIOUS
<1>1. upstream \in Zones
  <2>1. [rr : [LB -> SeedRecords], other : Foreign] \subseteq ZoneContent
    BY ConstantsAssumption DEF ZoneContent
  <2>2. upstream \in [InitZones -> ZoneContent]
    BY <2>1 DEF Init
  <2> QED
    BY <2>2, ConstantsAssumption, ZonesIntro
<1>2. budget \in [{"feed", "edit", "zone", "download", "update"} -> Nat]
  BY ConstantsAssumption DEF Init
<1> QED
  BY <1>1, <1>2, NoZonesType DEF Init, TypeOK

(* The loop that receives lists keeps them in Feed.                        *)
LEMMA LBUpdateStepTypeOK == TypeOK /\ LBUpdateStep => TypeOK'
<1> SUFFICES ASSUME TypeOK, LBUpdateStep PROVE TypeOK'
  OBVIOUS
<1>1. CASE StoreCandidate
  BY <1>1 DEF StoreCandidate, TypeOK, ctrlVars, loopVars, envVars
<1>2. ASSUME NEW l \in Feed, ReceiveUpdate(l) PROVE TypeOK'
  BY <1>2 DEF ReceiveUpdate, TypeOK, ctrlVars, loopVars
<1> QED
  BY <1>1, <1>2 DEF LBUpdateStep

(* UpdateZone is called for wanted zones, and those are zones.             *)
LEMMA UploadType ==
    ASSUME TypeOK, NEW z \in DOMAIN upstream, z \in DOMAIN wantedZones
    PROVE  [upstream EXCEPT ![z] = wantedZones[z]] \in Zones
<1>1. wantedZones[z] \in ZoneContent
  BY ZonesElim DEF TypeOK
<1> QED
  BY <1>1, SetZoneType DEF TypeOK

LEMMA SyncStepTypeOK == TypeOK /\ SyncStep => TypeOK'
<1> SUFFICES ASSUME TypeOK, SyncStep PROVE TypeOK'
  OBVIOUS
<1>1. CASE Tick
  BY <1>1, ListElim DEF Tick, TypeOK, ctrlVars, envVars
<1>2. CASE ListZones
  <2>1. DOMAIN upstream \in SUBSET Zone
    BY ZonesElim DEF TypeOK
  <2> QED
    BY <1>2, <2>1, NoZonesType DEF ListZones, ZonesToGet, TypeOK, ctrlVars, lbVars, envVars
<1>3. CASE UpdateCurrentZones
  BY <1>3, NoZonesType DEF UpdateCurrentZones, TypeOK, lbVars, envVars
<1>4. CASE CompareZones
  <2>1. wantedZones' \in Zones /\ wantedZonesLBHash' \in Feed \cup {NULL}
    BY <1>4, UpdateWantedZonesType DEF CompareZones, TypeOK
  <2>2. DOMAIN wantedZones' \in SUBSET Zone
    BY <2>1, ZonesElim
  <2>3. todo' \subseteq DOMAIN wantedZones'
    BY <1>4 DEF CompareZones, ChangedZones
  <2> QED
    BY <1>4, <2>1, <2>2, <2>3 DEF CompareZones, TypeOK, lbVars, envVars
<1>5. ASSUME NEW z \in Zone, GetZone(z) PROVE TypeOK'
  <2>1. upstream[z] \in ZoneContent
    BY <1>5, ZonesElim DEF GetZone, TypeOK
  <2>2. fetched' \in Zones
    BY <1>5, <2>1, AddZoneType DEF GetZone, TypeOK
  <2> QED
    BY <1>5, <2>2 DEF GetZone, TypeOK, ctrlVars, lbVars, envVars
<1>6. ASSUME NEW z \in Zone, UpdateZone(z) PROVE TypeOK'
  <2>1. upstream' \in Zones
    BY <1>6, UploadType DEF UpdateZone, PushNext, TypeOK
  <2> QED
    BY <1>6, <2>1 DEF UpdateZone, EnforceAfterUpdate, PushNext, TypeOK, lbVars
<1>7. ASSUME NEW z \in Zone, UpdateZoneFails(z) PROVE TypeOK'
  <2>1. budget' \in [{"feed", "edit", "zone", "download", "update"} -> Nat]
    BY <1>7, SpendType DEF UpdateZoneFails, TypeOK
  <2> QED
    BY <1>7, <2>1 DEF UpdateZoneFails, PushNext, TypeOK, lbVars
<1>8. ASSUME NEW z \in Zone, UpdateZoneTimesOut(z) PROVE TypeOK'
  <2>1. upstream' \in Zones
    BY <1>8, UploadType DEF UpdateZoneTimesOut, PushNext, TypeOK
  <2>2. budget' \in [{"feed", "edit", "zone", "download", "update"} -> Nat]
    BY <1>8, SpendType DEF UpdateZoneTimesOut, TypeOK
  <2> QED
    BY <1>8, <2>1, <2>2 DEF UpdateZoneTimesOut, PushNext, TypeOK, lbVars
<1>9. CASE DownloadFails
  <2>1. budget' \in [{"feed", "edit", "zone", "download", "update"} -> Nat]
    BY <1>9, SpendType DEF DownloadFails, TypeOK
  <2> QED
    BY <1>9, <2>1, NoZonesType DEF DownloadFails, TypeOK, ctrlVars, lbVars
<1> QED
  BY <1>1, <1>2, <1>3, <1>4, <1>5, <1>6, <1>7, <1>8, <1>9 DEF SyncStep

(* Editing a zone leaves the upstream zones zones.                         *)
LEMMA EditTypeOK == TypeOK /\ Edit => TypeOK'
<1> SUFFICES ASSUME TypeOK, NEW z \in Zone,
                    \/ \E lb \in LB, eps \in SeedRecords : EditRecords(z, lb, eps)
                    \/ \E f \in Foreign : EditForeign(z, f) \/ CreateZone(z, f)
                    \/ DeleteZone(z)
             PROVE  TypeOK'
  BY DEF Edit
<1>0. /\ upstream \in [DOMAIN upstream -> ZoneContent]
      /\ DOMAIN upstream \in SUBSET Zone
  BY ZonesElim DEF TypeOK
<1>1. ASSUME NEW lb \in LB, NEW eps \in SeedRecords, EditRecords(z, lb, eps)
      PROVE  TypeOK'
  <2> DEFINE c == [rr |-> [upstream[z].rr EXCEPT ![lb] = eps],
                   other |-> upstream[z].other]
  <2>1. z \in DOMAIN upstream /\ upstream[z] \in ZoneContent
    BY <1>0, <1>1 DEF EditRecords
  <2>2. c \in ZoneContent
    BY <2>1, ConstantsAssumption DEF ZoneContent
  <2>3. upstream' = [upstream EXCEPT ![z] = c]
    BY <1>0, <1>1, <2>1 DEF EditRecords, ZoneContent
  <2>4. upstream' \in Zones
    BY <2>1, <2>2, <2>3, SetZoneType DEF TypeOK
  <2>5. budget' \in [{"feed", "edit", "zone", "download", "update"} -> Nat]
    BY <1>1, SpendType DEF EditRecords, TypeOK
  <2> QED
    BY <1>1, <2>4, <2>5 DEF EditRecords, TypeOK, ctrlVars, lbVars, loopVars
<1>2. ASSUME NEW f \in Foreign, EditForeign(z, f) PROVE TypeOK'
  <2> DEFINE c == [rr |-> upstream[z].rr, other |-> f]
  <2>1. z \in DOMAIN upstream /\ upstream[z] \in ZoneContent
    BY <1>0, <1>2 DEF EditForeign
  <2>2. c \in ZoneContent
    BY <2>1 DEF ZoneContent
  <2>3. upstream' = [upstream EXCEPT ![z] = c]
    BY <1>0, <1>2, <2>1 DEF EditForeign, ZoneContent
  <2>4. upstream' \in Zones
    BY <2>1, <2>2, <2>3, SetZoneType DEF TypeOK
  <2>5. budget' \in [{"feed", "edit", "zone", "download", "update"} -> Nat]
    BY <1>2, SpendType DEF EditForeign, TypeOK
  <2> QED
    BY <1>2, <2>4, <2>5 DEF EditForeign, TypeOK, ctrlVars, lbVars, loopVars
<1>3. ASSUME NEW f \in Foreign, CreateZone(z, f) PROVE TypeOK'
  <2> DEFINE c == [rr |-> [lb \in LB |-> {}], other |-> f]
  <2>1. c \in ZoneContent
    BY DEF ZoneContent
  <2>2. upstream' \in Zones
    BY <1>3, <2>1, AddZoneType DEF CreateZone, TypeOK
  <2>3. budget' \in [{"feed", "edit", "zone", "download", "update"} -> Nat]
    BY <1>3, SpendType DEF CreateZone, TypeOK
  <2> QED
    BY <1>3, <2>2, <2>3 DEF CreateZone, TypeOK, ctrlVars, lbVars, loopVars
<1>4. CASE DeleteZone(z)
  <2>1. upstream' \in [DOMAIN upstream \ {z} -> ZoneContent]
    BY <1>0, <1>4 DEF DeleteZone
  <2>2. upstream' \in Zones
    BY <1>0, <2>1, ZonesIntro
  <2>3. budget' \in [{"feed", "edit", "zone", "download", "update"} -> Nat]
    BY <1>4, SpendType DEF DeleteZone, TypeOK
  <2> QED
    BY <1>4, <2>2, <2>3 DEF DeleteZone, TypeOK, ctrlVars, lbVars, loopVars
<1> QED
  BY <1>1, <1>2, <1>3, <1>4

LEMMA NextTypeOK == TypeOK /\ [Next]_vars => TypeOK'
<1> SUFFICES ASSUME TypeOK, [Next]_vars PROVE TypeOK'
  OBVIOUS
<1>1. CASE SyncStep
  BY <1>1, SyncStepTypeOK
<1>2. CASE LBUpdateStep
  BY <1>2, LBUpdateStepTypeOK
<1>3. ASSUME NEW l \in Feed, SendUpdate(l) PROVE TypeOK'
  <2>1. budget' \in [{"feed", "edit", "zone", "download", "update"} -> Nat]
    BY <1>3, SpendType DEF SendUpdate, TypeOK
  <2> QED
    BY <1>3, <2>1 DEF SendUpdate, TypeOK, ctrlVars, lbVars, loopVars
<1>4. CASE ZoneSyncDue
  BY <1>4 DEF ZoneSyncDue, TypeOK, lbVars, loopVars, envVars
<1>5. CASE Edit
  BY <1>5, EditTypeOK
<1>6. CASE UNCHANGED vars
  BY <1>6 DEF vars, ctrlVars, lbVars, loopVars, envVars, TypeOK
<1> QED
  BY <1>1, <1>2, <1>3, <1>4, <1>5, <1>6 DEF Next

(* Type correctness.  Besides the types: the sync loop is in a cycle only  *)
(* when it has a list (the check of wantedLBs for nil in Run), and it      *)
(* uploads only zones it has built (the loop over wantedZones in sync).    *)
THEOREM TypeCorrect == Spec => []TypeOK
<1>1. Init => TypeOK
  BY InitTypeOK
<1>2. TypeOK /\ [Next]_vars => TypeOK'
  BY NextTypeOK
<1> QED
  BY <1>1, <1>2, PTL DEF Spec

-----------------------------------------------------------------------------
(* The wanted zones carry the list they are filed under                    *)

(* The zones in memory are among those of the ListZones they come from:    *)
(* which zone an LB belongs to is decided with all of them in view.        *)
NamesCover ==
    /\ DOMAIN currentZones \subseteq currentZoneNames
    /\ pc = "get" => DOMAIN fetched \cup todo \subseteq allZoneNames

CarryInv == TypeOK /\ NamesCover /\ WantedZonesCarryList

LEMMA InitCarryInv == Init => CarryInv
<1> SUFFICES ASSUME Init PROVE CarryInv
  OBVIOUS
<1>1. NamesCover
  BY NoZonesType DEF Init, NamesCover
<1>2. WantedZonesCarryList
  BY DEF Init, WantedZonesCarryList
<1> QED
  BY <1>1, <1>2, InitTypeOK DEF CarryInv

LEMMA NextNamesCover == TypeOK /\ NamesCover /\ [Next]_vars => NamesCover'
<1> SUFFICES ASSUME TypeOK, NamesCover, [Next]_vars PROVE NamesCover'
  OBVIOUS
<1> USE DEF NamesCover
<1>1. CASE ListZones
  BY <1>1, NoZonesType DEF ListZones, ZonesToGet, ctrlVars
<1>2. ASSUME NEW z \in Zone, GetZone(z) PROVE NamesCover'
  BY <1>2 DEF GetZone, AddZone, ctrlVars
<1>3. CASE UpdateCurrentZones
  BY <1>3 DEF UpdateCurrentZones
<1>4. CASE Tick \/ DownloadFails
  BY <1>4 DEF Tick, DownloadFails, ctrlVars, TypeOK
<1>5. CASE CompareZones
  BY <1>5 DEF CompareZones
<1>6. ASSUME NEW z \in Zone, PushNext(z) PROVE NamesCover'
  BY <1>6 DEF PushNext
<1>7. CASE LBUpdateStep
  BY <1>7 DEF LBUpdateStep, StoreCandidate, ReceiveUpdate, ctrlVars, loopVars
<1>8. ASSUME NEW l \in Feed, SendUpdate(l) PROVE NamesCover'
  BY <1>8 DEF SendUpdate, ctrlVars, loopVars
<1>9. CASE ZoneSyncDue
  BY <1>9 DEF ZoneSyncDue, loopVars
<1>10. CASE Edit
  BY <1>10 DEF Edit, EditRecords, EditForeign, CreateZone, DeleteZone,
               ctrlVars, loopVars
<1>11. CASE UNCHANGED vars
  BY <1>11 DEF vars, ctrlVars, loopVars
<1> QED
  BY <1>1, <1>2, <1>3, <1>4, <1>5, <1>6, <1>7, <1>8, <1>9, <1>10, <1>11
     DEF Next, SyncStep, UpdateZone, UpdateZoneFails, UpdateZoneTimesOut

(* An LB at home in a zone is assigned to it by mapLBsToZones.             *)
LEMMA HomeMatches ==
    ASSUME NEW lb \in LB, NEW names \in SUBSET Zone, NEW z \in names,
           Home(lb, z)
    PROVE  Matches(lb, names, z)
BY DEF Home, Matches

(* Only CompareZones builds wanted zones; every other step keeps them.     *)
LEMMA WantedZonesKept ==
    [Next]_vars => \/ CompareZones
                   \/ UNCHANGED <<wantedZones, wantedZonesLBHash>>
BY DEF Next, SyncStep, LBUpdateStep, Edit, Tick, ListZones, UpdateCurrentZones,
       GetZone, UpdateZone, UpdateZoneFails, UpdateZoneTimesOut, PushNext,
       DownloadFails, StoreCandidate, ReceiveUpdate, SendUpdate, ZoneSyncDue,
       EditRecords, EditForeign, CreateZone, DeleteZone, vars, ctrlVars

LEMMA NextWantedZonesCarryList ==
    CarryInv /\ [Next]_vars => WantedZonesCarryList'
<1> SUFFICES ASSUME CarryInv, [Next]_vars PROVE WantedZonesCarryList'
  OBVIOUS
<1>1. CASE UNCHANGED <<wantedZones, wantedZonesLBHash>>
  BY <1>1 DEF CarryInv, WantedZonesCarryList
<1>2. CASE CompareZones /\ wantedZones' = UpdateWantedZones
                        /\ wantedZonesLBHash' = wantedLBs
  <2> SUFFICES ASSUME NEW z \in DOMAIN wantedZones',
                      NEW lb \in DOMAIN wantedLBs,
                      Home(lb, z)
               PROVE  wantedZones'[z].rr[lb] = wantedLBs[lb]
    BY <1>2 DEF WantedZonesCarryList
  <2>1. wantedLBs \in Feed
    BY <1>2 DEF CarryInv, TypeOK, CompareZones
  <2>2. lb \in LB
    BY <2>1, ListElim
  <2>3. z \in DOMAIN currentZones /\ z \in currentZoneNames
    BY <1>2 DEF UpdateWantedZones, CarryInv, NamesCover
  <2>4. lb \in MapLBsToZones(wantedLBs, currentZoneNames, z)
    BY <2>2, <2>3, HomeMatches DEF CarryInv, TypeOK, MapLBsToZones
  <2>5. currentZones[z] \in ZoneContent
    BY <2>3, ZonesElim DEF CarryInv, TypeOK
  <2>6. MapLBsToZones(wantedLBs, currentZoneNames, z) \in SUBSET DOMAIN wantedLBs
    BY DEF MapLBsToZones
  <2>7. wantedZones'[z] =
          ReplaceRecords(currentZones[z],
                         MapLBsToZones(wantedLBs, currentZoneNames, z), wantedLBs)
    BY <1>2, <2>3 DEF UpdateWantedZones
  <2> QED
    BY <2>1, <2>2, <2>4, <2>5, <2>6, <2>7, ReplaceRecordsType
<1> QED
  BY <1>1, <1>2, WantedZonesKept DEF CompareZones

(* The wanted zones always carry exactly the list whose hash they are      *)
(* filed under (wantedZonesLBHash in sync), whatever failed, was edited or *)
(* arrived since they were built.                                          *)
THEOREM WantedZonesCarryListHolds == Spec => []WantedZonesCarryList
<1>1. Init => CarryInv
  BY InitCarryInv
<1>2. CarryInv /\ [Next]_vars => CarryInv'
  BY NextTypeOK, NextNamesCover, NextWantedZonesCarryList DEF CarryInv
<1>3. CarryInv => WantedZonesCarryList
  BY DEF CarryInv
<1> QED
  BY <1>1, <1>2, <1>3, PTL DEF Spec

-----------------------------------------------------------------------------
(* Zones of no load balancer                                               *)

(* The zones some LB's name contains.                                      *)
BalancedZones == {z \in Zone : \E lb \in LB : <<lb, z>> \in Contains}

(* The controller holds no copy of any other zone.                         *)
OnlyBalanced ==
    /\ DOMAIN currentZones \subseteq BalancedZones
    /\ DOMAIN wantedZones \subseteq BalancedZones
    /\ pc = "get" => DOMAIN fetched \cup todo \subseteq BalancedZones

LEMMA NextOnlyBalanced == TypeOK /\ OnlyBalanced /\ [Next]_vars => OnlyBalanced'
<1> SUFFICES ASSUME TypeOK, OnlyBalanced, [Next]_vars PROVE OnlyBalanced'
  OBVIOUS
<1> USE DEF OnlyBalanced
<1>1. CASE ListZones
  <2>1. wantedLBs \in Feed
    BY <1>1 DEF TypeOK, ListZones
  <2>2. DOMAIN upstream \in SUBSET Zone
    BY ZonesElim DEF TypeOK
  <2>3. \A z \in todo' : z \in BalancedZones
    BY <1>1, <2>1, <2>2, ListElim
       DEF ListZones, ZonesToGet, MapLBsToZones, Matches, BalancedZones
  <2> QED
    BY <1>1, <2>3, NoZonesType DEF ListZones, ctrlVars
<1>2. ASSUME NEW z \in Zone, GetZone(z) PROVE OnlyBalanced'
  BY <1>2 DEF GetZone, AddZone, ctrlVars
<1>3. CASE UpdateCurrentZones
  BY <1>3 DEF UpdateCurrentZones
<1>4. CASE Tick \/ DownloadFails
  BY <1>4 DEF Tick, DownloadFails, ctrlVars
<1>5. CASE CompareZones
  BY <1>5 DEF CompareZones, UpdateWantedZones
<1>6. ASSUME NEW z \in Zone, PushNext(z) PROVE OnlyBalanced'
  BY <1>6 DEF PushNext
<1>7. CASE LBUpdateStep
  BY <1>7 DEF LBUpdateStep, StoreCandidate, ReceiveUpdate, ctrlVars, loopVars
<1>8. ASSUME NEW l \in Feed, SendUpdate(l) PROVE OnlyBalanced'
  BY <1>8 DEF SendUpdate, ctrlVars, loopVars
<1>9. CASE ZoneSyncDue
  BY <1>9 DEF ZoneSyncDue, loopVars
<1>10. CASE Edit
  BY <1>10 DEF Edit, EditRecords, EditForeign, CreateZone, DeleteZone,
               ctrlVars, loopVars
<1>11. CASE UNCHANGED vars
  BY <1>11 DEF vars, ctrlVars, loopVars
<1> QED
  BY <1>1, <1>2, <1>3, <1>4, <1>5, <1>6, <1>7, <1>8, <1>9, <1>10, <1>11
     DEF Next, SyncStep, UpdateZone, UpdateZoneFails, UpdateZoneTimesOut

(* No zone is ever uploaded that no LB's name contains (zoneNames in       *)
(* updateCurrentZones): the wanted zones never hold one.                   *)
THEOREM ForeignZonesUntouchedHolds == Spec => ForeignZonesUntouched
<1> DEFINE Inv == TypeOK /\ OnlyBalanced
<1>1. Init => Inv
  BY InitTypeOK, NoZonesType DEF Init, OnlyBalanced
<1>2. Inv /\ [Next]_vars => Inv'
  BY NextTypeOK, NextOnlyBalanced
<1>3. Inv => [\A z \in Zone : Uploads(z) =>
                    \E lb \in LB : <<lb, z>> \in Contains]_vars
  BY DEF TypeOK, OnlyBalanced, BalancedZones, Uploads, UpdateZone,
         UpdateZoneTimesOut, PushNext
<1> QED
  BY <1>1, <1>2, <1>3, PTL DEF Spec, ForeignZonesUntouched

-----------------------------------------------------------------------------
(* When nobody else edits records *)

(* f has records for every LB that has some at the provider.               *)
Keeps(f) ==
    \A z \in DOMAIN f \cap DOMAIN upstream : \A lb \in LB :
        upstream[z].rr[lb] # {} => f[z].rr[lb] # {}

(* A copy of the zones is only behind the provider after an upload, and    *)
(* then currentZonesEnforceSync forbids building wanted zones from it.     *)
BlackoutInv ==
    /\ budget["edit"] = 0
    /\ Keeps(wantedZones)
    /\ ~currentZonesEnforceSync => Keeps(currentZones)
    /\ pc = "get" => Keeps(fetched)
    /\ pc = "wanted" => ~currentZonesEnforceSync

(* A step that changes neither the provider's records nor the copies.      *)
LEMMA BlackoutInvKept ==
    ASSUME TypeOK, BlackoutInv, budget'["edit"] = 0,
           \A z \in DOMAIN upstream' : \A lb \in LB :
                upstream'[z].rr[lb] # {} =>
                    /\ z \in DOMAIN upstream
                    /\ upstream[z].rr[lb] # {},
           UNCHANGED <<currentZonesEnforceSync, currentZones, wantedZones>>,
           UNCHANGED fetched \/ pc' # "get",
           pc' = "get" => pc = "get",
           pc' = "wanted" => pc = "wanted" \/ ~currentZonesEnforceSync
    PROVE  BlackoutInv'
BY DEF BlackoutInv, Keeps

(* Building the wanted zones empties no LB's records: the list has no      *)
(* empty entry.                                                            *)
LEMMA UpdateWantedZonesKeeps ==
    ASSUME TypeOK, wantedLBs # NULL, Keeps(currentZones)
    PROVE  \A z \in DOMAIN currentZones \cap DOMAIN upstream : \A lb \in LB :
                upstream[z].rr[lb] # {} => UpdateWantedZones[z].rr[lb] # {}
<1> SUFFICES ASSUME NEW z \in DOMAIN currentZones \cap DOMAIN upstream,
                    NEW lb \in LB, upstream[z].rr[lb] # {}
             PROVE  UpdateWantedZones[z].rr[lb] # {}
  OBVIOUS
<1> DEFINE m == MapLBsToZones(wantedLBs, currentZoneNames, z)
<1>1. wantedLBs \in Feed /\ m \in SUBSET DOMAIN wantedLBs
  BY DEF TypeOK, MapLBsToZones
<1>2. currentZones[z] \in ZoneContent
  BY ZonesElim DEF TypeOK
<1>3. UpdateWantedZones[z] = ReplaceRecords(currentZones[z], m, wantedLBs)
  BY DEF UpdateWantedZones
<1>4. UpdateWantedZones[z].rr[lb] =
            IF lb \in m THEN wantedLBs[lb] ELSE currentZones[z].rr[lb]
  BY <1>1, <1>2, <1>3, ReplaceRecordsType
<1>5. currentZones[z].rr[lb] # {}
  BY DEF Keeps
<1> QED
  BY <1>1, <1>4, <1>5, FeedAssumption

(* An upload writes the wanted zone and enforces a download.               *)
LEMMA UpdateZoneBlackoutInv ==
    ASSUME TypeOK, BlackoutInv, NEW z \in Zone, UpdateZone(z)
    PROVE  BlackoutInv'
<1>1. upstream' = [upstream EXCEPT ![z] = wantedZones[z]]
  BY DEF UpdateZone
<1>2. \A y \in DOMAIN upstream' : \A lb \in LB :
        upstream'[y].rr[lb] # {} /\ y # z => upstream[y].rr[lb] # {}
  BY <1>1
<1>3. Keeps(wantedZones)'
  BY <1>1, <1>2 DEF UpdateZone, PushNext, BlackoutInv, Keeps, TypeOK
<1> QED
  BY <1>3 DEF UpdateZone, EnforceAfterUpdate, PushNext, BlackoutInv

LEMMA NextBlackoutInv ==
    ASSUME ~AmbiguousUpdates, TypeOK, BlackoutInv, [Next]_vars
    PROVE  BlackoutInv'
<1>1. CASE Tick
  BY <1>1, BlackoutInvKept DEF Tick, DownloadDue, ctrlVars, envVars, BlackoutInv
<1>2. CASE ListZones
  BY <1>2, NoZonesType DEF ListZones, ctrlVars, envVars, BlackoutInv, Keeps
<1>3. CASE UpdateCurrentZones
  BY <1>3, NoZonesType DEF UpdateCurrentZones, envVars, BlackoutInv, Keeps
<1>4. CASE CompareZones
  <2>1. wantedLBs # NULL /\ Keeps(currentZones) /\ pc' \notin {"get", "wanted"}
    BY <1>4 DEF CompareZones, TypeOK, BlackoutInv
  <2>2. DOMAIN UpdateWantedZones = DOMAIN currentZones
    BY DEF UpdateWantedZones
  <2>3. Keeps(wantedZones)'
    BY <1>4, <2>1, <2>2, UpdateWantedZonesKeeps
       DEF CompareZones, envVars, BlackoutInv, Keeps
  <2>4. Keeps(currentZones)'
    BY <1>4, <2>1 DEF CompareZones, envVars, Keeps
  <2> QED
    BY <1>4, <2>1, <2>3, <2>4 DEF CompareZones, envVars, BlackoutInv
<1>5. ASSUME NEW z \in Zone, GetZone(z) PROVE BlackoutInv'
  BY <1>5 DEF GetZone, AddZone, ctrlVars, envVars, BlackoutInv, Keeps
<1>6. ASSUME NEW z \in Zone, UpdateZone(z) PROVE BlackoutInv'
  BY <1>6, UpdateZoneBlackoutInv
<1>7. ASSUME NEW z \in Zone, UpdateZoneFails(z) PROVE BlackoutInv'
  <2>1. budget'["edit"] = 0
    BY <1>7 DEF UpdateZoneFails, Spend, BlackoutInv, TypeOK
  <2> QED
    BY <1>7, <2>1, BlackoutInvKept DEF UpdateZoneFails, PushNext
<1>8. CASE DownloadFails
  <2>1. budget'["edit"] = 0
    BY <1>8 DEF DownloadFails, Spend, BlackoutInv, TypeOK
  <2> QED
    BY <1>8, <2>1, BlackoutInvKept DEF DownloadFails, ctrlVars
<1>9. CASE LBUpdateStep
  BY <1>9, BlackoutInvKept
     DEF LBUpdateStep, StoreCandidate, ReceiveUpdate, ctrlVars, envVars, loopVars,
         BlackoutInv
<1>10. ASSUME NEW l \in Feed, SendUpdate(l) PROVE BlackoutInv'
  <2>1. budget'["edit"] = 0
    BY <1>10 DEF SendUpdate, Spend, BlackoutInv, TypeOK
  <2> QED
    BY <1>10, <2>1, BlackoutInvKept DEF SendUpdate, ctrlVars, loopVars
<1>11. CASE ZoneSyncDue
  BY <1>11, BlackoutInvKept DEF ZoneSyncDue, envVars, loopVars, BlackoutInv
<1>12. ASSUME NEW z \in Zone, NEW f \in Foreign, CreateZone(z, f)
       PROVE  BlackoutInv'
  <2>1. budget'["edit"] = 0
    BY <1>12 DEF CreateZone, Spend, BlackoutInv, TypeOK
  <2> QED
    BY <1>12, <2>1, BlackoutInvKept DEF CreateZone, AddZone, ctrlVars, loopVars
<1>13. ASSUME NEW z \in Zone, DeleteZone(z) PROVE BlackoutInv'
  <2>1. budget'["edit"] = 0
    BY <1>13 DEF DeleteZone, Spend, BlackoutInv, TypeOK
  <2> QED
    BY <1>13, <2>1, BlackoutInvKept DEF DeleteZone, ctrlVars, loopVars
<1>14. CASE Edit
  <2>1. ASSUME NEW z \in Zone, NEW lb \in LB, NEW eps,
               EditRecords(z, lb, eps)
        PROVE  FALSE
    BY <2>1 DEF EditRecords, Spend, BlackoutInv
  <2>2. ASSUME NEW z \in Zone, NEW f, EditForeign(z, f)
        PROVE  FALSE
    BY <2>2 DEF EditForeign, Spend, BlackoutInv
  <2> QED
    BY <1>12, <1>13, <1>14, <2>1, <2>2 DEF Edit
<1>15. CASE UNCHANGED vars
  BY <1>15, BlackoutInvKept
     DEF vars, ctrlVars, envVars, loopVars, BlackoutInv
<1> QED
  BY <1>1, <1>2, <1>3, <1>4, <1>5, <1>6, <1>7, <1>8, <1>9, <1>10, <1>11, <1>14,
     <1>15 DEF Next, SyncStep, UpdateZoneTimesOut

(* As long as an error of UpdateZone means that the zone was not written   *)
(* and nobody else writes LB records, no upload deletes the last record of *)
(* an LB: however lists, downloads, failures and zones coming and going    *)
(* interleave, what is uploaded never is behind the provider.              *)
THEOREM NoBlackoutHolds ==
    ASSUME ~AmbiguousUpdates, MaxEdits = 0
    PROVE  Spec => NoBlackout
<1> DEFINE Inv == TypeOK /\ BlackoutInv
<1>1. Init => Inv
  BY InitTypeOK, NoZonesType DEF Init, BlackoutInv, Keeps
<1>2. Inv /\ [Next]_vars => Inv'
  BY NextTypeOK, NextBlackoutInv
<1>3. Inv => [\A z \in Zone : Uploads(z) =>
        \A lb \in LB : upstream[z].rr[lb] # {} => upstream'[z].rr[lb] # {}]_vars
  BY DEF TypeOK, BlackoutInv, Keeps, Uploads, UpdateZone, UpdateZoneTimesOut,
         PushNext
<1> QED
  BY <1>1, <1>2, <1>3, PTL DEF Spec, NoBlackout

-----------------------------------------------------------------------------
(* Whoever edits what                                                      *)

(* The zones a forced cycle uploads are built from its own download.       *)
ForcedInv ==
    force /\ pc = "push" =>
        /\ DOMAIN wantedZones \subseteq DOMAIN currentZones
        /\ \A z \in DOMAIN wantedZones :
                wantedZones[z].other = currentZones[z].other

LEMMA NextForcedInv == TypeOK /\ ForcedInv /\ [Next]_vars => ForcedInv'
<1> SUFFICES ASSUME TypeOK, ForcedInv, [Next]_vars PROVE ForcedInv'
  OBVIOUS
<1> USE DEF ForcedInv
<1>1. CASE Tick \/ ListZones \/ UpdateCurrentZones \/ DownloadFails
  <2>1. pc' # "push"
    BY <1>1 DEF Tick, ListZones, UpdateCurrentZones, DownloadFails
  <2> QED
    BY <2>1
<1>2. CASE CompareZones
  <2>1. /\ DOMAIN UpdateWantedZones = DOMAIN currentZones
        /\ \A z \in DOMAIN currentZones :
              UpdateWantedZones[z].other = currentZones[z].other
    BY DEF UpdateWantedZones, ReplaceRecords
  <2>2. force' = force /\ currentZones' = currentZones
    BY <1>2, Zenon DEF CompareZones
  <2>3. force => wantedZones' = UpdateWantedZones
    BY <1>2, Zenon DEF CompareZones, Outdated
  <2> QED
    BY <2>1, <2>2, <2>3
<1>3. ASSUME NEW z \in Zone, GetZone(z) PROVE ForcedInv'
  BY <1>3 DEF GetZone
<1>4. ASSUME NEW z \in Zone,
             UpdateZone(z) \/ UpdateZoneTimesOut(z) \/ UpdateZoneFails(z)
      PROVE  ForcedInv'
  <2>1. pc = "push" /\ UNCHANGED <<force, currentZones, wantedZones>>
    BY <1>4 DEF UpdateZone, UpdateZoneTimesOut, UpdateZoneFails, PushNext
  <2> QED
    BY <2>1
<1>5. CASE LBUpdateStep \/ ZoneSyncDue \/ Edit \/ UNCHANGED vars
           \/ \E l \in Feed : SendUpdate(l)
  <2>1. UNCHANGED <<pc, force, currentZones, wantedZones>>
    BY <1>5 DEF LBUpdateStep, StoreCandidate, ReceiveUpdate, SendUpdate,
       ZoneSyncDue, Edit, EditRecords, EditForeign, CreateZone, DeleteZone,
       vars, ctrlVars, loopVars
  <2> QED
    BY <2>1
<1> QED
  BY <1>1, <1>2, <1>3, <1>4, <1>5 DEF Next, SyncStep

(* Whoever creates, deletes or edits zones, and whatever fails: a cycle    *)
(* forced by a list keeps what it downloaded of a zone's other records,    *)
(* though the list may be one the wanted zones were built for before.      *)
THEOREM ForcedUploadsFreshHolds == Spec => ForcedUploadsFresh
<1> DEFINE Inv == TypeOK /\ ForcedInv
<1>1. Init => Inv
  BY InitTypeOK DEF Init, ForcedInv
<1>2. Inv /\ [Next]_vars => Inv'
  BY NextTypeOK, NextForcedInv
<1>3. Inv => [\A z \in Zone : force /\ Uploads(z) =>
                /\ z \in DOMAIN currentZones
                /\ upstream'[z].other = currentZones[z].other]_vars
  BY DEF TypeOK, ForcedInv, Uploads, UpdateZone, UpdateZoneTimesOut, PushNext
<1> QED
  BY <1>1, <1>2, <1>3, PTL DEF Spec, ForcedUploadsFresh

-----------------------------------------------------------------------------
(* Belief and truth *)

(* The zones in f are as the provider has them.                            *)
Fresh(f) == \A z \in DOMAIN f : z \in DOMAIN upstream /\ f[z] = upstream[z]

(* While nobody else edits, the copies the controller compares with are    *)
(* fresh or known not to be: an upload is a successful one.                *)
FreshInv ==
    /\ budget["edit"] = 0 /\ budget["zone"] = 0
    /\ ~currentZonesEnforceSync => Fresh(currentZones)
    /\ pc = "get" => Fresh(fetched)
    /\ pc = "wanted" => ~currentZonesEnforceSync

LEMMA NextFreshInv ==
    ASSUME AmbiguousUpdates = FALSE, TypeOK, FreshInv, [Next]_vars
    PROVE  FreshInv'
<1> USE DEF FreshInv, Fresh
<1>1. CASE Tick
  BY <1>1 DEF Tick, DownloadDue, TypeOK, ctrlVars, envVars
<1>2. CASE ListZones \/ UpdateCurrentZones
  BY <1>2, NoZonesType DEF ListZones, UpdateCurrentZones, ctrlVars, envVars
<1>3. CASE CompareZones
  BY <1>3 DEF CompareZones, envVars
<1>4. ASSUME NEW z \in Zone, GetZone(z) PROVE FreshInv'
  <2>1. Fresh(fetched)'
    BY <1>4 DEF GetZone, AddZone, envVars
  <2> QED
    BY <1>4, <2>1 DEF GetZone, ctrlVars, envVars
<1>5. ASSUME NEW z \in Zone, UpdateZone(z) PROVE FreshInv'
  BY <1>5 DEF UpdateZone, EnforceAfterUpdate, PushNext
<1>6. ASSUME NEW z \in Zone, UpdateZoneFails(z) PROVE FreshInv'
  BY <1>6 DEF UpdateZoneFails, PushNext, Spend, TypeOK
<1>7. ASSUME NEW z \in Zone, UpdateZoneTimesOut(z) PROVE FreshInv'
  BY <1>7 DEF UpdateZoneTimesOut
<1>8. CASE DownloadFails
  BY <1>8 DEF DownloadFails, Spend, TypeOK, ctrlVars
<1>9. CASE LBUpdateStep
  BY <1>9 DEF LBUpdateStep, StoreCandidate, ReceiveUpdate, ctrlVars, envVars,
              loopVars
<1>10. ASSUME NEW l \in Feed, SendUpdate(l) PROVE FreshInv'
  BY <1>10 DEF SendUpdate, Spend, TypeOK, ctrlVars, loopVars
<1>11. CASE ZoneSyncDue
  BY <1>11 DEF ZoneSyncDue, envVars, loopVars
<1>12. CASE Edit
  BY <1>12 DEF Edit, EditRecords, EditForeign, CreateZone, DeleteZone, Spend
<1>13. CASE UNCHANGED vars
  BY <1>13 DEF vars, ctrlVars, envVars, loopVars
<1> QED
  BY <1>1, <1>2, <1>3, <1>4, <1>5, <1>6, <1>7, <1>8, <1>9, <1>10, <1>11,
     <1>12, <1>13 DEF Next, SyncStep

(* What a cycle files under the adopted list and finds no difference to    *)
(* is what the provider holds.                                             *)
LEMMA IdleCycle ==
    ASSUME FreshInv, WantedZonesCarryList', wantedLBs # NULL,
           CompareZones, todo' = {},
           NEW lb \in DOMAIN wantedLBs, NEW z \in DOMAIN wantedZones',
           Home(lb, z)
    PROVE  upstream[z].rr[lb] = wantedLBs[lb]
<1>1. wantedZonesLBHash' = wantedLBs
  BY DEF CompareZones, Outdated
<1>2. wantedZones'[z].rr[lb] = wantedLBs[lb]
  BY <1>1 DEF WantedZonesCarryList, Home
<1>3. z \in DOMAIN currentZones /\ currentZones[z] = wantedZones'[z]
  BY DEF CompareZones, ChangedZones
<1>4. currentZones[z] = upstream[z]
  BY <1>3 DEF FreshInv, Fresh, CompareZones
<1> QED
  BY <1>2, <1>3, <1>4

(* As long as nobody else edits and failed updates have no effect, a cycle *)
(* that uploads nothing had nothing to upload, whatever failed before it:  *)
(* the provider has the adopted list in all zones the controller holds.    *)
THEOREM IdleIsPublishedHolds ==
    ASSUME MaxEdits = 0, MaxZoneChanges = 0, AmbiguousUpdates = FALSE
    PROVE  Spec => IdleIsPublished
<1> DEFINE Inv == CarryInv /\ FreshInv
<1>1. Init => Inv
  BY InitCarryInv, NoZonesType DEF Init, FreshInv, Fresh
<1>2. Inv /\ [Next]_vars => Inv'
  BY NextTypeOK, NextNamesCover, NextWantedZonesCarryList, NextFreshInv
     DEF CarryInv
<1>3. Inv /\ Inv' => [CompareZones /\ todo' = {} =>
            \A lb \in DOMAIN wantedLBs : \A z \in DOMAIN wantedZones' :
                Home(lb, z) => upstream[z].rr[lb] = wantedLBs[lb]]_vars
  <2>1. CarryInv /\ CompareZones => wantedLBs # NULL
    BY DEF CarryInv, TypeOK, CompareZones
  <2> QED
    BY <2>1, IdleCycle DEF CarryInv
<1> QED
  BY <1>1, <1>2, <1>3, PTL DEF Spec, IdleIsPublished

=============================================================================
