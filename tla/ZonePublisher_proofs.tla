------------------------ MODULE ZonePublisher_proofs ------------------------
(***************************************************************************)
(* The DNS controller implements ZonePublisher, for every set of load      *)
(* balancers, zones and lists and any number of failures, as long as       *)
(* nobody else edits zones and a failed upload has no effect.              *)
(***************************************************************************)
EXTENDS DNSController_proofs

(* Nobody creates, deletes or edits a zone; Zone is what the provider has. *)
Undisturbed ==
    /\ DOMAIN upstream = Zone
    /\ budget["edit"] = 0
    /\ budget["zone"] = 0

(* The provider's zones, and all of them, are in sight of every rebuild.   *)
NamesInSight ==
    /\ pc = "get" => allZoneNames = Zone
    /\ currentZoneNames \in {{}, Zone}
    /\ DOMAIN currentZones # {} => currentZoneNames = Zone

AllNamesKnown == Undisturbed /\ NamesInSight

LEMMA NextUndisturbed ==
    TypeOK /\ Undisturbed /\ [Next]_vars => Undisturbed'
<1> SUFFICES ASSUME TypeOK, Undisturbed, [Next]_vars PROVE Undisturbed'
  OBVIOUS
<1> USE DEF Undisturbed
<1>1. CASE Tick \/ ListZones \/ UpdateCurrentZones \/ CompareZones
  BY <1>1 DEF Tick, ListZones, UpdateCurrentZones, CompareZones, envVars
<1>2. ASSUME NEW z \in Zone, GetZone(z) PROVE Undisturbed'
  BY <1>2 DEF GetZone, envVars
<1>3. ASSUME NEW z \in Zone, UpdateZone(z) \/ UpdateZoneTimesOut(z)
      PROVE  Undisturbed'
  BY <1>3 DEF UpdateZone, UpdateZoneTimesOut, Spend, TypeOK
<1>4. ASSUME NEW z \in Zone, UpdateZoneFails(z) PROVE Undisturbed'
  BY <1>4 DEF UpdateZoneFails, Spend, TypeOK
<1>5. CASE DownloadFails
  BY <1>5 DEF DownloadFails, Spend, TypeOK
<1>6. CASE LBUpdateStep
  BY <1>6 DEF LBUpdateStep, StoreCandidate, ReceiveUpdate, envVars
<1>7. ASSUME NEW l \in Feed, SendUpdate(l) PROVE Undisturbed'
  BY <1>7 DEF SendUpdate, Spend, TypeOK
<1>8. CASE ZoneSyncDue
  BY <1>8 DEF ZoneSyncDue, envVars
<1>9. CASE Edit
  BY <1>9 DEF Edit, EditRecords, EditForeign, CreateZone, DeleteZone, Spend
<1>10. CASE UNCHANGED vars
  BY <1>10 DEF vars, envVars
<1> QED
  BY <1>1, <1>2, <1>3, <1>4, <1>5, <1>6, <1>7, <1>8, <1>9, <1>10
     DEF Next, SyncStep

LEMMA NextAllNamesKnown ==
    TypeOK /\ AllNamesKnown /\ [Next]_vars => AllNamesKnown'
<1> SUFFICES ASSUME TypeOK, AllNamesKnown, [Next]_vars PROVE NamesInSight'
  BY NextUndisturbed DEF AllNamesKnown
<1> USE DEF AllNamesKnown, NamesInSight
<1>1. CASE ListZones
  BY <1>1 DEF ListZones, ctrlVars, Undisturbed
<1>2. CASE UpdateCurrentZones
  BY <1>2 DEF UpdateCurrentZones
<1>3. CASE Tick \/ CompareZones \/ DownloadFails
  BY <1>3 DEF Tick, CompareZones, DownloadFails, ctrlVars
<1>4. ASSUME NEW z \in Zone, GetZone(z) \/ PushNext(z) PROVE NamesInSight'
  BY <1>4 DEF GetZone, PushNext, ctrlVars
<1>5. CASE LBUpdateStep
  BY <1>5 DEF LBUpdateStep, StoreCandidate, ReceiveUpdate, ctrlVars, loopVars
<1>6. ASSUME NEW l \in Feed, SendUpdate(l) PROVE NamesInSight'
  BY <1>6 DEF SendUpdate, ctrlVars, loopVars
<1>7. CASE ZoneSyncDue
  BY <1>7 DEF ZoneSyncDue, loopVars
<1>8. CASE Edit
  BY <1>8 DEF Edit, EditRecords, EditForeign, CreateZone, DeleteZone,
              ctrlVars, loopVars
<1>9. CASE UNCHANGED vars
  BY <1>9 DEF vars, ctrlVars, loopVars
<1> QED
  BY <1>1, <1>2, <1>3, <1>4, <1>5, <1>6, <1>7, <1>8, <1>9
     DEF Next, SyncStep, UpdateZone, UpdateZoneFails, UpdateZoneTimesOut

(* Among all names, an LB is matched to its own zone only.                 *)
LEMMA MatchesHome ==
    ASSUME NEW lb \in LB, NEW z \in Zone, Matches(lb, Zone, z)
    PROVE  Home(lb, z)
BY DEF Matches, Home

-----------------------------------------------------------------------------
(* Records of LBs that belong elsewhere *)

(* f and the provider agree on the records of LBs that belong elsewhere.   *)
SameStrangers(f) ==
    \A z \in DOMAIN f \cap DOMAIN upstream : \A lb \in LB :
        ~Home(lb, z) => f[z].rr[lb] = upstream[z].rr[lb]

StrangersInv ==
    /\ SameStrangers(currentZones)
    /\ SameStrangers(wantedZones)
    /\ SameStrangers(fetched)

LEMMA UpdateWantedZonesStrangers ==
    ASSUME TypeOK, AllNamesKnown, wantedLBs # NULL,
           NEW z \in DOMAIN currentZones, NEW lb \in LB, ~Home(lb, z)
    PROVE  UpdateWantedZones[z].rr[lb] = currentZones[z].rr[lb]
<1> DEFINE m == MapLBsToZones(wantedLBs, currentZoneNames, z)
<1>1. wantedLBs \in Feed /\ m \in SUBSET DOMAIN wantedLBs
  BY DEF TypeOK, MapLBsToZones
<1>2. currentZones[z] \in ZoneContent /\ z \in Zone
  BY ZonesElim DEF TypeOK
<1>3. currentZoneNames = Zone
  BY DEF AllNamesKnown, NamesInSight
<1>4. lb \notin m
  BY <1>2, <1>3, MatchesHome DEF MapLBsToZones
<1>5. UpdateWantedZones[z] = ReplaceRecords(currentZones[z], m, wantedLBs)
  BY DEF UpdateWantedZones
<1> QED
  BY <1>1, <1>2, <1>4, <1>5, ReplaceRecordsType

LEMMA NextStrangersInv ==
    TypeOK /\ AllNamesKnown /\ StrangersInv /\ [Next]_vars => StrangersInv'
<1> SUFFICES ASSUME TypeOK, AllNamesKnown, StrangersInv, [Next]_vars
             PROVE  StrangersInv'
  OBVIOUS
<1> USE DEF StrangersInv, SameStrangers
<1>1. CASE Tick \/ ListZones \/ UpdateCurrentZones
  BY <1>1, NoZonesType
     DEF Tick, ListZones, UpdateCurrentZones, ctrlVars, envVars
<1>2. CASE CompareZones
  <2>1. wantedLBs # NULL
    BY <1>2 DEF CompareZones, TypeOK
  <2>2. DOMAIN UpdateWantedZones = DOMAIN currentZones
    BY DEF UpdateWantedZones
  <2> QED
    BY <1>2, <2>1, <2>2, UpdateWantedZonesStrangers DEF CompareZones, envVars
<1>3. ASSUME NEW z \in Zone, GetZone(z) PROVE StrangersInv'
  BY <1>3 DEF GetZone, AddZone, ctrlVars, envVars
<1>4. ASSUME NEW z \in Zone, UpdateZone(z) \/ UpdateZoneTimesOut(z)
      PROVE  StrangersInv'
  <2>1. /\ upstream' = [upstream EXCEPT ![z] = wantedZones[z]]
        /\ z \in DOMAIN upstream
        /\ z \in DOMAIN wantedZones
    BY <1>4 DEF UpdateZone, UpdateZoneTimesOut, PushNext, TypeOK
  <2>2. \A y \in DOMAIN upstream, lb \in LB :
            ~Home(lb, y) => upstream'[y].rr[lb] = upstream[y].rr[lb]
    BY <2>1
  <2> QED
    BY <1>4, <2>1, <2>2 DEF UpdateZone, UpdateZoneTimesOut, PushNext
<1>5. ASSUME NEW z \in Zone, UpdateZoneFails(z) PROVE StrangersInv'
  BY <1>5 DEF UpdateZoneFails, PushNext
<1>6. CASE DownloadFails
  BY <1>6, NoZonesType DEF DownloadFails, ctrlVars
<1>7. CASE LBUpdateStep
  BY <1>7 DEF LBUpdateStep, StoreCandidate, ReceiveUpdate, ctrlVars, envVars,
              loopVars
<1>8. ASSUME NEW l \in Feed, SendUpdate(l) PROVE StrangersInv'
  BY <1>8 DEF SendUpdate, ctrlVars, loopVars
<1>9. CASE ZoneSyncDue
  BY <1>9 DEF ZoneSyncDue, envVars, loopVars
<1>10. CASE Edit
  BY <1>10 DEF Edit, EditRecords, EditForeign, CreateZone, DeleteZone, Spend,
               AllNamesKnown, Undisturbed
<1>11. CASE UNCHANGED vars
  BY <1>11 DEF vars, ctrlVars, envVars, loopVars
<1> QED
  BY <1>1, <1>2, <1>3, <1>4, <1>5, <1>6, <1>7, <1>8, <1>9, <1>10, <1>11
     DEF Next, SyncStep

(* Records of an LB are only ever added to the longest zone its name       *)
(* contains: the copies of zones agree with the provider on the records of *)
(* LBs that belong elsewhere, failed and ambiguous uploads included.       *)
THEOREM MostSpecificZoneHolds ==
    ASSUME InitZones = Zone, MaxEdits = 0, MaxZoneChanges = 0
    PROVE  Spec => MostSpecificZone
<1> DEFINE Inv == TypeOK /\ AllNamesKnown /\ StrangersInv
<1>1. Init => Inv
  BY InitTypeOK, NoZonesType
     DEF Init, AllNamesKnown, NamesInSight, Undisturbed, StrangersInv,
         SameStrangers
<1>2. Inv /\ [Next]_vars => Inv'
  BY NextTypeOK, NextAllNamesKnown, NextStrangersInv
<1>3. Inv => [\A z \in Zone : Uploads(z) => \A lb \in LB :
                ~Home(lb, z) => upstream'[z].rr[lb] \subseteq upstream[z].rr[lb]]_vars
  BY DEF TypeOK, StrangersInv, SameStrangers, Uploads, UpdateZone,
         UpdateZoneTimesOut, PushNext
<1> QED
  BY <1>1, <1>2, <1>3, PTL DEF Spec, MostSpecificZone

-----------------------------------------------------------------------------
(* The refinement *)

(* f and the provider agree on everything but the LBs' records.            *)
SameOthers(f) ==
    \A z \in DOMAIN f \cap DOMAIN upstream : f[z].other = upstream[z].other

(* No copy is behind the provider in anything but the LBs' records.        *)
OthersInv ==
    /\ budget["edit"] = 0 /\ budget["zone"] = 0
    /\ SameOthers(currentZones)
    /\ SameOthers(wantedZones)
    /\ SameOthers(fetched)

LEMMA NextOthersInv == TypeOK /\ OthersInv /\ [Next]_vars => OthersInv'
<1> SUFFICES ASSUME TypeOK, OthersInv, [Next]_vars PROVE OthersInv'
  OBVIOUS
<1> USE DEF OthersInv, SameOthers
<1>1. CASE Tick \/ ListZones \/ UpdateCurrentZones
  BY <1>1, NoZonesType
     DEF Tick, ListZones, UpdateCurrentZones, ctrlVars, envVars
<1>2. CASE CompareZones
  <2>1. \A z \in DOMAIN currentZones :
          UpdateWantedZones[z].other = currentZones[z].other
    BY DEF UpdateWantedZones, ReplaceRecords
  <2>2. DOMAIN UpdateWantedZones = DOMAIN currentZones
    BY DEF UpdateWantedZones
  <2> QED
    BY <1>2, <2>1, <2>2 DEF CompareZones, envVars
<1>3. ASSUME NEW z \in Zone, GetZone(z) PROVE OthersInv'
  BY <1>3 DEF GetZone, AddZone, ctrlVars, envVars
<1>4. ASSUME NEW z \in Zone, UpdateZone(z) \/ UpdateZoneTimesOut(z)
      PROVE  OthersInv'
  <2>1. /\ upstream' = [upstream EXCEPT ![z] = wantedZones[z]]
        /\ z \in DOMAIN upstream
        /\ z \in DOMAIN wantedZones
    BY <1>4 DEF UpdateZone, UpdateZoneTimesOut, PushNext, TypeOK
  <2>2. \A y \in DOMAIN upstream : upstream'[y].other = upstream[y].other
    BY <2>1
  <2>3. budget'["edit"] = 0 /\ budget'["zone"] = 0
    BY <1>4 DEF UpdateZone, UpdateZoneTimesOut, Spend, TypeOK
  <2> QED
    BY <1>4, <2>1, <2>2, <2>3 DEF UpdateZone, UpdateZoneTimesOut, PushNext
<1>5. ASSUME NEW z \in Zone, UpdateZoneFails(z) PROVE OthersInv'
  BY <1>5 DEF UpdateZoneFails, PushNext, Spend, TypeOK
<1>6. CASE DownloadFails
  BY <1>6, NoZonesType DEF DownloadFails, Spend, TypeOK, ctrlVars
<1>7. CASE LBUpdateStep
  BY <1>7 DEF LBUpdateStep, StoreCandidate, ReceiveUpdate, ctrlVars, envVars,
              loopVars
<1>8. ASSUME NEW l \in Feed, SendUpdate(l) PROVE OthersInv'
  BY <1>8 DEF SendUpdate, Spend, TypeOK, ctrlVars, loopVars
<1>9. CASE ZoneSyncDue
  BY <1>9 DEF ZoneSyncDue, envVars, loopVars
<1>10. CASE Edit
  BY <1>10 DEF Edit, EditRecords, EditForeign, CreateZone, DeleteZone, Spend
<1>11. CASE UNCHANGED vars
  BY <1>11 DEF vars, ctrlVars, envVars, loopVars
<1> QED
  BY <1>1, <1>2, <1>3, <1>4, <1>5, <1>6, <1>7, <1>8, <1>9, <1>10, <1>11
     DEF Next, SyncStep

(* What is pushed is filed under the adopted list.                         *)
PushesAdopted == pc = "push" => wantedZonesLBHash = wantedLBs

LEMMA NextPushesAdopted ==
    TypeOK /\ PushesAdopted /\ [Next]_vars => PushesAdopted'
<1> SUFFICES ASSUME TypeOK, PushesAdopted, [Next]_vars PROVE PushesAdopted'
  OBVIOUS
<1> USE DEF PushesAdopted
<1>1. CASE Tick \/ ListZones \/ UpdateCurrentZones \/ DownloadFails
  BY <1>1 DEF Tick, ListZones, UpdateCurrentZones, DownloadFails
<1>2. CASE CompareZones
  BY <1>2 DEF CompareZones, Outdated, lbVars
<1>3. ASSUME NEW z \in Zone, GetZone(z) \/ PushNext(z) PROVE PushesAdopted'
  BY <1>3 DEF GetZone, PushNext, lbVars
<1>4. CASE LBUpdateStep
  BY <1>4 DEF LBUpdateStep, StoreCandidate, ReceiveUpdate, ctrlVars, loopVars
<1>5. ASSUME NEW l \in Feed, SendUpdate(l) PROVE PushesAdopted'
  BY <1>5 DEF SendUpdate, ctrlVars, loopVars, lbVars
<1>6. CASE ZoneSyncDue
  BY <1>6 DEF ZoneSyncDue, loopVars, lbVars
<1>7. CASE Edit
  BY <1>7 DEF Edit, EditRecords, EditForeign, CreateZone, DeleteZone,
              ctrlVars, loopVars, lbVars
<1>8. CASE UNCHANGED vars
  BY <1>8 DEF vars, ctrlVars, loopVars, lbVars
<1> QED
  BY <1>1, <1>2, <1>3, <1>4, <1>5, <1>6, <1>7, <1>8
     DEF Next, SyncStep, UpdateZone, UpdateZoneFails, UpdateZoneTimesOut

(* All that is known of the zone about to be uploaded.                     *)
PublishInv ==
    /\ CarryInv
    /\ BlackoutInv
    /\ OthersInv
    /\ AllNamesKnown
    /\ StrangersInv
    /\ PushesAdopted

absVars == <<health, InFlight, wantedLBs, upstream>>

(* An upload publishes.                                                    *)
LEMMA UploadPublishes ==
    ASSUME PublishInv, NEW z \in Zone, UpdateZone(z)
    PROVE  Publisher!Publish(z)
<1> DEFINE d == wantedZones[z]
<1>1. TypeOK
  BY DEF PublishInv, CarryInv
<1>2. /\ pc = "push"
      /\ z \in DOMAIN wantedZones
      /\ z \in DOMAIN upstream
      /\ upstream' = [upstream EXCEPT ![z] = d]
      /\ UNCHANGED <<health, updates, wantedLBs, wantedLBsCandidate, newLBs>>
  BY <1>1 DEF UpdateZone, PushNext, TypeOK, lbVars
<1>3. d \in ZoneContent
  BY <1>1, <1>2, ZonesElim DEF TypeOK
<1>4. wantedLBs # NULL /\ wantedZonesLBHash = wantedLBs
  BY <1>1, <1>2 DEF PublishInv, PushesAdopted, TypeOK
<1>5. \A lb \in DOMAIN wantedLBs : Home(lb, z) => d.rr[lb] = wantedLBs[lb]
  BY <1>2, <1>4 DEF PublishInv, CarryInv, WantedZonesCarryList
<1>6. \A lb \in LB : ~Home(lb, z) => d.rr[lb] = upstream[z].rr[lb]
  BY <1>2 DEF PublishInv, StrangersInv, SameStrangers
<1>7. \A lb \in LB : upstream[z].rr[lb] # {} => d.rr[lb] # {}
  BY <1>2 DEF PublishInv, BlackoutInv, Keeps
<1>8. d.other = upstream[z].other
  BY <1>2 DEF PublishInv, OthersInv, SameOthers
<1>9. DOMAIN wantedLBs \subseteq LB
  BY <1>1, <1>4, ListElim DEF TypeOK
<1>10. Publisher!Successor(z, upstream[z], d)
  BY <1>5, <1>6, <1>7, <1>8, <1>9 DEF Publisher!Successor
<1>11. d \in Publisher!ZoneContent
  BY <1>3 DEF ZoneContent, Publisher!ZoneContent
<1> QED
  BY <1>2, <1>4, <1>10, <1>11 DEF Publisher!Publish, InFlight

(* Every step of the controller is one of the publisher's, or none.        *)
LEMMA NextPublisher ==
    ASSUME ~AmbiguousUpdates, PublishInv, [Next]_vars
    PROVE  [Publisher!Next]_absVars
<1> USE DEF absVars
<1>1. TypeOK
  BY DEF PublishInv, CarryInv
<1>2. CASE Tick
  <2>1. CASE wantedLBsCandidate # NULL
    <3>1. /\ wantedLBsCandidate \in Feed
          /\ wantedLBsCandidate \in InFlight
      BY <1>1, <2>1 DEF TypeOK, InFlight
    <3>2. /\ wantedLBs' = wantedLBsCandidate
          /\ wantedLBsCandidate' = NULL
          /\ UNCHANGED <<health, upstream, updates, newLBs>>
      BY <1>2, <2>1 DEF Tick, envVars
    <3>3. InFlight' \in {InFlight, InFlight \ {wantedLBsCandidate}}
      BY <3>2 DEF InFlight
    <3> QED
      BY <3>1, <3>2, <3>3 DEF Publisher!Next, Publisher!Adopt
  <2>2. CASE wantedLBsCandidate = NULL
    BY <1>2, <2>2 DEF Tick, envVars, InFlight
  <2> QED
    BY <2>1, <2>2
<1>3. CASE LBUpdateStep
  <2>1. ASSUME NEW l \in Feed, ReceiveUpdate(l)
        PROVE  InFlight' \subseteq InFlight
    BY <1>1, <2>1 DEF ReceiveUpdate, TypeOK, InFlight
  <2>2. ASSUME StoreCandidate PROVE InFlight' \subseteq InFlight
    BY <2>2 DEF StoreCandidate, envVars, InFlight
  <2>3. UNCHANGED <<health, wantedLBs, upstream>>
    BY <1>3 DEF LBUpdateStep, StoreCandidate, ReceiveUpdate, envVars
  <2> QED
    BY <1>3, <2>1, <2>2, <2>3 DEF LBUpdateStep, Publisher!Next, Publisher!Drop
<1>4. ASSUME NEW l \in Feed, SendUpdate(l) PROVE Publisher!Next
  <2> DEFINE sent == IF updates[l] < MaxCopies THEN updates[l] + 1
                                               ELSE updates[l]
  <2>1. /\ health' = l
        /\ updates' = [updates EXCEPT ![l] = sent]
        /\ UNCHANGED <<upstream, wantedLBs, wantedLBsCandidate, newLBs>>
    BY <1>4 DEF SendUpdate, lbVars
  <2>2. updates \in [Feed -> Nat]
    BY <1>1 DEF TypeOK
  <2>3. sent > 0
    BY <2>2, ConstantsAssumption
  <2>4. InFlight' = InFlight \cup {l}
    BY <2>1, <2>2, <2>3 DEF InFlight
  <2> QED
    BY <2>1, <2>4 DEF Publisher!Next, Publisher!Compute
<1>5. ASSUME NEW z \in Zone, UpdateZone(z) PROVE Publisher!Next
  BY <1>5, UploadPublishes DEF Publisher!Next
<1>6. ASSUME NEW z \in Zone, UpdateZoneFails(z) \/ GetZone(z)
      PROVE  UNCHANGED absVars
  BY <1>6 DEF UpdateZoneFails, PushNext, GetZone, lbVars, envVars, InFlight
<1>7. CASE \/ ListZones \/ UpdateCurrentZones \/ CompareZones \/ DownloadFails
           \/ ZoneSyncDue \/ UNCHANGED vars
  BY <1>7 DEF ListZones, UpdateCurrentZones, CompareZones, DownloadFails,
              ZoneSyncDue, vars, lbVars, envVars, InFlight
<1>8. ~Edit
  BY DEF Edit, EditRecords, EditForeign, CreateZone, DeleteZone, Spend,
         PublishInv, AllNamesKnown, Undisturbed
<1> QED
  BY <1>2, <1>3, <1>4, <1>5, <1>6, <1>7, <1>8
     DEF Next, SyncStep, UpdateZoneTimesOut

LEMMA InitPublisher == Init => Publisher!Init
<1> SUFFICES ASSUME Init PROVE Publisher!Init
  OBVIOUS
<1>1. InFlight = {}
  BY DEF Init, InFlight
<1>2. upstream \in UNION {[S -> Publisher!ZoneContent] : S \in SUBSET Zone}
  BY InitTypeOK DEF TypeOK, Zones, ZoneContent, Publisher!ZoneContent
<1> QED
  BY <1>1, <1>2 DEF Init, Publisher!Init

(* Caches, hashes, skipped rebuilds, failed downloads and failed uploads   *)
(* are invisible at the provider: it only sees zones change into what the  *)
(* list adopted last makes of them.                                        *)
THEOREM ImplementsPublisherHolds ==
    ASSUME ~AmbiguousUpdates, InitZones = Zone, MaxEdits = 0,
           MaxZoneChanges = 0
    PROVE  Spec => ImplementsPublisher
<1>1. Init => PublishInv
  BY InitCarryInv, NoZonesType
     DEF Init, PublishInv, BlackoutInv, Keeps, OthersInv, SameOthers,
         AllNamesKnown, NamesInSight, Undisturbed, StrangersInv, SameStrangers,
         PushesAdopted
<1>2. PublishInv /\ [Next]_vars => PublishInv'
  BY NextTypeOK, NextNamesCover, NextWantedZonesCarryList, NextBlackoutInv,
     NextOthersInv, NextAllNamesKnown, NextStrangersInv, NextPushesAdopted
     DEF PublishInv, CarryInv
<1>3. PublishInv /\ [Next]_vars => [Publisher!Next]_absVars
  BY NextPublisher
<1> QED
  BY <1>1, <1>2, <1>3, InitPublisher, PTL
     DEF Spec, ImplementsPublisher, Publisher!Spec, absVars

=============================================================================
