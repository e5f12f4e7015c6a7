--------------------------- MODULE DNSController ---------------------------
(***************************************************************************)
(* The DNS controller of dnslb (src/dnsController.go).  Two goroutines     *)
(* share the controller's fields:                                          *)
(*                                                                         *)
(*  - lbUpdateLoop receives load balancer lists from the unbuffered        *)
(*    channel "updates" and leaves the newest one as wantedLBsCandidate;   *)
(*  - the sync loop of Run wakes up every syncInterval, adopts the         *)
(*    candidate, downloads the provider's zones when it has to, builds the *)
(*    wanted zones and uploads those that differ.                          *)
(*                                                                         *)
(* Every call to the DNS provider is a step of its own, so that lists      *)
(* arrive and other people edit zones between two calls of one cycle.      *)
(* A hash is modelled by the value it is computed from (xxhash is taken to *)
(* be injective); 0, the hash nobody has computed yet, is NULL.            *)
(* currentZonesHash and currentZonesHashMap are always the hashes of       *)
(* currentZones, so they are no variables of the model.                    *)
(***************************************************************************)
EXTENDS Naturals, FiniteSets

CONSTANTS
    LB,                 \* names of the configured load balancers
    Endpoint,           \* their endpoints, each one A record
    Zone,               \* names of the zones the provider may hold
    Contains,           \* the <<lb, zone>> with strings.Contains(lb, zone)
    NameLen,            \* length of each zone's name
    Foreign,            \* contents of a zone apart from the LBs' A records
    Feed,               \* the lists the etcd controller may send
    InitZones,          \* zones the provider holds at the start
    SeedRecords,        \* A records an LB's name may have at the start
    NULL,               \* the nil list, the zero hash
    AmbiguousUpdates,   \* may UpdateZone fail after the provider applied it?
    MaxCopies,          \* bound on counted goroutines with equal lists
    MaxFeeds,           \* bound on changes of the health of endpoints
    MaxEdits,           \* bound on edits of records by other people
    MaxZoneChanges,     \* bound on zones created or deleted by other people
    MaxDownloadErrors,  \* bound on failed ListZones and GetZone calls
    MaxUpdateErrors     \* bound on failed UpdateZone calls

(* A LoadbalancerList: the names in the list with their healthy endpoints. *)
LoadbalancerList == UNION {[S -> SUBSET Endpoint] : S \in SUBSET LB}

(* A dns.Zone.  rr[lb] holds the A records under lb's name in this zone,   *)
(* one per endpoint: endpoints that share an IP are two members, as they   *)
(* append two equal records, and the provider is taken to keep both.       *)
(* other stands for the SOA and every record that is no LB's.              *)
ZoneContent == [rr : [LB -> SUBSET Endpoint], other : Foreign]

(* A dns.Zones: the zones in the list with their contents.                 *)
Zones == UNION {[S -> ZoneContent] : S \in SUBSET Zone}

ASSUME ConstantsAssumption ==
    /\ Contains \subseteq LB \X Zone
    /\ NameLen \in [Zone -> Nat]
    /\ Feed \subseteq LoadbalancerList
    /\ InitZones \subseteq Zone
    /\ SeedRecords \subseteq SUBSET Endpoint
    /\ NULL \notin LoadbalancerList
    /\ AmbiguousUpdates \in BOOLEAN
    /\ {MaxCopies, MaxFeeds, MaxEdits, MaxZoneChanges, MaxDownloadErrors,
        MaxUpdateErrors} \subseteq Nat
    /\ MaxCopies # 0

(* syncStatus leaves out an LB without a healthy endpoint                  *)
(* (etcdController.go:201; Loadbalancers in ETCDController).               *)
ASSUME FeedAssumption ==
    \A l \in Feed : \A lb \in DOMAIN l : l[lb] # {}

(* Two zones contained in one name have different lengths, as the suffixes *)
(* of a name do: which of them comes first does not depend on the order    *)
(* sort.Slice leaves equal lengths in.                                     *)
ASSUME NoTiesAssumption ==
    \A lb \in LB : \A y, z \in Zone :
        /\ <<lb, y>> \in Contains
        /\ <<lb, z>> \in Contains
        /\ NameLen[y] = NameLen[z]
        => y = z

VARIABLES
    (* fields of DNSController *)
    currentZonesEnforceSync,
    currentZones,
    currentZoneNames,
    wantedZones,
    wantedZonesLBHash,
    wantedLBs,
    wantedLBsCandidate,
    zoneSyncDue,        \* time.Since(lastCurrentZoneSync) > enforce interval
    (* goroutines *)
    newLBs,             \* lbUpdateLoop: a list past the hash check, or NULL
    pc,                 \* sync loop: where it is
    force,              \* sync loop: the argument of sync
    todo,               \* sync loop: zones still to GetZone or UpdateZone
    allZoneNames,       \* updateCurrentZones: the result of ListZones
    fetched,            \* updateCurrentZones: the zones got so far
    (* environment *)
    upstream,           \* zones at the DNS provider
    health,             \* the list syncStatus of the etcd controller computes
    updates,            \* goroutines blocked on the channel with each list
    budget              \* what is left of the bounds

ctrlVars == <<currentZonesEnforceSync, currentZones, currentZoneNames,
              wantedZones, wantedZonesLBHash, zoneSyncDue>>
lbVars   == <<wantedLBs, wantedLBsCandidate, newLBs>>
loopVars == <<pc, force, todo, allZoneNames, fetched>>
envVars  == <<upstream, health, updates, budget>>
vars     == <<ctrlVars, lbVars, loopVars, envVars>>

-----------------------------------------------------------------------------
(* Slip: sorted by ascending length, the shortest zone wins.               *)
Matches_Shortest(lb, names, z) ==
    /\ z \in names
    /\ <<lb, z>> \in Contains
    /\ \A y \in names : <<lb, y>> \in Contains => NameLen[y] >= NameLen[z]

(* Zone names are sorted by descending length and the first one contained  *)
(* in the LB's name is taken: the longest.  No zone, no match.             *)
Matches(lb, names, z) ==
    /\ z \in names
    /\ <<lb, z>> \in Contains
    /\ \A y \in names : <<lb, y>> \in Contains => NameLen[y] <= NameLen[z]

(* The entry of zone z in the map mapLBsToZones returns.                   *)
MapLBsToZones(lbs, names, z) == {lb \in DOMAIN lbs : Matches(lb, names, z)}

(* Slip: the old records are not removed before the new ones are added.    *)
ReplaceRecords_NoRemove(c, lbs, list) ==
    [rr    |-> [lb \in LB |-> IF lb \in lbs THEN c.rr[lb] \cup list[lb]
                                            ELSE c.rr[lb]],
     other |-> c.other]

(* Zone c with the records of every LB of lbs replaced by its endpoints.   *)
ReplaceRecords(c, lbs, list) ==
    [rr    |-> [lb \in LB |-> IF lb \in lbs THEN list[lb] ELSE c.rr[lb]],
     other |-> c.other]

UpdateWantedZones ==
    [z \in DOMAIN currentZones |->
        ReplaceRecords(currentZones[z],
                       MapLBsToZones(wantedLBs, currentZoneNames, z),
                       wantedLBs)]

(* Slip: the two maps are confused.                                        *)
ChangedZones_Current(wanted) ==
    {z \in DOMAIN currentZones :
        z \notin DOMAIN wanted \/ currentZones[z] # wanted[z]}

(* Zones of wanted whose hash differs from the one in currentZonesHashMap. *)
ChangedZones(wanted) ==
    {z \in DOMAIN wanted :
        z \notin DOMAIN currentZones \/ currentZones[z] # wanted[z]}

(* Slip: every zone of the account.                                        *)
ZonesToGet_All(names) == names

(* The zones that the wanted LBs match.                                    *)
ZonesToGet(names) ==
    {z \in names : MapLBsToZones(wantedLBs, names, z) # {}}

(* Slips: a new list alone does not make the zones be downloaded, or time. *)
DownloadDue_Unforced(forced) == currentZonesEnforceSync \/ zoneSyncDue
DownloadDue_Never(forced) == forced \/ currentZonesEnforceSync

(* sync downloads the zones first.                                         *)
DownloadDue(forced) == forced \/ currentZonesEnforceSync \/ zoneSyncDue

(* Slips: a new list alone does not make the wanted zones be rebuilt, or   *)
(* nothing else does.                                                      *)
Outdated_Forced == force \/ wantedZonesLBHash = NULL
Outdated_Changed == wantedZonesLBHash # wantedLBs

(* sync rebuilds the wanted zones.                                         *)
Outdated == force \/ wantedZonesLBHash # wantedLBs

(* Slip: only a failed update is followed by a download.                   *)
EnforceAfterUpdate_Not == currentZonesEnforceSync

(* currentZonesEnforceSync after a successful UpdateZone.                  *)
EnforceAfterUpdate == TRUE

NoZones == [z \in {} |-> NULL]

AddZone(f, z, c) ==
    [y \in DOMAIN f \cup {z} |-> IF y = z THEN c ELSE f[y]]

Spend(kind) ==
    /\ budget[kind] > 0
    /\ budget' = [budget EXCEPT ![kind] = @ - 1]

-----------------------------------------------------------------------------
Init ==
    /\ currentZonesEnforceSync = FALSE
    /\ currentZones = NoZones
    /\ currentZoneNames = {}
    /\ wantedZones = NoZones
    /\ wantedZonesLBHash = NULL
    /\ wantedLBs = NULL
    /\ wantedLBsCandidate = NULL
    /\ zoneSyncDue = TRUE               \* lastCurrentZoneSync is the zero time
    /\ newLBs = NULL
    /\ pc = "select"
    /\ force = FALSE
    /\ todo = {}
    /\ allZoneNames = {}
    /\ fetched = NoZones
    /\ upstream \in [InitZones -> [rr : [LB -> SeedRecords], other : Foreign]]
    /\ health \in Feed
    /\ updates = [l \in Feed |-> 0]
    /\ budget = [feed |-> MaxFeeds, edit |-> MaxEdits, zone |-> MaxZoneChanges,
                 download |-> MaxDownloadErrors, update |-> MaxUpdateErrors]

-----------------------------------------------------------------------------
(* lbUpdateLoop *)

(* A list comes out of the channel.  wantedLBs is read without the lock; a *)
(* list with its hash is dropped, whatever the candidate is.               *)
ReceiveUpdate(l) ==
    /\ newLBs = NULL
    /\ updates[l] > 0
    /\ updates' = [updates EXCEPT ![l] = @ - 1]
    /\ newLBs' = IF wantedLBs = l THEN NULL ELSE l
    /\ UNCHANGED <<ctrlVars, wantedLBs, wantedLBsCandidate, loopVars,
                   upstream, health, budget>>

(* Under the lock, later: the sync loop may have adopted a list meanwhile. *)
StoreCandidate ==
    /\ newLBs # NULL
    /\ wantedLBsCandidate' = newLBs
    /\ newLBs' = NULL
    /\ UNCHANGED <<ctrlVars, wantedLBs, loopVars, envVars>>

-----------------------------------------------------------------------------
(* The sync loop *)

(* The timer fires.  The candidate is adopted under the lock, and sync     *)
(* decides whether the zones have to be downloaded first.                  *)
Tick ==
    /\ pc = "select"
    /\ IF wantedLBsCandidate # NULL
       THEN /\ wantedLBs' = wantedLBsCandidate
            /\ wantedLBsCandidate' = NULL
            /\ force' = TRUE
       ELSE /\ force' = FALSE
            /\ UNCHANGED <<wantedLBs, wantedLBsCandidate>>
    /\ pc' = IF wantedLBs' = NULL
             THEN "select"
             ELSE IF DownloadDue(force') THEN "list" ELSE "wanted"
    /\ UNCHANGED <<ctrlVars, newLBs, todo, allZoneNames, fetched, envVars>>

(* ListZones succeeds; only the zones the wanted LBs match are fetched.    *)
ListZones ==
    /\ pc = "list"
    /\ allZoneNames' = DOMAIN upstream
    /\ todo' = ZonesToGet(DOMAIN upstream)
    /\ fetched' = NoZones
    /\ pc' = "get"
    /\ UNCHANGED <<ctrlVars, lbVars, force, envVars>>

GetZone(z) ==
    /\ pc = "get"
    /\ z \in todo
    /\ z \in DOMAIN upstream
    /\ fetched' = AddZone(fetched, z, upstream[z])
    /\ todo' = todo \ {z}
    /\ UNCHANGED <<ctrlVars, lbVars, pc, force, allZoneNames, envVars>>

(* Any error ends the cycle: what was fetched is thrown away, and so is    *)
(* the force flag, a local of the loop.                                    *)
DownloadFails ==
    /\ \/ /\ pc = "list" \/ (pc = "get" /\ todo # {})
          /\ Spend("download")
       \/ /\ pc = "get"
          /\ \E z \in todo : z \notin DOMAIN upstream
          /\ UNCHANGED budget
    /\ pc' = "select"
    /\ todo' = {}
    /\ fetched' = NoZones
    /\ UNCHANGED <<ctrlVars, lbVars, force, allZoneNames,
                   upstream, health, updates>>

UpdateCurrentZones ==
    /\ pc = "get"
    /\ todo = {}
    /\ currentZones' = fetched
    /\ currentZoneNames' = allZoneNames
    /\ currentZonesEnforceSync' = FALSE
    /\ zoneSyncDue' = FALSE
    /\ pc' = "wanted"
    /\ fetched' = NoZones
    /\ UNCHANGED <<wantedZones, wantedZonesLBHash, lbVars, force, todo,
                   allZoneNames, envVars>>

(* The wanted zones are rebuilt only when forced or when the list changed: *)
(* after a periodic download they still are copies of an older download.   *)
(* Nothing is uploaded when the hashes of all zones agree.                 *)
CompareZones ==
    /\ pc = "wanted"
    /\ IF Outdated
       THEN /\ wantedZones' = UpdateWantedZones
            /\ wantedZonesLBHash' = wantedLBs
       ELSE UNCHANGED <<wantedZones, wantedZonesLBHash>>
    /\ todo' = IF ~force /\ currentZones = wantedZones'
               THEN {}
               ELSE ChangedZones(wantedZones')
    /\ pc' = IF todo' = {} THEN "select" ELSE "push"
    /\ UNCHANGED <<currentZonesEnforceSync, currentZones, currentZoneNames,
                   zoneSyncDue, lbVars, force, allZoneNames, fetched, envVars>>

PushNext(z) ==
    /\ pc = "push"
    /\ z \in todo
    /\ todo' = todo \ {z}
    /\ pc' = IF todo' = {} THEN "select" ELSE "push"
    /\ UNCHANGED <<currentZones, currentZoneNames, wantedZones,
                   wantedZonesLBHash, zoneSyncDue, lbVars, force,
                   allZoneNames, fetched, health, updates>>

(* UpdateZone replaces the whole zone at the provider.                     *)
UpdateZone(z) ==
    /\ PushNext(z)
    /\ z \in DOMAIN upstream
    /\ upstream' = [upstream EXCEPT ![z] = wantedZones[z]]
    /\ currentZonesEnforceSync' = EnforceAfterUpdate
    /\ UNCHANGED budget

(* An error is logged and the loop goes on with the next zone.             *)
UpdateZoneFails(z) ==
    /\ PushNext(z)
    /\ IF z \in DOMAIN upstream THEN Spend("update") ELSE UNCHANGED budget
    /\ UNCHANGED <<upstream, currentZonesEnforceSync>>

(* The provider applied the update and the answer was lost.                *)
UpdateZoneTimesOut(z) ==
    /\ AmbiguousUpdates
    /\ PushNext(z)
    /\ z \in DOMAIN upstream
    /\ Spend("update")
    /\ upstream' = [upstream EXCEPT ![z] = wantedZones[z]]
    /\ UNCHANGED currentZonesEnforceSync

-----------------------------------------------------------------------------
(* Environment *)

(* syncStatus of the etcd controller computes its list, the same as before *)
(* or another one, and a new goroutine blocks on the channel with it.      *)
SendUpdate(l) ==
    /\ health' = l
    /\ updates' = [updates EXCEPT ![l] = IF @ < MaxCopies THEN @ + 1 ELSE @]
    /\ IF l = health THEN UNCHANGED budget ELSE Spend("feed")
    /\ UNCHANGED <<ctrlVars, lbVars, loopVars, upstream>>

ZoneSyncDue ==
    /\ zoneSyncDue' = TRUE
    /\ UNCHANGED <<currentZonesEnforceSync, currentZones, currentZoneNames,
                   wantedZones, wantedZonesLBHash, lbVars, loopVars, envVars>>

(* Somebody else replaces an LB's records or the rest of a zone.           *)
EditRecords(z, lb, eps) ==
    /\ z \in DOMAIN upstream
    /\ Spend("edit")
    /\ upstream' = [upstream EXCEPT ![z] =
                        [rr    |-> [upstream[z].rr EXCEPT ![lb] = eps],
                         other |-> upstream[z].other]]
    /\ UNCHANGED <<ctrlVars, lbVars, loopVars, health, updates>>

EditForeign(z, f) ==
    /\ z \in DOMAIN upstream
    /\ Spend("edit")
    /\ upstream' = [upstream EXCEPT ![z] =
                        [rr |-> upstream[z].rr, other |-> f]]
    /\ UNCHANGED <<ctrlVars, lbVars, loopVars, health, updates>>

CreateZone(z, f) ==
    /\ z \notin DOMAIN upstream
    /\ Spend("zone")
    /\ upstream' = AddZone(upstream, z, [rr |-> [lb \in LB |-> {}], other |-> f])
    /\ UNCHANGED <<ctrlVars, lbVars, loopVars, health, updates>>

DeleteZone(z) ==
    /\ z \in DOMAIN upstream
    /\ Spend("zone")
    /\ upstream' = [y \in DOMAIN upstream \ {z} |-> upstream[y]]
    /\ UNCHANGED <<ctrlVars, lbVars, loopVars, health, updates>>

-----------------------------------------------------------------------------
SyncStep ==
    \/ Tick \/ ListZones \/ UpdateCurrentZones \/ CompareZones
    \/ \E z \in Zone : GetZone(z) \/ UpdateZone(z) \/ UpdateZoneFails(z)
                       \/ UpdateZoneTimesOut(z)
    \/ DownloadFails

LBUpdateStep == StoreCandidate \/ \E l \in Feed : ReceiveUpdate(l)

Edit ==
    \E z \in Zone :
        \/ \E lb \in LB, eps \in SeedRecords : EditRecords(z, lb, eps)
        \/ \E f \in Foreign : EditForeign(z, f) \/ CreateZone(z, f)
        \/ DeleteZone(z)

Next ==
    \/ SyncStep
    \/ LBUpdateStep
    \/ \E l \in Feed : SendUpdate(l)
    \/ ZoneSyncDue
    \/ Edit

Spec == Init /\ [][Next]_vars

(* Both loops keep running, the status loop keeps sending its list, and    *)
(* time passes.  Errors and edits are bounded, never forced.               *)
Fairness ==
    /\ WF_vars(SyncStep)
    /\ WF_vars(LBUpdateStep)
    /\ WF_vars(SendUpdate(health))
    /\ WF_vars(ZoneSyncDue)

FairSpec == Spec /\ Fairness

-----------------------------------------------------------------------------
(* Properties *)

TypeOK ==
    /\ currentZonesEnforceSync \in BOOLEAN
    /\ currentZones \in Zones
    /\ currentZoneNames \in SUBSET Zone
    /\ wantedZones \in Zones
    /\ wantedZonesLBHash \in Feed \cup {NULL}
    /\ zoneSyncDue \in BOOLEAN
    /\ wantedLBs \in Feed \cup {NULL}
    /\ wantedLBsCandidate \in Feed \cup {NULL}
    /\ newLBs \in Feed \cup {NULL}
    /\ pc \in {"select", "list", "get", "wanted", "push"}
    /\ pc # "select" => wantedLBs # NULL
    /\ force \in BOOLEAN
    /\ todo \in SUBSET Zone
    /\ pc = "push" => todo \subseteq DOMAIN wantedZones
    /\ allZoneNames \in SUBSET Zone
    /\ fetched \in Zones
    /\ upstream \in Zones
    /\ health \in Feed
    /\ updates \in [Feed -> Nat]
    /\ budget \in [{"feed", "edit", "zone", "download", "update"} -> Nat]

(* z is the zone lb belongs to whatever zones the provider holds besides.  *)
Home(lb, z) ==
    /\ <<lb, z>> \in Contains
    /\ \A y \in Zone : <<lb, y>> \in Contains => NameLen[y] <= NameLen[z]

(* The wanted zones carry exactly the list whose hash they are filed       *)
(* under: no record of an earlier list survives in them and none is lost,  *)
(* however often the zones were downloaded, rebuilt and uploaded since.    *)
(* The skip in sync (wantedZonesLBHash != wantedLBs.Hash) relies on it.    *)
WantedZonesCarryList ==
    wantedZonesLBHash # NULL =>
        \A z \in DOMAIN wantedZones : \A lb \in DOMAIN wantedZonesLBHash :
            Home(lb, z) => wantedZones[z].rr[lb] = wantedZonesLBHash[lb]

Uploads(z) == UpdateZone(z) \/ UpdateZoneTimesOut(z)

(* Records of an LB are added to no zone but the longest its name contains *)
(* ("foo.bar.org takes priority over bar.org", dnsController.go:66), which *)
(* holds while no zone is created or deleted: the wanted zones of one list *)
(* are not rebuilt when the zones change.                                  *)
MostSpecificZone ==
    [][\A z \in Zone : Uploads(z) =>
        \A lb \in LB :
            ~Home(lb, z) => upstream'[z].rr[lb] \subseteq upstream[z].rr[lb]]_vars

(* UpdateZone is never called for a zone that no LB's name contains,       *)
(* whoever edits, creates or deletes zones meanwhile: the controller holds *)
(* no copy of such a zone (zoneNames in updateCurrentZones;                *)
(* TestIgnoreForeignZones).                                                *)
ForeignZonesUntouched ==
    [][\A z \in Zone : Uploads(z) => \E lb \in LB : <<lb, z>> \in Contains]_vars

(* An upload never deletes the last record of an LB: an LB none of whose   *)
(* endpoints is healthy is left out of the list and keeps the records it   *)
(* had ("will ignore it", etcdController.go:204).                          *)
NoBlackout ==
    [][\A z \in Zone : Uploads(z) =>
        \A lb \in LB : upstream[z].rr[lb] # {} => upstream'[z].rr[lb] # {}]_vars

(* What other people changed in a zone is not taken back by an upload of   *)
(* the controller that has downloaded the change itself ("we don't fuck up *)
(* records we dont have lbs for", dnsController_test.go:387).              *)
SeenEditsKept ==
    [][\A z \in Zone :
        /\ Uploads(z)
        /\ z \in DOMAIN currentZones
        /\ currentZones[z].other = upstream[z].other
        => upstream'[z].other = upstream[z].other]_vars

(* It holds in a cycle that a new list forces: whatever the list, and      *)
(* whatever was built for it before, the zones are downloaded and rebuilt  *)
(* (dnsController.go:232), and the rest of each is uploaded as downloaded. *)
ForcedUploadsFresh ==
    [][\A z \in Zone : force /\ Uploads(z) =>
        /\ z \in DOMAIN currentZones
        /\ upstream'[z].other = currentZones[z].other]_vars

(* A cycle that uploads nothing may: the provider has the adopted list in  *)
(* every zone the wanted zones include, although nothing was compared but  *)
(* hashes of copies, and a failed download may have left those of an       *)
(* earlier list (dnsController.go:252).                                    *)
IdleIsPublished ==
    [][CompareZones /\ todo' = {} =>
        \A lb \in DOMAIN wantedLBs : \A z \in DOMAIN wantedZones' :
            Home(lb, z) => upstream[z].rr[lb] = wantedLBs[lb]]_vars

(* The records of every LB in list are its endpoints, in the zone it       *)
(* belongs to if the provider holds one.                                   *)
Published(list) ==
    \A lb \in DOMAIN list : \A z \in DOMAIN upstream :
        Matches(lb, DOMAIN upstream, z) => upstream[z].rr[lb] = list[lb]

(* Once the health of the endpoints stops changing, the provider ends up   *)
(* with it.                                                                *)
Converges == <>[]Published(health)

(* The lists somebody may still adopt: blocked in a goroutine of the etcd  *)
(* controller, in the hands of lbUpdateLoop, or the candidate.             *)
InFlight ==
    {l \in Feed : updates[l] > 0} \cup ({newLBs, wantedLBsCandidate} \ {NULL})

Publisher == INSTANCE ZonePublisher WITH
    HomeZone <- {h \in LB \X Zone : Home(h[1], h[2])},
    inFlight <- InFlight,
    adopted <- wantedLBs

(* With nobody else editing, and failed uploads without effect, the        *)
(* controller implements its promise: an upload (dnsController.go:263)     *)
(* always carries the list adopted last, although it is built from copies  *)
(* of zones and filed under hashes of lists that may both be older.        *)
ImplementsPublisher == Publisher!Spec

(* ... and the controller stops uploading zones.                           *)
StopsUploading == <>[](pc # "push")

=============================================================================
