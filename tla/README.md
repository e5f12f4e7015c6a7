# dnslb in TLA+

dnslb reads what health agents report through etcd and keeps the A records of
load balanced names at a DNS provider in line with it. This directory holds
TLA+ models of its parts, TLC configurations that check them on small
instances, and proofs, checked by TLAPS, of what holds for every instance.

## The system

| part | source | state | operations |
|---|---|---|---|
| DNS controller | `dnsController.go` | zones last downloaded, wanted zones, adopted list, candidate list, hashes, `currentZonesEnforceSync`, stop channels | `lbUpdateLoop` receives lists; the sync loop adopts the candidate, downloads, rebuilds, uploads; `Run`, `Stop` |
| etcd controller | `etcdController.go` | current list, hash of the monitors last written, loop marks, stop channels | `statusLoop` counts the agents' votes and sends a list; `monitorLoop` keeps the key `monitors`; `Run`, `Stop` |
| lists | `loadbalancer.go` | names with endpoints, hash | `NewLoadbalancerList` |
| etcd client | `etcd.go` | connection | `Get`, `Set` |
| election, lifecycle | `main.go`, `grpcRaft.go` | `isLeadingA`, `leadingStoppedAtTS`, raft's leader channel, signal channel | callbacks that start and stop the controllers |
| health endpoint | `main.go` | `lastDNSCycleTS`, `lastETCDCycleTS` and the two above | `/healthz` |
| configuration, parsing | `main.go`, `net.go`, `util.go` | viper | flags, file, environment, once at the start |
| raft wiring | `grpcRaft.go`, `stateRaft.go` | raft log with an empty state machine | `Run`, `Stop`, `LeaderCh` |
| metrics, debug provider | `metrics.go`, `debugDnsProvider.go` | counters | none that matters to the others |
| DNS library, healthd | external | zones; agents' reports | |

How they interact:

* `statusLoop` hands every list to a goroutine of its own that blocks on the
  unbuffered channel `lbUpdates` until `lbUpdateLoop` receives it; the order
  in which waiting lists are received is open.
* `lbUpdateLoop` and the sync loop share `wantedLBs` and `wantedLBsCandidate`;
  only the writes of the candidate are under the lock.
* The sync loop talks to the provider call by call, while other people edit
  and create zones. `statusLoop` reads the agents one by one, while they go on
  reporting. `monitorLoop` writes what the agents are to check.
* Both controllers report their cycles over unbuffered channels to a goroutine
  of `dnsManage` that keeps the times `/healthz` compares.
* The election calls `Run` and `Stop` of both controllers; with `k8s` the
  signal handler calls `Stop` from another goroutine. `Run` resets nothing but
  the stop channels: caches, hashes and lists pass from term to term.
* Instances meet at the provider only: a deposed one finishes its cycle while
  the next one writes.

What is hard: lists out of order, stale copies of zones, calls that fail or
take effect without an answer, reads of different ages, loops that outlive
their term, caches that outlive it, a leader that still writes when the next
one does, two `Stop`s at once, timers that are as long as the grace period,
options that have a different name wherever they turn up.
`PROJECT.json` lists each such place with the properties that cover it.

## Modules

| module | models | abstract from |
|---|---|---|
| `DNSController` | `lbUpdateLoop`, the sync loop and `sync`, `updateCurrentZones`, `updateWantedZones`, `mapLBsToZones`; provider and editors as environment | TTLs, record classes, names relative to the zone; a zone is the A records of every name plus "the rest" |
| `ZonePublisher` | what the DNS controller promises to those who look at the provider; abstract | caches, hashes, loops, calls |
| `Terms` | what `Run` and `Stop` of both controllers promise their callers; abstract | channels, goroutines, who calls |
| `Cluster` | instances on one provider: `DNSController` through terms and crashes, next to a peer | how a leader is elected; the peer's caches |
| `ETCDController` | `statusLoop`, `syncStatus`, `getStatusFromAgent`, `monitorLoop`, `syncMonitors`; agents as environment | the JSON of reports and monitors |
| `Healthz` | `/healthz`, the times it reads and the loops that report them | what a cycle does |
| `Lifecycle` | the callers in `dnsManage` and `Run`/`Stop` of both controllers with their goroutines and stop channels | what a loop does between two visits to its select |
| `Config` | `parseCli`, `cfgValidation`, the beginning of `dnsManage`, `TryParseEndpointProtocol` | how texts are split; what values mean |

`MCDNSController`, `MCCluster`, `MCETCDController` and `MCConfig` hold the
constants of the instances TLC checks; the `.cfg` files pick from them. Each
`_proofs` module holds the theorems about the module it is named after
(`ZonePublisher_proofs`: that `DNSController` implements it;
`LifecycleTerms_proofs`: those about `Lifecycle` that need prompt goroutines).

Each names the code's variables and functions. Definitions whose comment begins
with "Slip" are not part of a specification: they are plausible mistakes in
the definition that follows, and show that the properties notice them. Small
definitions such as `DownloadDue`, `InSync` or `MayStop` name the decision of
the code that such a mistake would get wrong.

### DNSController

`updates` counts the goroutines blocked on the channel with each list (a
counter up to `MaxCopies`); `ReceiveUpdate` takes any of them.
`ReceiveUpdate` and `StoreCandidate` are the two halves of `lbUpdateLoop`, as
the comparison with `wantedLBs` is not under the lock; each half is one step.
`Tick` is the timer with the adoption of the candidate and the decision to
download; then every provider call is a step: `ListZones`, `GetZone`,
`UpdateZone` with its three outcomes (applied; failed; failed although
applied, `AmbiguousUpdates`). `DownloadFails` is any error of a download,
`UpdateCurrentZones` the assignments at its end, `CompareZones` everything from
the rebuild to the choice of zones to upload.

A hash is represented by the value it is computed from: xxhash is taken to be
injective, and the external `Zone.Hash` not to depend on the order of records.
`currentZonesHash` and `currentZonesHashMap` are functions of `currentZones`
at all times and are no variables. `strings.Contains(lb.Name, zone)` is the
relation `Contains`; that two zones contained in one name differ in length
(`NoTiesAssumption`) makes the order of `sort.Slice` irrelevant. Names that
contain a zone's name in the middle are not distinguished from suffixes.

### ZonePublisher, Terms and Cluster

`ZonePublisher` has four variables: the list computed last, the lists on their
way, the list adopted last and the zones. Lists may be lost and adopted in any
order; a zone may only become what the adopted list makes of it. The
refinement mapping takes `inFlight` to the lists in senders, in the hands of
`lbUpdateLoop` and in the candidate, and `adopted` to `wantedLBs`. That an
upload carries the *adopted* list, although it is built from copies of zones
and skipped by comparing hashes, is what the refinement says.

`Terms` has three variables: the loops that run and have not been told to
stop, those of them in the middle of a cycle, and whether the controllers are
being stopped. Loops are started from nothing and stopped in order, each
between two cycles, and none is started before all are down. `Lifecycle`, with
its channels and goroutines, implements it. `Cluster` and `Healthz` start and
stop a controller in one step per loop; they are written after what `Terms`
says, but that nothing `Lifecycle` can do is missing from them is not shown.

`Cluster` extends `DNSController`: every step of this instance is one of that
module, under the guard its role gives it. `DNSStop` is the two receives of
`DNSController.Stop`, each by a loop between two cycles, and `ETCDStop` the
return of `ETCDController.Stop`. `Crash` is a restart with nothing
kept. The peer is what the provider sees of the other instances: it builds
what it wants from a download (`PeerSync`) and uploads it at any time later,
in part or not at all, also after it was deposed and after this instance began
to lead.

### ETCDController

A report is the set of checks an agent says are healthy; `NULL` is a report
that is missing, broken or too old. `StartSync`, one `ReadAgent` or
`ReadAgentFails` per agent and `SendList` make up a cycle of `statusLoop`;
`GetMonitors`, `SetMonitors` and their failures one of `monitorLoop`. `Wanted`
gives every endpoint of every load balancer a check of its own, as the code
appends them one by one (`EntriesAssumption`): an endpoint that two load
balancers share would be two checks with one address, hence two votes. The
actions of agents lie between any two of them. `everHealthy` and
`alwaysHealthy` remember what each agent reported since the cycle began; they
are history and influence nothing.

### Healthz

One unit of time is five seconds, the period of the chart's liveness probe;
the grace period and the default interval between uploads are 12. Timers fire
on time: time does not pass a timer that is due, nor, without a hang,
`MaxSync`, nor `EtcdCycle`. Three failing probes are Kubernetes' default for
killing a container. The 30 seconds before the chart's first probe are left
out: an instance may become leader at any time after them. `failures` and
`startedAt` are history.

### Lifecycle

Channel *n* of a loop is the one made by the *n*-th `Run`. A loop captures the
channel when it enters its select (`waitsOn`) and closes the one in the field
when told to stop, as the code does; closing it tells every loop that waits on it.
`Run` is the check of `running` and its assignment, `MakeChannels` the channels
and the `go` statements after it: between the two a `Stop` would find the
controller running and its channels nil, or those of an earlier term.
`DNSStop`, two `DNSSend`s (rendezvous with the loop) and `DNSStopped` are
`DNSController.Stop`; `ETCDStop`, `SenderStarts`, `ETCDSend` and `ETCDStopped`
are `ETCDController.Stop`. A loop of the etcd controller sets its mark once,
when it starts, and clears it when it returns. Raft's leader channel holds the
newest value only. That branch never registers for signals (main.go:645): a
SIGTERM ends the process at any point (`Killed`), and `<-signalCh` with the
`Stop`s after it is never passed. A second `close`, a `close` under a blocked
sender and a send on a closed channel are `Panic`.

`Prompt` says that goroutines which can run do so before a caller takes its
next command: leadership changes seconds apart, goroutines start within
microseconds. `Overlap` says whether callers act while another one is busy,
which only those of `k8s` can: raft and the singleton have one caller.
`Election` is the set of implementations from which `Init` picks one, and
`Signals` whether SIGTERM may arrive.

### Config

`passed` and `file` are what was given on the command line and in the config
file, each option by the name it has there; `settings` are viper's keys.
namsral/flag also takes flags from the environment, and `flag.Visit` counts
them as given. `KeyOf` is the table of `viper.Set` calls, `Defaults` the one of
`viper.SetDefault`; `ReadFor`, the table of `viper.Get` calls, is part of the
properties. Values are "flag", "file", "default", the empty text and `NIL`;
only what decides (election, provider, emptiness) has values of its own.
`-agent` and `-etcd` gather lists: given as "" they store `BLANK`, a list whose
one member is empty, and that is not an empty list (`Given`). An endpoint's
text is a record of protocol, IP text and number, or `NIL` when it cannot be
split.

## Runs

| run | what it asks | bounds |
|---|---|---|
| `DNSSafety` | with one zone below another: do the wanted zones carry the list they are filed under; are records added to the most specific zone only; does an upload ever delete a name's last record; has the provider the adopted list when a cycle uploads nothing; does the controller implement `ZonePublisher`? | two names in two zones, two changes of health, one copy of each list waiting, one failed download, one failed upload, nobody else editing |
| `DNSEdits` | the first question with zones created and deleted, and records and the rest of zones edited, between any two provider calls; are zones nobody balances left alone; does a cycle forced by a new list keep what it downloaded? | three zones, the lower of the two nested ones missing at first, two contents of the rest of a zone, two changes of the set of zones, one edit, one change of health |
| `DNSLive` | does the provider end up with what the last list says, and do uploads stop? | two zones, two changes of health, one edit of a record, one failed upload (that may have taken effect), no failed download |
| `Cluster` | are the records of a name ever those of two lists; does an instance that leads for good repair what deposed leaders, its own earlier terms and a crash left; does a stopped one keep quiet? | one name, one zone, two terms of this instance, one crash, any number of terms and uploads of the peer |
| `ETCD` | is a list what a majority reported, neither more nor less; are the monitors restored; does the list settle on what the living agents reach? | three agents, two of which reach the endpoints at first, two load balancers; any two of: a change of the network, a crash, a failed read or lost report, a failed write, a foreign write or delete |
| `Healthz` | is a deposed instance that still syncs unhealthy, and a quiet follower healthy again; does the probe spare a leader that has begun to sync? | the default upload interval of a minute, syncs of up to five seconds, one hanging provider call, a bit over three minutes after boot |
| `LifecycleTerms` | one loop of each kind per term, no panic, loops that follow leadership, none left behind at the end, clean exit, for each of the three elections; does it implement `Terms`? | three terms, six changes of leadership, prompt goroutines, one caller at a time |
| `Config` | does every option that is given take effect where it is read; is what the chosen election and provider read there when the controllers start; are endpoints what was written? | every election with every provider, each option in turn given, emptied, moved, doubled or left out |

Why the bounds are enough. Two names in two zones, one of which is
below the other, give every case the code tells apart: a zone with and without
a name, a change of one while the other stays, a name two zones match. Three
lists (nothing; one name; both names, another endpoint for the first) contain
a name that appears, one that disappears and one whose endpoint changes. One
failure of each kind with two changes of health allows "fails, then changes
again". In `DNSEdits` and `DNSForeignEdit` two contents of the rest of a zone
tell an edited zone from an unedited one; the other runs have one, so that
only edits of load balancers' records show there. With three agents a
majority, half and a single vote differ; two mishaps (`MaxMishaps`) are enough
for one to meet another in the same cycle. `Healthz` begins later than two grace periods after the epoch, as real
clocks do, and lasts long enough to lead, lose, wait out both grace periods
and lead again. Two terms are enough for a loop of one term to meet the
channels of the next, a third for the second to be a middle one. In `Cluster`
there is one name in one zone: terms, crashes and the peer act on whole zones,
and what several names and half-finished cycles add is in the runs of
`DNSController`; two terms with a crash
give every pair of "fresh" and "used" caches. `Config` doubles one option at a
time, since no code looks at two options but the choice of election and
provider, of which it has all.

Deadlock is checked in the two controllers and in `Cluster`, whose loops never
end. It is not in `Healthz` (time is bounded), `Lifecycle` (the process exits,
and changes of leadership are bounded) and `Config` (the last stage).

Four runs end in a violation, each a disagreement between the code and
something it says of itself:

| run | property | what happens |
|---|---|---|
| `DNSLostZone` | `Converges` | a failed download loses `force`; the zone of a new name is left out for good |
| `DNSForeignEdit` | `SeenEditsKept` | after a periodic download the wanted zones are older copies than what was downloaded, and take an edit of somebody else's record back |
| `LifecycleTwoStops` | `NoPanic` | the signal handler and `OnStoppedLeading` stop at once |
| `HealthzDefault` | `ProbeSparesLeader` | at the default interval, as long as the grace period, a new leader is unhealthy until its first cycle, and the chart's probe kills it |

`ForcedUploadsFresh` and `ProbeSparesSyncing` say where the second and the last
of these disagreements end: a cycle forced by a new list takes no downloaded
edit back, and a leader that has begun to sync is unhealthy between two cycles
for fewer probes than it takes.

### What the passing runs need

Each of these changes of a `.cfg` makes TLC find a counterexample, which shows
what the code relies on:

| change | property lost | because |
|---|---|---|
| `DNSLive`, `MaxDownloadErrors = 1`, no edits | `Converges`, `StopsUploading` | the force flag is lost (`DNSLostZone`); or the wanted zones keep a zone none of whose names is listed any more, which is then uploaded in every cycle |
| `DNSLive`, `MaxZoneChanges = 1`, `InitZones` a definition of `{za}` | `Converges` | the wanted zones are rebuilt only when the list changes (dnsController.go:232): a zone created after that is downloaded but never served |
| `DNSSafety`, `MaxEdits = 1` | `IdleIsPublished` | an edit is not seen before the next download |
| `DNSSafety`, `AmbiguousUpdates = TRUE` | `NoBlackout`, `IdleIsPublished` | only an update reported as successful enforces a download: a later cycle rebuilds from a copy without the record and deletes it, or, after a failed download, finds the copy equal to the list and uploads nothing |
| `ETCD`, both checks of one load balancer and with one address | `MajorityOfAgents` | votes are counted per ip:port, so the http and tcp check of one agent are two votes (etcdController.go:143) |
| `Healthz`, `MaxSync = 3` | `ProbeSparesSyncing` | with syncs of 15 seconds the gap between the end of the grace period and the next cycle is three probes long |
| `Healthz`, `Singleton = TRUE` | `DeposedNotSyncing` | that branch never sets `isLeadingA`: the instance is healthy until it reports its first cycle, and unhealthy because it syncs from then on |
| `LifecycleTerms`, `Prompt = FALSE` | `StopBlocks`, `NoPanic`, `LoopsMatchRunning`, `ExitsDown`, `KeepsTerms` | `ETCDController.Stop` waits for marks that loops set when they begin, and returns if they have not: loops of two terms then share the channel fields |

Other things the models show about the code, without a run of their own:

* A list equal to `wantedLBs` is dropped even while an older candidate waits to
  be adopted (dnsController.go:186): the older one is adopted, and corrected
  when the status loop sends the newer one again two seconds later. `Converges`
  holds because it sends its list in every cycle, changed or not.
* After a term of another instance nothing but the list decides whether zones
  are downloaded: with an unchanged list the zones are repaired only by the
  periodic download (dnsController.go:214). `DownloadDue_Never` shows it.
* `NoBlackout` is a property of one instance. In `Cluster` with two names in one
  zone (the lists `{b}` and `{a, b}`) TLC finds an instance that, back in
  office with its old list, uploads wanted zones built before another leader
  published `a`, and deletes `a` until it adopts a newer list.
* The default of `etcd-interval-monitoring` never reaches viper (main.go:143
  and 457): without the flag the interval is zero and `monitorLoop` asks etcd
  without a pause. `GivenTakesEffect` is about options that are given; of
  defaults nothing of the kind holds.
* `viper.Get("mockZonePath") == ""` (main.go:351) is false for a path nobody
  set; the mock providers then fail to read the file, so that `ChosenGiven`
  holds. The default "dnslb.yaml" of `-cfg` is never read, since the file is
  looked at only if the flag was given.
* A deposed instance is unhealthy for two grace periods, two minutes, although
  its controllers are down: the chart's probe, with Kubernetes' three failures
  five seconds apart, kills it meanwhile. `QuietIsHealthy` says only that this
  state ends.
* `-etcd ""` is a list with one empty member and passes the validation
  (main.go:242, 306), and nothing asks whether there is an agent (main.go:459)
  or a load balancer (main.go:438): `ChosenGiven` says of the etcds that the
  list has a member, and nothing of the other two.
* Between `running = true` and the making of the channels
  (dnsController.go:293-296, etcdController.go:70-75) a `Stop` of another
  goroutine sees a controller that runs and sends on a nil channel, or on one
  of an earlier term. Only the callers of `k8s` can meet like this; `TypeOK`
  of `Lifecycle` shows that no others do.
* An endpoint that two load balancers share is monitored twice
  (etcdController.go:293-298), and an agent that reports it twice has two votes.
* Ports are taken modulo 2^16 and an IP that is not IPv4 becomes nil, both
  without an error (net.go:84-90).

### Fairness

* `DNSController`: weak fairness of each loop (Go schedules runnable
  goroutines and provider calls return), of the status loop sending its
  current list, and of time. No fairness of any failure or edit.
* `ETCDController`: weak fairness of both loops, of each living agent's reports
  and of the ageing of a dead agent's report.
* `Cluster`: weak fairness of the loops of this instance, of its status loop
  sending the current list and of time. Changes of leadership, crashes and the
  peer are never forced; `LeaderConverges` says what holds once they end.
* `Healthz` and `Config` state safety only.
* `Lifecycle`: weak fairness of callers and loops. Strong fairness of a send to
  a loop, since the loop leaves and re-enters its select: `select` chooses at
  random among ready cases and the timer is made anew in every round.

## Proofs

`DNSController_proofs`: `TypeCorrect` is inductive by itself, with the linked
facts that no cycle runs without a list and that only wanted zones are pushed.
`WantedZonesCarryListHolds` strengthens the property with the fact that the
zone names the controller knows cover the zones it holds, so that the longest
match among them is the zone's own. `ForeignZonesUntouchedHolds` rests on the
invariant that every copy of a zone is of a zone that some name contains.
`NoBlackoutHolds` assumes that failed updates have no effect and that
nobody edits the names' records; its invariant says that every copy the
controller holds of a zone lacks no name which the provider has and the next
rebuild would not add. `ForcedUploadsFreshHolds` assumes nothing: while a
forced cycle uploads, every wanted zone has the rest of the zone downloaded in
that cycle, whatever hash it was filed under before. `IdleIsPublishedHolds` is
about belief and truth: a cycle without uploads rests on comparing hashes of
copies, and its invariant says that the copies agree with the provider unless
`currentZonesEnforceSync` is set. It covers the zones the controller holds; the
zone a failed download makes it overlook is the finding of `DNSLostZone`. The
table above shows that these assumptions are needed.

`ETCDController_proofs`: `TypeCorrect` says among other things that no list
holds a load balancer without endpoints. `MajorityListedHolds` and `MajorityOfAgentsHolds`
relate the votes counted so far to the agents read so far: at least those that
reported an address throughout, at most those that reported it at some time.
The second assumes `OneVoteEach` (no agent configured twice, no address
checked twice); the table above shows why.

`ZonePublisher_proofs`: `MostSpecificZoneHolds` assumes that no zone is created
or deleted and nobody edits records. Its invariant: all zone names the
controller has seen are the provider's, and every copy of a zone agrees with
the provider on the records of names that belong to another zone, so that an
upload cannot add one. `ImplementsPublisherHolds` is the refinement: initial
states map to initial states and every step to a step of `ZonePublisher` or a
stutter. It combines the invariants above and the fact that all
copies agree on the rest of a zone while nobody else edits with the fact that a
cycle which uploads does so from wanted zones filed under `wantedLBs`, as no
list is adopted within a cycle. It assumes in addition that failed updates
have no effect.

`Cluster_proofs`: `OneListPerNameHolds` assumes nothing, not even about failures
and edits: each copy of a zone, in this instance, in the peer or at the
provider, has for a name the records of one list, or those it had without
dnslb, since a rebuild replaces all records of a name or none.
`QuietFollowerHolds`
says that past the sync loop's receive no cycle is open.

`Healthz_proofs`: `DeposedNotSyncingHolds` strengthens the property with the
order in which the controllers stop (the etcd controller outlives the DNS
controller, and runs exactly while the instance leads or is stopping) and with
the age of its last report. `QuietIsHealthyHolds` needs that nothing `/healthz`
compares is younger than the end of the etcd controller, which is the last to
stop. `ProbeSparesSyncingHolds` assumes that an interval and a sync together
are shorter than the grace period and the failures the probe tolerates, as
with the default interval and syncs shorter than ten seconds. Its invariant
bounds the failures by the time since the last cycle: while no call hangs, no
timer of the sync loop is overdue, so that a cycle begins an interval and a
sync after the last one at most, and no probe fails in the grace period after
it. Before the first cycle of a term no such bound holds (`HealthzDefault`).

`Lifecycle_proofs`: `TypeCorrect` needs that every loop there is has a channel,
and, for the claim about nil channels, how far the only busy caller has come
(the same invariant as below); with `Overlap` it claims types only. `StoppedDNSIsDownHolds` is for any number of terms
and any scheduling; its invariant: at most one caller is busy, only the newest
loop of each kind has not been told to stop, and how far a `Stop` has come says
which loops are gone. It assumes `Apart`: with `k8s` no two commands are at work
at once. With raft and for a singleton nothing is assumed, since only one
goroutine ever calls `Run` and `Stop` (`OneCallerHolds`). `LifecycleTwoStops`
shows what overlapping callers do with `k8s`.

`LifecycleTerms_proofs` adds `Prompt`. Its invariant `TermsInv` says that all
live loops of a kind are of the newest `Run` (`OneTerm`), wait on the newest
channel, and that a channel is closed only when its loop was told; that the
stage of the loops matches `running` and how far a caller has come
(`LiveMatches`, `CallersInv`); and that the goroutines that send to the loops of
the etcd controller and the marks it waits for agree with those loops (`Tokens`,
`Marks`). `NoPanic` is part of it; `LoopsMatchRunning`, `ExitsDown` and
`StopBlocks` follow. `KeepsTermsHolds` is the refinement: every step of callers,
senders and loops is a step of `Terms` or a stutter, given in addition that the
two controllers run together except between the two `Run`s and between the two
`Stop`s of a caller (`InStep`). The row with
`Prompt = FALSE` above shows that the assumption is needed.

`Config_proofs`: `GivenTakesEffectHolds` rests on the tables of flags, keys
and reads being the same one-to-one map; `ChosenGivenHolds` on the
validation and the reading of the mocks' file together.
`EndpointsAsWrittenHolds` needs, of the flags given for one name, the last; that
there is a last one among any number of flags is taken from the well-foundedness
of the order of positions.

The assumptions on constants are the named `ASSUME`s of the modules, which TLC
evaluates in every run. Model-checked only: the liveness properties (`Converges`, `StopsUploading`,
`LeaderConverges`, `MonitorsRestored`, `ListConverges`, `FollowsLeadership`,
`ExitsCleanly`), which need fairness. Every safety invariant, action property
and refinement that a passing run checks is proved, each under the assumptions
stated with it.

### The two controllers together

They are checked apart; what one assumes of the other is stated on both sides.
`DNSController` assumes that no list holds a load balancer without endpoints
(`FeedAssumption`): `Loadbalancers` leaves such out, as the condition at
etcdController.go:201 does, and `TypeCorrect` of `ETCDController_proofs` has it
for every list computed. Its
senders receive *any* list of `Feed` at any time, so no order is assumed. It
converges once the list stops changing: `ListConverges` says that it does once
the agents' world does. And it relies on the list being sent again and again,
which `SendList` ends every cycle with, failed reads included.

## Not modelled

Metrics (counters nobody in the program reads), the debug provider (logs and
passes on), the raft log and its transport (the state machine is empty), the
connection of the etcd client, the Kubernetes client. Of the configuration:
what `flag.Parse` refuses, the flags of the bully election, which nothing
reads, and the splitting of texts into endpoints. `Cluster` has one instance in
full and sees of the others only uploads; its leadership changes are instant,
which the elections' leases approximate. Endpoints of one load balancer that
share an IP are appended as equal records (dnsController.go:157-167): the model
keeps a record for each and takes the provider to do the same, so that
comparing what was uploaded with what comes back is not disturbed by it.
Goroutines that are late (`Prompt`) and callers of `k8s` that do not wait for
each other (`Overlap`) are outside the properties of `LifecycleTerms`, and go
wrong, as the table and `LifecycleTwoStops` show.

With `k8s` the loss of the lease ends the process, so that a later term is one
of a new process (`Crash`); the caches of an earlier term matter with raft.

## Plan

1. Done: the modules above; their safety properties, action properties and
   refinements proved, under the assumptions named with each.
2. Bounds on provider calls: how many uploads a cycle makes, and after how many
   cycles without failures there are none, as a variant that decreases.
3. An abstract specification of the lists the etcd controller sends, which the
   votes implement and `DNSController`'s `Feed` refers to.
