------------------------------ MODULE Healthz ------------------------------
(***************************************************************************)
(* The /healthz endpoint of dnslb and what it is computed from             *)
(* (dnsManage in src/main.go): the leadership flag, the time leadership    *)
(* was lost, and the times at which the two controllers last reported a    *)
(* cycle on their lastCycle channels.  Time passes in whole units; the     *)
(* timers of the controllers' loops fire on time, so that time cannot pass *)
(* a timer that is due.  The liveness probe of the chart                   *)
(* (src/chart/templates/dnslb-sts.yaml) asks once per unit.                *)
(***************************************************************************)
EXTENDS Naturals

CONSTANTS
    Singleton,      \* election "singleton" rather than "k8s" or "raft"
    Interval,       \* zone-sync-interval-upload, the DNS controller's timer
    EtcdCycle,      \* longest time between two cycles of the status loop
    MaxSync,        \* longest sync of the DNS controller unless it hangs
    gracePeriod,    \* one minute
    Boot,           \* now, counted from 1970
    Failures,       \* probes that fail in a row until the pod is killed
    MaxTime,        \* bound on the time
    MaxHangs        \* bound on provider calls that hang

ASSUME TimesAssumption ==
    /\ Singleton \in BOOLEAN
    /\ {Interval, MaxSync, MaxTime, MaxHangs} \subseteq Nat
    /\ {EtcdCycle, Failures} \subseteq Nat \ {0}
    /\ gracePeriod \in Nat
    /\ Boot \in Nat
    /\ EtcdCycle < gracePeriod      \* 2 seconds and the reads; one minute
    /\ Boot > 2 * gracePeriod

VARIABLES
    now,
    isLeading,
    leadingStoppedAt,
    lastDNSCycle,
    lastETCDCycle,
    dns,            \* the DNS controller's sync loop
    dnsSince,       \* when it began what it is doing
    etcd,           \* does the etcd controller run?
    etcdSince,      \* when it was started or last completed a cycle
    wantedLBs,      \* has a list ever reached the DNS controller?
    hung,           \* a provider call hangs
    stopping,       \* dnsCtrl.Stop(), then etcdCtrl.Stop() are called
    startedAt,      \* history: when the controllers were last started
    failures,       \* history: probes in a row that failed since it leads
    hangs           \* what is left of MaxHangs

dnsVars  == <<lastDNSCycle, dns, dnsSince, hung, hangs>>
etcdVars == <<lastETCDCycle, etcd, etcdSince, wantedLBs>>
leadVars == <<isLeading, leadingStoppedAt, stopping, startedAt>>
vars     == <<now, failures, dnsVars, etcdVars, leadVars>>

-----------------------------------------------------------------------------
Since(t) == now - t

(* The handler of /healthz.                                                *)
Healthy ==
    IF isLeading
    THEN Since(lastDNSCycle) < gracePeriod /\ Since(lastETCDCycle) < gracePeriod
    ELSE /\ Since(leadingStoppedAt) > 2 * gracePeriod
         /\ Since(lastDNSCycle) > gracePeriod
         /\ Since(lastETCDCycle) > gracePeriod

Init ==
    /\ now = Boot
    /\ isLeading = FALSE
    /\ leadingStoppedAt = 0
    /\ lastDNSCycle = 0
    /\ lastETCDCycle = 0
    /\ dns = "stopped"
    /\ dnsSince = Boot
    /\ etcd = FALSE
    /\ etcdSince = Boot
    /\ wantedLBs = FALSE
    /\ hung = FALSE
    /\ stopping = FALSE
    /\ startedAt = 0
    /\ failures = 0
    /\ hangs = MaxHangs

-----------------------------------------------------------------------------
(* Leader election *)

(* Leadership is gained, or the singleton starts: both controllers run.    *)
(* The singleton does not set the flag.                                    *)
StartLeading ==
    /\ dns = "stopped" /\ ~etcd /\ ~stopping
    /\ isLeading' = ~Singleton
    /\ dns' = "waiting"
    /\ dnsSince' = now
    /\ etcd' = TRUE
    /\ etcdSince' = now
    /\ startedAt' = now
    /\ failures' = 0
    /\ UNCHANGED <<now, leadingStoppedAt, lastDNSCycle, lastETCDCycle,
                   wantedLBs, hung, stopping, hangs>>

(* Slip: the end of the quiet period instead of its beginning.             *)
StoppedAt_Deadline == now + 2 * gracePeriod

(* What is noted as the time leadership was lost.                          *)
StoppedAt == now

StopLeading ==
    /\ isLeading
    /\ isLeading' = FALSE
    /\ leadingStoppedAt' = StoppedAt
    /\ stopping' = TRUE
    /\ UNCHANGED <<now, startedAt, failures, dnsVars, etcdVars>>

(* dnsCtrl.Stop() returns when the sync loop is back at its select.        *)
StopDNS ==
    /\ stopping
    /\ dns = "waiting"
    /\ dns' = "stopped"
    /\ dnsSince' = now
    /\ UNCHANGED <<now, failures, lastDNSCycle, hung, hangs, etcdVars, leadVars>>

(* Slip: the etcd controller is stopped first.                             *)
DNSIsDown_Skipped == dns \in {"stopped", "waiting", "syncing"}

(* Only when dnsCtrl.Stop() has returned the etcd controller is stopped.   *)
DNSIsDown == dns = "stopped"

StopETCD ==
    /\ stopping
    /\ DNSIsDown
    /\ etcd
    /\ etcd' = FALSE
    /\ etcdSince' = now
    /\ stopping' = FALSE
    /\ UNCHANGED <<now, failures, dnsVars, lastETCDCycle, wantedLBs,
                   isLeading, leadingStoppedAt, startedAt>>

-----------------------------------------------------------------------------
(* The controllers *)

(* The status loop reports a cycle, whether it succeeded or not, and its   *)
(* list, empty or not, reaches the DNS controller.                         *)
ETCDReports ==
    /\ etcd
    /\ lastETCDCycle' = now
    /\ etcdSince' = now
    /\ wantedLBs' = TRUE
    /\ UNCHANGED <<now, failures, etcd, dnsVars, leadVars>>

(* Slip: it is reported only if the sync succeeded.                        *)
ReportDNSCycle_Successful == lastDNSCycle' \in {lastDNSCycle, now}

(* The cycle is reported as it begins, on the channel lastCycle.           *)
ReportDNSCycle == lastDNSCycle' = now

(* The sync loop's timer fires.  Without a list nothing is synced, and     *)
(* nothing reported.                                                       *)
SyncDNS ==
    /\ dns = "waiting"
    /\ Since(dnsSince) >= Interval
    /\ dnsSince' = now
    /\ IF wantedLBs
       THEN dns' = "syncing" /\ ReportDNSCycle
       ELSE UNCHANGED <<dns, lastDNSCycle>>
    /\ UNCHANGED <<now, failures, hung, hangs, etcdVars, leadVars>>

SyncEnds ==
    /\ dns = "syncing"
    /\ dns' = "waiting"
    /\ dnsSince' = now
    /\ hung' = FALSE
    /\ UNCHANGED <<now, failures, lastDNSCycle, hangs, etcdVars, leadVars>>

ProviderHangs ==
    /\ dns = "syncing" /\ ~hung
    /\ hangs > 0
    /\ hangs' = hangs - 1
    /\ hung' = TRUE
    /\ UNCHANGED <<now, failures, lastDNSCycle, dns, dnsSince, etcdVars, leadVars>>

Tick ==
    /\ now < MaxTime
    /\ dns = "waiting" => Since(dnsSince) < Interval /\ ~stopping
    /\ dns = "syncing" /\ ~hung => Since(dnsSince) < MaxSync
    /\ etcd => Since(etcdSince) < EtcdCycle
    /\ now' = now + 1
    /\ failures' = IF Healthy \/ ~isLeading THEN 0
                   ELSE IF failures < Failures THEN failures + 1 ELSE failures
    /\ UNCHANGED <<dnsVars, etcdVars, leadVars>>

Next ==
    \/ StartLeading \/ StopLeading \/ StopDNS \/ StopETCD
    \/ ETCDReports \/ SyncDNS \/ SyncEnds \/ ProviderHangs
    \/ Tick

Spec == Init /\ [][Next]_vars

-----------------------------------------------------------------------------
(* Properties *)

FlagsOK ==
    /\ isLeading \in BOOLEAN
    /\ dns \in {"stopped", "waiting", "syncing"}
    /\ etcd \in BOOLEAN
    /\ wantedLBs \in BOOLEAN
    /\ hung \in BOOLEAN
    /\ stopping \in BOOLEAN

TimesOK ==
    /\ now \in Nat
    /\ now >= Boot
    /\ {leadingStoppedAt, lastDNSCycle, lastETCDCycle,
        dnsSince, etcdSince, startedAt} \subseteq 0..now
    /\ failures \in Nat
    /\ hangs \in Nat

(* Every variable keeps its type, and no time that /healthz subtracts from *)
(* the clock is in the future.                                             *)
TypeOK == FlagsOK /\ TimesOK

(* The liveness probe does not kill a leader whose loops do what they      *)
(* should, not even while it waits for its first cycle ("we are leading -> *)
(* so our controller should be syncing", main.go:502).                     *)
ProbeSparesLeader == isLeading /\ hangs = MaxHangs => failures < Failures

(* Nor does it once the DNS controller has begun its first cycle of the    *)
(* term: though the instance is unhealthy from a grace period after each   *)
(* cycle until the next (the interval of the uploads is as long as the     *)
(* grace period by default), too few probes in a row fall into that gap.   *)
ProbeSparesSyncing ==
    isLeading /\ hangs = MaxHangs /\ startedAt < lastDNSCycle /\ lastDNSCycle < now
    => failures < Failures

(* An instance that lost leadership is reported unhealthy as long as one   *)
(* of its controllers still runs ("we aint leading -> so our controller    *)
(* shouldnt be syncing anymore", main.go:503), even while a hanging        *)
(* provider call keeps the DNS controller from reporting anything: its     *)
(* Stop blocks, so that the etcd controller goes on reporting.             *)
DeposedNotSyncing ==
    ~isLeading /\ (dns # "stopped" \/ etcd) => ~Healthy

(* An instance whose controllers have been down for two grace periods is   *)
(* healthy again, whatever they last reported and whenever the provider    *)
(* let go of them: a follower does not stay unhealthy (main.go:507).       *)
QuietIsHealthy ==
    /\ ~isLeading /\ dns = "stopped" /\ ~etcd
    /\ Since(etcdSince) > 2 * gracePeriod
    => Healthy
=============================================================================
