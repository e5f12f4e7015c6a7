--------------------------- MODULE Healthz_proofs ---------------------------
(***************************************************************************)
(* What /healthz promises of a leader that syncs, and of an instance that  *)
(* lost leadership, for every grace period, cycle time and number of       *)
(* hanging provider calls.                                                 *)
(***************************************************************************)
EXTENDS Healthz, TLAPS

(* The etcd controller outlives the DNS controller, and runs exactly while *)
(* the instance leads or is about to stop it.                              *)
StopOrder ==
    /\ dns # "stopped" => etcd
    /\ etcd <=> isLeading \/ stopping
    /\ ~(isLeading /\ stopping)

(* The etcd controller reports on time: its last report since its start,   *)
(* or its start, is no older than a cycle; and leadership, if it was lost, *)
(* was lost after the controllers were started.                            *)
ReportsOnTime ==
    etcd =>
        /\ now <= etcdSince + EtcdCycle /\ startedAt <= etcdSince
        /\ lastETCDCycle = etcdSince \/ etcdSince = startedAt
        /\ stopping => startedAt <= leadingStoppedAt

IInv == TypeOK /\ StopOrder /\ ReportsOnTime

-----------------------------------------------------------------------------
(* The flags and the loop's state keep their types.                        *)
LEMMA FlagsOKStep == FlagsOK /\ [Next]_vars => FlagsOK'
<1> SUFFICES ASSUME FlagsOK, [Next]_vars PROVE FlagsOK'
  OBVIOUS
<1> USE DEF FlagsOK
<1>1. CASE StartLeading
  BY <1>1, Zenon DEF StartLeading
<1>2. CASE StopLeading
  BY <1>2, Zenon DEF StopLeading, StoppedAt, dnsVars, etcdVars
<1>3. CASE StopDNS
  BY <1>3, Zenon DEF StopDNS, etcdVars, leadVars
<1>4. CASE StopETCD
  BY <1>4, Zenon DEF StopETCD, DNSIsDown, dnsVars
<1>5. CASE ETCDReports
  BY <1>5, Zenon DEF ETCDReports, dnsVars, leadVars
<1>6. CASE SyncDNS
  BY <1>6, Zenon DEF SyncDNS, ReportDNSCycle, etcdVars, leadVars
<1>7. CASE SyncEnds
  BY <1>7, Zenon DEF SyncEnds, etcdVars, leadVars
<1>8. CASE ProviderHangs
  BY <1>8, Zenon DEF ProviderHangs, etcdVars, leadVars
<1>9. CASE Tick
  BY <1>9, Zenon DEF Tick, dnsVars, etcdVars, leadVars
<1>10. CASE UNCHANGED vars
  BY <1>10, Zenon DEF vars, dnsVars, etcdVars, leadVars
<1> QED
  BY <1>1, <1>2, <1>3, <1>4, <1>5, <1>6, <1>7, <1>8, <1>9, <1>10 DEF Next

(* No recorded time is in the future.                                      *)
LEMMA TimesOKStep == TimesOK /\ [Next]_vars => TimesOK'
<1> SUFFICES ASSUME TimesOK, [Next]_vars PROVE TimesOK'
  OBVIOUS
<1> USE TimesAssumption DEF TimesOK
<1>1. CASE StartLeading
  BY <1>1 DEF StartLeading
<1>2. CASE StopLeading
  BY <1>2 DEF StopLeading, StoppedAt, dnsVars, etcdVars
<1>3. CASE StopDNS
  BY <1>3 DEF StopDNS, etcdVars, leadVars
<1>4. CASE StopETCD
  BY <1>4 DEF StopETCD, DNSIsDown, dnsVars
<1>5. CASE ETCDReports
  BY <1>5 DEF ETCDReports, dnsVars, leadVars
<1>6. CASE SyncDNS
  BY <1>6 DEF SyncDNS, ReportDNSCycle, etcdVars, leadVars
<1>7. CASE SyncEnds
  BY <1>7 DEF SyncEnds, etcdVars, leadVars
<1>8. CASE ProviderHangs
  BY <1>8 DEF ProviderHangs, etcdVars, leadVars
<1>9. CASE Tick
  BY <1>9 DEF Tick, dnsVars, etcdVars, leadVars
<1>10. CASE UNCHANGED vars
  BY <1>10 DEF vars, dnsVars, etcdVars, leadVars
<1> QED
  BY <1>1, <1>2, <1>3, <1>4, <1>5, <1>6, <1>7, <1>8, <1>9, <1>10 DEF Next

(* The order in which the controllers are stopped is kept.                 *)
LEMMA StopOrderStep ==
    ASSUME ~Singleton
    PROVE  FlagsOK /\ StopOrder /\ [Next]_vars => StopOrder'
<1> SUFFICES ASSUME FlagsOK, StopOrder, [Next]_vars PROVE StopOrder'
  OBVIOUS
<1> USE DEF FlagsOK, StopOrder
<1>1. CASE StartLeading
  <2>1. isLeading' /\ etcd' /\ ~stopping'
    BY <1>1, Zenon DEF StartLeading
  <2> QED
    BY <2>1
<1>2. CASE StopLeading
  <2>1. stopping' /\ ~isLeading' /\ etcd'
    BY <1>2, Zenon DEF StopLeading, StoppedAt, etcdVars
  <2> QED
    BY <2>1
<1>3. CASE StopDNS
  BY <1>3, Zenon DEF StopDNS, etcdVars, leadVars
<1>4. CASE StopETCD
  BY <1>4, Zenon DEF StopETCD, DNSIsDown, dnsVars
<1>5. CASE ETCDReports
  BY <1>5, Zenon DEF ETCDReports, dnsVars, leadVars
<1>6. CASE SyncDNS
  BY <1>6, Zenon DEF SyncDNS, ReportDNSCycle, etcdVars, leadVars
<1>7. CASE SyncEnds
  BY <1>7, Zenon DEF SyncEnds, etcdVars, leadVars
<1>8. CASE ProviderHangs
  BY <1>8, Zenon DEF ProviderHangs, etcdVars, leadVars
<1>9. CASE Tick
  BY <1>9, Zenon DEF Tick, dnsVars, etcdVars, leadVars
<1>10. CASE UNCHANGED vars
  BY <1>10, Zenon DEF vars, dnsVars, etcdVars, leadVars
<1> QED
  BY <1>1, <1>2, <1>3, <1>4, <1>5, <1>6, <1>7, <1>8, <1>9, <1>10 DEF Next

(* The etcd controller goes on reporting on time.                          *)
LEMMA ReportsOnTimeStep ==
    ASSUME TypeOK, StopOrder, ReportsOnTime, [Next]_vars
    PROVE  ReportsOnTime'
<1> USE DEF TypeOK, TimesOK
<1>1. CASE StartLeading
  <2>1. ~stopping' /\ etcdSince' = now /\ startedAt' = now /\ now' = now
    BY <1>1, Zenon DEF StartLeading
  <2> QED
    BY <2>1, TimesAssumption DEF ReportsOnTime
<1>2. CASE StopLeading
  <2>1. etcd' = etcd /\ etcdSince' = etcdSince /\ lastETCDCycle' = lastETCDCycle
    BY <1>2, Zenon DEF StopLeading, StoppedAt, etcdVars
  <2>2. startedAt' = startedAt /\ leadingStoppedAt' = now /\ now' = now
    BY <1>2, Zenon DEF StopLeading, StoppedAt
  <2> QED
    BY <2>1, <2>2 DEF ReportsOnTime
<1>3. CASE StopDNS
  BY <1>3 DEF StopDNS, etcdVars, leadVars, ReportsOnTime
<1>4. CASE StopETCD
  <2>1. ~etcd'
    BY <1>4, Zenon DEF StopETCD, DNSIsDown
  <2> QED
    BY <2>1 DEF ReportsOnTime
<1>5. CASE ETCDReports
  <2>1. etcd /\ etcdSince' = now /\ lastETCDCycle' = now /\ now' = now
    BY <1>5, Zenon DEF ETCDReports
  <2>2. UNCHANGED <<stopping, startedAt, leadingStoppedAt>>
    BY <1>5, Zenon DEF ETCDReports, leadVars
  <2> QED
    BY <2>1, <2>2, TimesAssumption DEF ReportsOnTime
<1>6. CASE SyncDNS
  BY <1>6 DEF SyncDNS, ReportDNSCycle, etcdVars, leadVars, ReportsOnTime
<1>7. CASE SyncEnds
  BY <1>7 DEF SyncEnds, etcdVars, leadVars, ReportsOnTime
<1>8. CASE ProviderHangs
  BY <1>8 DEF ProviderHangs, etcdVars, leadVars, ReportsOnTime
<1>9. CASE Tick
  BY <1>9, TimesAssumption
     DEF Tick, Since, dnsVars, etcdVars, leadVars, ReportsOnTime
<1>10. CASE UNCHANGED vars
  BY <1>10 DEF vars, dnsVars, etcdVars, leadVars, ReportsOnTime
<1> QED
  BY <1>1, <1>2, <1>3, <1>4, <1>5, <1>6, <1>7, <1>8, <1>9, <1>10 DEF Next

(* A running etcd controller was started, or has reported, less than the   *)
(* grace period ago: either way /healthz says no without leadership.       *)
LEMMA DeposedLemma == IInv => DeposedNotSyncing
<1> SUFFICES ASSUME IInv, ~isLeading, etcd, Healthy PROVE FALSE
  BY DEF IInv, StopOrder, DeposedNotSyncing
<1> USE DEF IInv, TypeOK, TimesOK
<1>1. stopping
  BY DEF StopOrder
<1>2. /\ Since(leadingStoppedAt) > 2 * gracePeriod
      /\ Since(lastETCDCycle) > gracePeriod
  BY DEF Healthy
<1>3. now <= etcdSince + EtcdCycle /\ startedAt <= leadingStoppedAt
  BY <1>1 DEF ReportsOnTime
<1>4. CASE lastETCDCycle = etcdSince
  BY <1>2, <1>3, <1>4, TimesAssumption DEF Since
<1>5. CASE etcdSince = startedAt
  BY <1>2, <1>3, <1>5, TimesAssumption DEF Since
<1> QED
  BY <1>4, <1>5 DEF ReportsOnTime

-----------------------------------------------------------------------------
(* Type correctness of the health state (dnsManage, main.go:469-517).      *)
THEOREM TypeCorrect == Spec => []TypeOK
<1>1. Init => FlagsOK
  BY DEF Init, FlagsOK
<1>2. Init => TimesOK
  BY TimesAssumption DEF Init, TimesOK
<1> QED
  BY <1>1, <1>2, FlagsOKStep, TimesOKStep, PTL DEF Spec, TypeOK

(* With leader election, an instance that lost leadership is unhealthy     *)
(* until both of its controllers have stopped (main.go:503).               *)
THEOREM DeposedNotSyncingHolds ==
    ASSUME ~Singleton
    PROVE  Spec => []DeposedNotSyncing
<1>1. Init => StopOrder /\ ReportsOnTime
  <2>1. Init => ~etcd /\ ~isLeading /\ ~stopping /\ dns = "stopped"
    BY Zenon DEF Init
  <2> QED
    BY <2>1 DEF StopOrder, ReportsOnTime
<1>2. Spec => []TypeOK
  BY TypeCorrect
<1>3. TypeOK /\ StopOrder /\ ReportsOnTime /\ [Next]_vars
      => StopOrder' /\ ReportsOnTime'
  BY StopOrderStep, ReportsOnTimeStep DEF TypeOK
<1> QED
  BY <1>1, <1>2, <1>3, DeposedLemma, PTL DEF Spec, IInv


-----------------------------------------------------------------------------
(* A quiet follower is healthy *)

(* What /healthz compares is no younger than the end of the controllers.   *)
QuietInv ==
    ~etcd => {leadingStoppedAt, lastDNSCycle, lastETCDCycle} \subseteq 0..etcdSince

LEMMA QuietInvStep ==
    TypeOK /\ TypeOK' /\ StopOrder /\ QuietInv /\ [Next]_vars => QuietInv'
<1> SUFFICES ASSUME TypeOK, TypeOK', StopOrder, QuietInv, [Next]_vars
             PROVE  QuietInv'
  OBVIOUS
<1>1. CASE UNCHANGED <<leadingStoppedAt, lastDNSCycle, lastETCDCycle, etcd, etcdSince>>
  BY <1>1 DEF QuietInv
<1>2. CASE etcd'
  BY <1>2, Zenon DEF QuietInv
<1>3. CASE StopETCD
  BY <1>3 DEF StopETCD, DNSIsDown, dnsVars, QuietInv, TypeOK, TimesOK
<1>4. ASSUME StopLeading \/ SyncDNS, ~etcd'
      PROVE  FALSE
  <2>1. etcd' = etcd
    BY <1>4, Zenon DEF StopLeading, SyncDNS, etcdVars
  <2>2. isLeading \/ dns = "waiting"
    BY <1>4, Zenon DEF StopLeading, SyncDNS
  <2>3. etcd
    BY <2>2 DEF StopOrder
  <2> QED
    BY <1>4, <2>1, <2>3, Zenon
<1>5. ASSUME StartLeading \/ ETCDReports
      PROVE  etcd'
  BY <1>5, TypeOK', Zenon DEF StartLeading, ETCDReports, TypeOK, FlagsOK
<1>6. CASE StopDNS \/ SyncEnds \/ ProviderHangs \/ Tick \/ UNCHANGED vars
  <2>1. UNCHANGED <<leadingStoppedAt, lastDNSCycle, lastETCDCycle, etcd, etcdSince>>
    BY <1>6, Zenon DEF StopDNS, SyncEnds, ProviderHangs, Tick, vars, dnsVars,
                       etcdVars, leadVars
  <2> QED
    BY <1>1, <2>1
<1> QED
  BY <1>2, <1>3, <1>4, <1>5, <1>6, Zenon DEF Next

(* For every grace period, also after a provider call hung for longer than *)
(* that and no cycle was reported.                                         *)
THEOREM QuietIsHealthyHolds ==
    ASSUME ~Singleton
    PROVE  Spec => []QuietIsHealthy
<1>1. Init => StopOrder /\ QuietInv
  <2>1. Init => ~etcd /\ ~isLeading /\ ~stopping /\ dns = "stopped"
    BY Zenon DEF Init
  <2>2. Init => {leadingStoppedAt, lastDNSCycle, lastETCDCycle}
                    \subseteq 0..etcdSince
    BY TimesAssumption DEF Init
  <2> QED
    BY <2>1, <2>2 DEF StopOrder, QuietInv
<1>2. Spec => []TypeOK
  BY TypeCorrect
<1>3. TypeOK /\ TypeOK' /\ StopOrder /\ QuietInv /\ [Next]_vars
      => StopOrder' /\ QuietInv'
  BY StopOrderStep, QuietInvStep DEF TypeOK
<1>4. TypeOK /\ QuietInv => QuietIsHealthy
  <2> SUFFICES ASSUME TypeOK, QuietInv, ~isLeading, ~etcd,
                      Since(etcdSince) > 2 * gracePeriod
               PROVE  Healthy
    BY DEF QuietIsHealthy
  <2>1. \A t \in {leadingStoppedAt, lastDNSCycle, lastETCDCycle} :
            Since(t) > 2 * gracePeriod /\ Since(t) > gracePeriod
    BY TimesAssumption DEF QuietInv, Since, TypeOK, TimesOK
  <2> QED
    BY <2>1 DEF Healthy
<1> QED
  BY <1>1, <1>2, <1>3, <1>4, PTL DEF Spec
-----------------------------------------------------------------------------
(* A leader that syncs is spared by the liveness probe *)

HangsNoted == hangs <= MaxHangs /\ (hung => hangs < MaxHangs)

(* The DNS controller reports nothing before a list has reached it.        *)
ListFirst == lastDNSCycle # 0 => wantedLBs

LeaderRuns == isLeading => dns # "stopped"

(* No timer of the sync loop is overdue, or older than its term.           *)
TimersOnTime ==
    /\ dns = "waiting" => now <= dnsSince + Interval
    /\ dns = "syncing" /\ ~hung => now <= dnsSince + MaxSync
    /\ dns # "stopped" => startedAt <= dnsSince

(* A report of this term is no earlier than the first upload's timer, and  *)
(* what the sync loop does it has begun a sync later at most.              *)
CyclesOnTime ==
    dns # "stopped" /\ startedAt < lastDNSCycle =>
        /\ startedAt + Interval <= lastDNSCycle
        /\ dns = "syncing" => dnsSince = lastDNSCycle
        /\ dns = "waiting" /\ hangs = MaxHangs => dnsSince <= lastDNSCycle + MaxSync

(* The probes fail from a grace period after a cycle until the next.       *)
FailuresInGap ==
    isLeading /\ hangs = MaxHangs /\ startedAt < lastDNSCycle /\ lastDNSCycle < now
    => failures = 0 \/ failures + gracePeriod <= now - lastDNSCycle

TimelyInv ==
    /\ TypeOK /\ StopOrder /\ ReportsOnTime /\ LeaderRuns
    /\ HangsNoted /\ ListFirst /\ TimersOnTime /\ CyclesOnTime

LEMMA HangsNotedStep ==
    ASSUME TypeOK, HangsNoted, [Next]_vars
    PROVE  HangsNoted'
<1> USE DEF TypeOK, TimesOK, HangsNoted
<1>1. CASE ProviderHangs
  <2>1. hangs' = hangs - 1
    BY <1>1, Zenon DEF ProviderHangs
  <2> QED
    BY <2>1, TimesAssumption
<1>2. CASE SyncEnds
  <2>1. ~hung' /\ hangs' = hangs
    BY <1>2, Zenon DEF SyncEnds
  <2> QED
    BY <2>1
<1>3. CASE ~ProviderHangs /\ ~SyncEnds
  <2>1. hangs' = hangs /\ hung' = hung
    BY <1>3, Zenon DEF Next, StartLeading, StopLeading, StopDNS, StopETCD,
       ETCDReports, SyncDNS, Tick, vars, dnsVars
  <2> QED
    BY <2>1
<1> QED
  BY <1>1, <1>2, <1>3

LEMMA LeaderRunsStep ==
    ASSUME FlagsOK, StopOrder, LeaderRuns, [Next]_vars
    PROVE  LeaderRuns'
<1> USE DEF LeaderRuns
<1>1. CASE StartLeading \/ StopLeading
  <2>1. dns' = "waiting" \/ ~isLeading'
    BY <1>1, Zenon DEF StartLeading, StopLeading
  <2> QED
    BY <2>1
<1>2. CASE StopDNS
  <2>1. stopping /\ isLeading' = isLeading
    BY <1>2, Zenon DEF StopDNS, leadVars
  <2> QED
    BY <2>1, Zenon DEF StopOrder
<1>3. CASE SyncDNS \/ SyncEnds
  <2>1. dns' \in {"waiting", "syncing"}
    BY <1>3 DEF SyncDNS, SyncEnds
  <2> QED
    BY <2>1
<1>4. CASE StopETCD \/ ETCDReports \/ ProviderHangs \/ Tick \/ UNCHANGED vars
  <2>1. UNCHANGED <<isLeading, dns>>
    BY <1>4, Zenon DEF StopETCD, ETCDReports, ProviderHangs, Tick, vars, dnsVars,
       leadVars
  <2> QED
    BY <2>1, Zenon
<1> QED
  BY <1>1, <1>2, <1>3, <1>4 DEF Next

LEMMA ListFirstStep ==
    ASSUME FlagsOK, ListFirst, [Next]_vars
    PROVE  ListFirst'
<1> USE DEF ListFirst
<1>1. CASE ETCDReports
  <2>1. wantedLBs'
    BY <1>1, Zenon DEF ETCDReports
  <2> QED
    BY <2>1, Zenon
<1>2. CASE SyncDNS
  <2>1. wantedLBs' = wantedLBs /\ (wantedLBs \/ lastDNSCycle' = lastDNSCycle)
    BY <1>2, Zenon DEF SyncDNS, etcdVars
  <2> QED
    BY <2>1, Zenon
<1>3. CASE ~ETCDReports /\ ~SyncDNS
  <2>1. UNCHANGED <<lastDNSCycle, wantedLBs>>
    BY <1>3, Zenon DEF Next, StartLeading, StopLeading, StopDNS, StopETCD,
       SyncEnds, ProviderHangs, Tick, vars, dnsVars, etcdVars
  <2> QED
    BY <2>1, Zenon
<1> QED
  BY <1>1, <1>2, <1>3

(* The timers of the sync loop, and what it last reported.                 *)
LEMMA CyclesStep ==
    ASSUME TimelyInv, TypeOK', HangsNoted', [Next]_vars
    PROVE  TimersOnTime' /\ CyclesOnTime'
<1>0. /\ now \in Nat /\ {hangs, Interval, MaxSync, MaxHangs} \subseteq Nat
      /\ {lastDNSCycle, dnsSince, startedAt} \subseteq 0..now
      /\ dns \in {"stopped", "waiting", "syncing"}
  BY TimesAssumption DEF TimelyInv, TypeOK, FlagsOK, TimesOK
<1> USE DEF TimersOnTime, CyclesOnTime
<1>1. CASE StartLeading
  <2>1. /\ dns' = "waiting" /\ dnsSince' = now /\ startedAt' = now
        /\ now' = now /\ lastDNSCycle' = lastDNSCycle
    BY <1>1, Zenon DEF StartLeading
  <2> QED
    BY <1>0, <2>1
<1>2. CASE StopDNS
  <2>1. dns' = "stopped"
    BY <1>2, Zenon DEF StopDNS
  <2> QED
    BY <2>1
<1>3. CASE SyncDNS
  <2>0. /\ UNCHANGED <<now, startedAt, hangs>> /\ dnsSince' = now
        /\ dns = "waiting"
    BY <1>3, Zenon DEF SyncDNS, leadVars
  <2>1. startedAt + Interval <= now
    BY <1>0, <1>3, <2>0 DEF SyncDNS, Since, TimelyInv
  <2>2. CASE wantedLBs
    <3>1. dns' = "syncing" /\ lastDNSCycle' = now
      BY <1>3, <2>2, Zenon DEF SyncDNS, ReportDNSCycle
    <3> QED
      BY <1>0, <2>0, <2>1, <3>1
  <2>3. CASE ~wantedLBs
    <3>1. dns' = "waiting" /\ lastDNSCycle' = lastDNSCycle
      BY <1>3, <2>0, <2>3, Zenon DEF SyncDNS
    <3>2. lastDNSCycle = 0
      BY <2>3, Zenon DEF TimelyInv, ListFirst
    <3> QED
      BY <1>0, <2>0, <2>1, <3>1, <3>2
  <2> QED
    BY <2>2, <2>3
<1>4. CASE SyncEnds
  <2>1. /\ dns = "syncing" /\ dns' = "waiting" /\ dnsSince' = now
        /\ UNCHANGED <<now, startedAt, hangs, lastDNSCycle>>
    BY <1>4, Zenon DEF SyncEnds, leadVars
  <2>2. hangs = MaxHangs => now <= dnsSince + MaxSync
    BY <1>0, <2>1 DEF TimelyInv, HangsNoted
  <2> QED
    BY <1>0, <2>1, <2>2 DEF TimelyInv
<1>5. CASE ProviderHangs
  <2>1. /\ dns = "syncing" /\ hung'
        /\ UNCHANGED <<now, startedAt, dns, dnsSince, lastDNSCycle>>
    BY <1>5, Zenon DEF ProviderHangs, leadVars
  <2> QED
    BY <2>1 DEF TimelyInv
<1>6. CASE Tick
  <2>1. UNCHANGED <<startedAt, dns, dnsSince, lastDNSCycle, hung, hangs>>
    BY <1>6, Zenon DEF Tick, dnsVars, leadVars
  <2>2. /\ now' = now + 1
        /\ dns = "waiting" => now' <= dnsSince + Interval
        /\ dns = "syncing" /\ ~hung => now' <= dnsSince + MaxSync
    BY <1>0, <1>6 DEF Tick, Since
  <2> QED
    BY <2>1, <2>2 DEF TimelyInv
<1>7. CASE StopLeading \/ StopETCD \/ ETCDReports \/ UNCHANGED vars
  <2>1. UNCHANGED <<now, startedAt, dns, dnsSince, lastDNSCycle, hung, hangs>>
    BY <1>7, Zenon DEF StopLeading, StopETCD, ETCDReports, vars, dnsVars, leadVars
  <2> QED
    BY <2>1 DEF TimelyInv
<1> QED
  BY <1>1, <1>2, <1>3, <1>4, <1>5, <1>6, <1>7 DEF Next

LEMMA TimelyHolds ==
    ASSUME ~Singleton
    PROVE  Spec => []TimelyInv
<1>1. Init => TimelyInv
  <2> SUFFICES ASSUME Init PROVE TimelyInv
    OBVIOUS
  <2>0. FlagsOK
    BY DEF Init, FlagsOK
  <2>1. TimesOK
    BY TimesAssumption DEF Init, TimesOK
  <2>2. ~etcd /\ ~isLeading /\ ~stopping /\ dns = "stopped" /\ ~hung
    BY Zenon DEF Init
  <2>3. lastDNSCycle = 0 /\ hangs = MaxHangs
    BY Zenon DEF Init
  <2> QED
    BY <2>0, <2>1, <2>2, <2>3, TimesAssumption
       DEF TimelyInv, TypeOK, StopOrder, ReportsOnTime, LeaderRuns, HangsNoted,
           ListFirst, TimersOnTime, CyclesOnTime
<1>2. TimelyInv /\ [Next]_vars => TimelyInv'
  <2> SUFFICES ASSUME TimelyInv, [Next]_vars PROVE TimelyInv'
    OBVIOUS
  <2>1. TypeOK'
    BY FlagsOKStep, TimesOKStep DEF TimelyInv, TypeOK
  <2>2. StopOrder' /\ ReportsOnTime'
    BY StopOrderStep, ReportsOnTimeStep DEF TimelyInv, TypeOK
  <2>3. HangsNoted' /\ ListFirst' /\ LeaderRuns'
    BY HangsNotedStep, ListFirstStep, LeaderRunsStep DEF TimelyInv, TypeOK
  <2> QED
    BY <2>1, <2>2, <2>3, CyclesStep DEF TimelyInv
<1> QED
  BY <1>1, <1>2, PTL DEF Spec

(* Once the DNS controller cycles, the etcd controller has reported in     *)
(* time, so that only the gap between two cycles makes a probe fail.       *)
LEMMA UnhealthyInGap ==
    ASSUME EtcdCycle < Interval, TimelyInv, isLeading, startedAt < lastDNSCycle,
           ~Healthy
    PROVE  gracePeriod <= now - lastDNSCycle
<1>0. /\ now \in Nat /\ {Interval, EtcdCycle, gracePeriod} \subseteq Nat
      /\ {lastDNSCycle, lastETCDCycle, etcdSince, startedAt} \subseteq 0..now
  BY TimesAssumption DEF TimelyInv, TypeOK, TimesOK
<1>1. etcd /\ dns # "stopped"
  BY DEF TimelyInv, StopOrder, LeaderRuns
<1>2. startedAt + Interval <= lastDNSCycle
  BY <1>1 DEF TimelyInv, CyclesOnTime
<1>3. now <= etcdSince + EtcdCycle
  BY <1>1 DEF TimelyInv, ReportsOnTime
<1>4. lastETCDCycle = etcdSince
  BY <1>0, <1>1, <1>2, <1>3 DEF TimelyInv, ReportsOnTime
<1>5. Since(lastETCDCycle) < gracePeriod
  BY <1>0, <1>3, <1>4, TimesAssumption DEF Since
<1>6. ~(Since(lastDNSCycle) < gracePeriod)
  BY <1>5 DEF Healthy
<1> QED
  BY <1>0, <1>6 DEF Since

LEMMA FailuresStep ==
    ASSUME EtcdCycle < Interval, TimelyInv, TypeOK', HangsNoted', FailuresInGap,
           [Next]_vars
    PROVE  FailuresInGap'
<1>0. /\ now \in Nat /\ {failures, gracePeriod} \subseteq Nat
      /\ {lastDNSCycle, startedAt} \subseteq 0..now
  BY TimesAssumption DEF TimelyInv, TypeOK, TimesOK
<1>1. CASE StartLeading \/ SyncDNS
  <2>1. now' = now /\ (lastDNSCycle' = lastDNSCycle \/ lastDNSCycle' = now)
    BY <1>1, Zenon DEF StartLeading, SyncDNS, ReportDNSCycle
  <2>2. UNCHANGED <<isLeading, hangs, startedAt, failures>> \/ failures' = 0
    BY <1>1, Zenon DEF StartLeading, SyncDNS, leadVars
  <2>3. CASE failures' = 0
    BY <2>3 DEF FailuresInGap
  <2>4. CASE lastDNSCycle' = now
    BY <1>0, <2>1, <2>4 DEF FailuresInGap
  <2>5. CASE UNCHANGED <<now, isLeading, hangs, startedAt, failures, lastDNSCycle>>
    BY <2>5, Zenon DEF FailuresInGap
  <2> QED
    BY <2>1, <2>2, <2>3, <2>4, <2>5, Zenon
<1>2. CASE StopLeading
  <2>1. ~isLeading'
    BY <1>2, Zenon DEF StopLeading
  <2> QED
    BY <2>1 DEF FailuresInGap
<1>3. CASE ProviderHangs
  <2>1. hangs' # MaxHangs
    <3>1. hung' /\ hangs' \in Nat
      BY <1>3, Zenon DEF ProviderHangs, TypeOK, TimesOK
    <3> QED
      BY <3>1, TimesAssumption DEF HangsNoted
  <2> QED
    BY <2>1 DEF FailuresInGap
<1>4. CASE Tick
  <2>1. /\ UNCHANGED <<isLeading, hangs, startedAt, lastDNSCycle>>
        /\ now' = now + 1
        /\ Healthy => failures' = 0
        /\ failures' \in {0, failures, failures + 1}
    BY <1>4, Zenon DEF Tick, dnsVars, leadVars
  <2> SUFFICES ASSUME isLeading', hangs' = MaxHangs, startedAt' < lastDNSCycle',
                      failures' # 0
               PROVE  failures' + gracePeriod <= now' - lastDNSCycle'
    BY DEF FailuresInGap
  <2>2. isLeading /\ hangs = MaxHangs /\ startedAt < lastDNSCycle /\ ~Healthy
    BY <2>1, Zenon
  <2>3. gracePeriod <= now - lastDNSCycle
    BY <2>2, UnhealthyInGap
  <2>4. failures = 0 \/ failures + gracePeriod <= now - lastDNSCycle
    BY <1>0, <2>2, <2>3, TimesAssumption DEF FailuresInGap
  <2> QED
    BY <1>0, <2>1, <2>3, <2>4
<1>5. CASE StopDNS \/ StopETCD \/ ETCDReports \/ SyncEnds \/ UNCHANGED vars
  <2>1. UNCHANGED <<isLeading, failures, now, startedAt, lastDNSCycle, hangs>>
    BY <1>5, Zenon DEF StopDNS, StopETCD, ETCDReports, SyncEnds, vars, dnsVars,
       leadVars
  <2> QED
    BY <2>1 DEF FailuresInGap
<1> QED
  BY <1>1, <1>2, <1>3, <1>4, <1>5 DEF Next

(* From its first cycle on the probe spares a leader whose provider calls  *)
(* return, in every term, where the gap between two cycles is shorter than *)
(* the grace period and the failures the probe tolerates; the shipped      *)
(* values (60 s, one minute, three probes 5 s apart) leave a sync 10 s.    *)
THEOREM ProbeSparesSyncingHolds ==
    ASSUME ~Singleton, EtcdCycle < Interval,
           Interval + MaxSync < gracePeriod + Failures
    PROVE  Spec => []ProbeSparesSyncing
<1>1. Init => FailuresInGap
  <2>1. Init => ~isLeading
    BY Zenon DEF Init
  <2> QED
    BY <2>1 DEF FailuresInGap
<1>2. TimelyInv /\ TimelyInv' /\ FailuresInGap /\ [Next]_vars => FailuresInGap'
  BY FailuresStep DEF TimelyInv
<1>3. TimelyInv /\ FailuresInGap => ProbeSparesSyncing
  <2> SUFFICES ASSUME TimelyInv, FailuresInGap, isLeading, hangs = MaxHangs,
                      startedAt < lastDNSCycle, lastDNSCycle < now
               PROVE  failures < Failures
    BY DEF ProbeSparesSyncing
  <2>0. /\ {now, hangs, failures, lastDNSCycle, dnsSince} \subseteq Nat
        /\ dns \in {"stopped", "waiting", "syncing"} /\ dns # "stopped"
    BY DEF TimelyInv, TypeOK, FlagsOK, TimesOK, LeaderRuns
  <2>1. now <= lastDNSCycle + Interval + MaxSync
    <3>1. CASE dns = "waiting"
      BY <2>0, <3>1, TimesAssumption DEF TimelyInv, TimersOnTime, CyclesOnTime
    <3>2. CASE dns = "syncing"
      BY <2>0, <3>2, TimesAssumption
         DEF TimelyInv, TimersOnTime, CyclesOnTime, HangsNoted
    <3> QED
      BY <2>0, <3>1, <3>2
  <2>2. failures = 0 \/ failures + gracePeriod <= now - lastDNSCycle
    BY DEF FailuresInGap
  <2> QED
    BY <2>0, <2>1, <2>2, TimesAssumption
<1>4. Spec => []TimelyInv
  BY TimelyHolds
<1> QED
  BY <1>1, <1>2, <1>3, <1>4, PTL DEF Spec
=============================================================================
