----------------------- MODULE ETCDController_proofs -----------------------
(***************************************************************************)
(* What the etcd controller guarantees for any number of agents, checks    *)
(* and load balancers.                                                     *)
(***************************************************************************)
EXTENDS ETCDController, FiniteSetTheorems, TLAPS

Kinds == {"change", "crash", "read", "write", "meddle", "all"}

(* A budget is spent from one kind and stays a budget.                     *)
LEMMA SpendType ==
    ASSUME NEW kind \in Kinds, budget \in [Kinds -> Nat], Spend(kind)
    PROVE  budget' \in [Kinds -> Nat]
<1>1. "all" \in Kinds
  BY DEF Kinds
<1>2. budget[kind] - 1 \in Nat /\ budget["all"] - 1 \in Nat
  BY <1>1 DEF Spend
<1> QED
  BY <1>1, <1>2 DEF Spend

LEMMA WantedMonitorsType == WantedMonitors \in SUBSET Check
BY ConstantsAssumption DEF WantedMonitors

(* The healthy checks of a report with one address can be counted.         *)
LEMMA VotesType ==
    ASSUME NEW r \in SUBSET Check, NEW x
    PROVE  /\ IsFiniteSet({c \in r : AddressOf[c] = x})
           /\ Cardinality({c \in r : AddressOf[c] = x}) \in Nat
<1> DEFINE V == {c \in r : AddressOf[c] = x}
<1>1. V \in SUBSET Check
  OBVIOUS
<1>2. IsFiniteSet(V)
  BY <1>1, ConstantsAssumption, FS_Subset
<1> QED
  BY <1>2, FS_CardinalityType

(* What syncStatus computes is a list, and none of its entries is empty.   *)
LEMMA LoadbalancersType ==
    ASSUME NEW votes
    PROVE  /\ Loadbalancers(votes) \in List
           /\ Loadbalancers(votes) # NULL
           /\ \A lb \in DOMAIN Loadbalancers(votes) :
                /\ lb \in LB
                /\ Loadbalancers(votes)[lb] = HealthyEndpoints(lb, votes)
                /\ Loadbalancers(votes)[lb] # {}
           /\ \A lb \in LB : HealthyEndpoints(lb, votes) # {} =>
                                lb \in DOMAIN Loadbalancers(votes)
<1> DEFINE S == {lb \in LB : HealthyEndpoints(lb, votes) # {}}
<1>0. \A lb \in LB : HealthyEndpoints(lb, votes) \in SUBSET Check
  BY ConstantsAssumption DEF HealthyEndpoints
<1>1. \A lb \in S : HealthyEndpoints(lb, votes) \in (SUBSET Check) \ {{}}
  BY <1>0
<1>2. Loadbalancers(votes) \in [S -> (SUBSET Check) \ {{}}]
  BY <1>1 DEF Loadbalancers
<1>3. S \in SUBSET LB
  OBVIOUS
<1>4. Loadbalancers(votes) \in List
  BY <1>2, <1>3 DEF List
<1>5. Loadbalancers(votes) # NULL
  BY <1>4, ConstantsAssumption
<1> HIDE DEF S
<1>6. Loadbalancers(votes) = [lb \in S |-> HealthyEndpoints(lb, votes)]
  BY DEF Loadbalancers, S
<1>7. \A lb : lb \in S <=> lb \in LB /\ HealthyEndpoints(lb, votes) # {}
  BY DEF S
<1> QED
  BY <1>4, <1>5, <1>6, <1>7

(* Whatever becomes of a report, the history stays well-typed.             *)
LEMMA PutReportType ==
    ASSUME TypeOK, NEW ag \in Agent, NEW r \in {NULL} \cup SUBSET Check,
           PutReport(ag, r)
    PROVE  /\ reports' \in [Agent -> {NULL} \cup SUBSET Check]
           /\ everHealthy' \in [Agent -> SUBSET Check]
           /\ alwaysHealthy' \in [Agent -> SUBSET Check]
BY DEF PutReport, TypeOK

-----------------------------------------------------------------------------
(* Type correctness *)

LEMMA InitTypeOK == Init => TypeOK
BY ConstantsAssumption, WantedMonitorsType DEF Init, TypeOK, NoVotes

LEMMA StatusStepTypeOK == TypeOK /\ StatusStep => TypeOK'
<1> SUFFICES ASSUME TypeOK, StatusStep PROVE TypeOK'
  OBVIOUS
<1>0. Len(Agents) \in Nat /\ \A i \in 1..Len(Agents) : Agents[i] \in Agent
  BY ConstantsAssumption
<1>1. CASE StartSync
  <2>1. \A ag \in Agent : Healthy(ag) \in SUBSET Check
    BY DEF TypeOK, Healthy
  <2>2. next' \in 1..(Len(Agents) + 1)
    BY <1>0, <1>1 DEF StartSync
  <2> QED
    BY <1>1, <2>1, <2>2 DEF StartSync, VotesAtStart, TypeOK, NoVotes, monitorVars, agentVars
<1>2. CASE ReadAgent
  <2>1. next' \in 1..(Len(Agents) + 1) /\ Agents[next] \in Agent
    BY <1>0, <1>2 DEF ReadAgent, TypeOK
  <2>2. reports[Agents[next]] \in SUBSET Check
    BY <1>2, <2>1 DEF ReadAgent, TypeOK
  <2> DEFINE n(x) == Cardinality({c \in reports[Agents[next]] : AddressOf[c] = x})
  <2>3. endpointToHealthy' \in [Address -> Nat]
    <3>1. \A x \in Address : n(x) \in Nat
      BY <2>2, VotesType
    <3>2. endpointToHealthy' = [x \in Address |-> endpointToHealthy[x] + n(x)]
      BY <1>2 DEF ReadAgent
    <3> HIDE DEF n
    <3> QED
      BY <3>1, <3>2 DEF TypeOK
  <2> QED
    BY <1>2, <2>1, <2>3 DEF ReadAgent, TypeOK, monitorVars, agentVars, history
<1>3. CASE ReadAgentFails
  <2>1. next' \in 1..(Len(Agents) + 1) /\ Agents[next] \in Agent
    BY <1>0, <1>3 DEF ReadAgentFails, TypeOK
  <2>2. budget' \in [Kinds -> Nat]
    BY <1>3, SpendType DEF ReadAgentFails, TypeOK, Kinds
  <2>3. alwaysHealthy' \in [Agent -> SUBSET Check]
    BY <1>3 DEF ReadAgentFails, TypeOK
  <2> QED
    BY <1>3, <2>1, <2>2, <2>3
       DEF ReadAgentFails, AfterReadFailure, TypeOK, monitorVars, agentVars, Kinds
<1>4. CASE SendList
  BY <1>4, LoadbalancersType
     DEF SendList, TypeOK, monitorVars, agentVars, history
<1> QED
  BY <1>1, <1>2, <1>3, <1>4 DEF StatusStep

LEMMA MonitorStepTypeOK == TypeOK /\ MonitorStep => TypeOK'
<1> SUFFICES ASSUME TypeOK, MonitorStep PROVE TypeOK'
  OBVIOUS
<1> USE DEF TypeOK, statusVars, agentVars, history
<1>1. CASE GetMonitors
  BY <1>1 DEF GetMonitors
<1>2. CASE GetMonitorsFails
  <2>1. budget' \in [Kinds -> Nat]
    BY <1>2, SpendType DEF GetMonitorsFails, Kinds
  <2> QED
    BY <1>2, <2>1 DEF GetMonitorsFails, Kinds
<1>3. CASE SetMonitors
  BY <1>3, WantedMonitorsType DEF SetMonitors, HashAfterSet
<1>4. CASE SetMonitorsFails
  <2>1. budget' \in [Kinds -> Nat]
    BY <1>4, SpendType DEF SetMonitorsFails, Kinds
  <2> QED
    BY <1>4, <2>1, WantedMonitorsType DEF SetMonitorsFails, Kinds
<1> QED
  BY <1>1, <1>2, <1>3, <1>4 DEF MonitorStep

LEMMA EnvironmentTypeOK == TypeOK /\ Environment => TypeOK'
<1> SUFFICES ASSUME TypeOK, Environment PROVE TypeOK'
  OBVIOUS
<1>1. ASSUME NEW ag \in Agent, AgentReports(ag) PROVE TypeOK'
  <2> DEFINE r == IF monitors = NULL THEN {} ELSE monitors \cap reachable[ag]
  <2>1. r \in {NULL} \cup SUBSET Check
    BY DEF TypeOK
  <2>2. PutReport(ag, r)
    BY <1>1 DEF AgentReports
  <2> HIDE DEF r
  <2> QED
    BY <1>1, <2>1, <2>2, PutReportType
       DEF AgentReports, TypeOK, statusVars, monitorVars, agentVars
<1>2. ASSUME NEW ag \in Agent, ReportExpires(ag) PROVE TypeOK'
  <2>1. budget' \in [Kinds -> Nat]
    BY <1>2, SpendType DEF ReportExpires, TypeOK, Kinds
  <2>2. PutReport(ag, NULL)
    BY <1>2 DEF ReportExpires
  <2> QED
    BY <1>2, <2>1, <2>2, PutReportType
       DEF ReportExpires, TypeOK, statusVars, monitorVars, agentVars, Kinds
<1>3. ASSUME NEW ag \in Agent, AgentCrashes(ag) PROVE TypeOK'
  <2>1. budget' \in [Kinds -> Nat]
    BY <1>3, SpendType DEF AgentCrashes, TypeOK, Kinds
  <2> QED
    BY <1>3, <2>1 DEF AgentCrashes, TypeOK, statusVars, monitorVars, history, Kinds
<1>4. ASSUME NEW ag \in Agent, NEW checks \in SUBSET Check,
             ReachabilityChanges(ag, checks)
      PROVE  TypeOK'
  <2>1. budget' \in [Kinds -> Nat]
    BY <1>4, SpendType DEF ReachabilityChanges, TypeOK, Kinds
  <2> QED
    BY <1>4, <2>1
       DEF ReachabilityChanges, TypeOK, statusVars, monitorVars, history, Kinds
<1>5. ASSUME NEW m \in OtherMonitors \cup {NULL}, Meddle(m) PROVE TypeOK'
  <2>1. budget' \in [Kinds -> Nat]
    BY <1>5, SpendType DEF Meddle, TypeOK, Kinds
  <2> QED
    BY <1>5, <2>1, ConstantsAssumption
       DEF Meddle, TypeOK, statusVars, monitorVars, agentVars, history, Kinds
<1> QED
  BY <1>1, <1>2, <1>3, <1>4, <1>5 DEF Environment

LEMMA NextTypeOK == TypeOK /\ [Next]_vars => TypeOK'
<1>1. TypeOK /\ UNCHANGED vars => TypeOK'
  BY DEF TypeOK, vars, statusVars, monitorVars, agentVars, history
<1> QED
  BY <1>1, StatusStepTypeOK, MonitorStepTypeOK, EnvironmentTypeOK DEF Next

(* Type correctness.  Besides the types: monitorLoop never takes anything  *)
(* but its own monitors for what it wrote last (lastMonitorHash), and no   *)
(* list holds a load balancer without endpoints.                           *)
THEOREM TypeCorrect == Spec => []TypeOK
<1>1. Init => TypeOK
  BY InitTypeOK
<1>2. TypeOK /\ [Next]_vars => TypeOK'
  BY NextTypeOK
<1> QED
  BY <1>1, <1>2, PTL DEF Spec

-----------------------------------------------------------------------------
(* Votes and the reports they were counted from                            *)

ReadBefore(n, ag) == \E i \in DOMAIN Agents : i < n /\ Agents[i] = ag

(* The agents read before the n-th for which x is among the addresses of f.*)
ReadVoters(f, n, x) ==
    {ag \in Agent : ReadBefore(n, ag) /\ x \in Addresses(f[ag])}

(* One more element makes a finite set larger by at most one.              *)
LEMMA OneMore ==
    ASSUME NEW S, IsFiniteSet(S), Cardinality(S) \in Nat, NEW e
    PROVE  /\ Cardinality(S \cup {e}) <= Cardinality(S) + 1
           /\ e \notin S => Cardinality(S \cup {e}) = Cardinality(S) + 1
<1>1. CASE e \in S
  <2>1. Cardinality(S \cup {e}) = Cardinality(S)
    BY <1>1, FS_AddElement
  <2> QED
    BY <1>1, <2>1
<1>2. CASE e \notin S
  <2>1. Cardinality(S \cup {e}) = Cardinality(S) + 1
    BY <1>2, FS_AddElement
  <2> QED
    BY <2>1
<1> QED
  BY <1>1, <1>2

(* A subset of the agents is finite and no larger than its supersets.      *)
LEMMA AgentSets ==
    ASSUME NEW T \in SUBSET Agent, NEW S \in SUBSET T
    PROVE  /\ IsFiniteSet(S) /\ IsFiniteSet(T)
           /\ Cardinality(S) \in Nat /\ Cardinality(T) \in Nat
           /\ Cardinality(S) <= Cardinality(T)
<1>1. IsFiniteSet(T)
  BY ConstantsAssumption, FS_Subset
<1> QED
  BY <1>1, FS_Subset, FS_CardinalityType

(* Every report is covered by the history, and covers what was always so.  *)
HistoryInv ==
    /\ \A ag \in Agent : alwaysHealthy[ag] \subseteq Healthy(ag)
    /\ pc = "read" => \A ag \in Agent : Healthy(ag) \subseteq everHealthy[ag]

(* No address has more votes than agents that were read and once reported  *)
(* it healthy.                                                             *)
AtMost ==
    pc = "read" => \A x \in Address :
        endpointToHealthy[x] <= Cardinality(ReadVoters(everHealthy, next, x))

(* Every agent that was read and always reported an address healthy has    *)
(* given it a vote.                                                        *)
AtLeast ==
    pc = "read" => \A x \in Address :
        Cardinality(ReadVoters(alwaysHealthy, next, x)) <= endpointToHealthy[x]

(* A report that changes between two reads moves the history outwards.     *)
LEMMA PutReportHistory ==
    ASSUME TypeOK, HistoryInv, NEW ag \in Agent, NEW r \in {NULL} \cup SUBSET Check,
           PutReport(ag, r), UNCHANGED pc
    PROVE  /\ HistoryInv'
           /\ \A a \in Agent : /\ everHealthy[a] \subseteq everHealthy'[a]
                               /\ alwaysHealthy'[a] \subseteq alwaysHealthy[a]
BY DEF PutReport, HistoryInv, Healthy, TypeOK

(* The steps of other goroutines and agents leave the votes alone and move *)
(* the history outwards at most.                                           *)
LEMMA OtherSteps ==
    ASSUME TypeOK, HistoryInv, MonitorStep \/ Environment \/ UNCHANGED vars
    PROVE  /\ HistoryInv'
           /\ UNCHANGED <<pc, next, endpointToHealthy>>
           /\ \A a \in Agent : /\ everHealthy[a] \subseteq everHealthy'[a]
                               /\ alwaysHealthy'[a] \subseteq alwaysHealthy[a]
<1>1. ASSUME UNCHANGED <<reports, everHealthy, alwaysHealthy, pc>>
      PROVE  HistoryInv'
  BY <1>1 DEF HistoryInv, Healthy
<1>2. CASE MonitorStep \/ UNCHANGED vars
  BY <1>1, <1>2 DEF MonitorStep, GetMonitors, GetMonitorsFails, SetMonitors,
       SetMonitorsFails, vars, statusVars, history
<1>3. ASSUME NEW ag \in Agent, AgentReports(ag) \/ ReportExpires(ag)
      PROVE  /\ HistoryInv'
             /\ \A a \in Agent : /\ everHealthy[a] \subseteq everHealthy'[a]
                                 /\ alwaysHealthy'[a] \subseteq alwaysHealthy[a]
  <2>1. CASE ReportExpires(ag)
    BY <2>1, PutReportHistory DEF ReportExpires, statusVars
  <2>2. CASE AgentReports(ag)
    <3> DEFINE r == IF monitors = NULL THEN {} ELSE monitors \cap reachable[ag]
    <3>1. r \in {NULL} \cup SUBSET Check
      BY DEF TypeOK
    <3>2. PutReport(ag, r) /\ UNCHANGED pc
      BY <2>2 DEF AgentReports, statusVars
    <3> HIDE DEF r
    <3> QED
      BY <3>1, <3>2, PutReportHistory
  <2> QED
    BY <1>3, <2>1, <2>2
<1>4. CASE Environment
  <2>1. UNCHANGED <<pc, next, endpointToHealthy>>
    BY <1>4 DEF Environment, AgentReports, ReportExpires, AgentCrashes,
                ReachabilityChanges, Meddle, statusVars
  <2>2. ASSUME NEW ag \in Agent, NEW checks, ReachabilityChanges(ag, checks)
        PROVE  UNCHANGED <<reports, everHealthy, alwaysHealthy, pc>>
    BY <2>2 DEF ReachabilityChanges, statusVars, history
  <2>3. ASSUME NEW m, Meddle(m)
        PROVE  UNCHANGED <<reports, everHealthy, alwaysHealthy, pc>>
    BY <2>3 DEF Meddle, statusVars, history
  <2>4. ASSUME NEW ag \in Agent, AgentCrashes(ag)
        PROVE  UNCHANGED <<reports, everHealthy, alwaysHealthy, pc>>
    BY <2>4 DEF AgentCrashes, statusVars, history
  <2> QED
    BY <1>1, <1>3, <1>4, <2>1, <2>2, <2>3, <2>4 DEF Environment
<1> QED
  BY <1>2, <1>4
     DEF MonitorStep, GetMonitors, GetMonitorsFails, SetMonitors,
         SetMonitorsFails, vars, statusVars, history

LEMMA StatusStepHistory ==
    ASSUME TypeOK, HistoryInv, StatusStep
    PROVE  HistoryInv'
<1>0. \A i \in 1..Len(Agents) : Agents[i] \in Agent
  BY ConstantsAssumption
<1>1. CASE StartSync
  BY <1>1 DEF StartSync, HistoryInv, Healthy, TypeOK
<1>2. CASE ReadAgent
  BY <1>2 DEF ReadAgent, HistoryInv, Healthy, history
<1>3. CASE ReadAgentFails
  <2>1. \A ag \in Agent : alwaysHealthy'[ag] \subseteq alwaysHealthy[ag]
    BY <1>3 DEF ReadAgentFails, TypeOK
  <2> QED
    BY <1>3, <2>1 DEF ReadAgentFails, HistoryInv, Healthy
<1>4. CASE SendList
  BY <1>4 DEF SendList, HistoryInv, Healthy, history
<1> QED
  BY <1>1, <1>2, <1>3, <1>4 DEF StatusStep

LEMMA NextHistoryInv == TypeOK /\ HistoryInv /\ [Next]_vars => HistoryInv'
BY StatusStepHistory, OtherSteps DEF Next

LEMMA InitHistoryInv == Init => HistoryInv
BY DEF Init, HistoryInv, Healthy

(* Nobody has been read before the first agent.                            *)
LEMMA ReadVotersInitially ==
    ASSUME NEW f, NEW x
    PROVE  ReadVoters(f, 1, x) = {}
<1>1. \A i \in DOMAIN Agents : ~(i < 1)
  BY ConstantsAssumption
<1> QED
  BY <1>1 DEF ReadVoters, ReadBefore

(* Reading agent n adds that agent to those read, and no other.            *)
LEMMA ReadBeforeNext ==
    ASSUME NEW n \in 1..Len(Agents), NEW ag
    PROVE  ReadBefore(n + 1, ag) <=> ReadBefore(n, ag) \/ ag = Agents[n]
<1>1. DOMAIN Agents = 1..Len(Agents) /\ Len(Agents) \in Nat
  BY ConstantsAssumption
<1>2. \A i \in 1..Len(Agents) : i < n + 1 <=> i < n \/ i = n
  BY <1>1
<1> QED
  BY <1>1, <1>2 DEF ReadBefore

(* The agents with x among what they reported, when f grows.               *)
LEMMA ReadVotersGrow ==
    ASSUME NEW f, NEW g, NEW n, NEW x,
           \A ag \in Agent : f[ag] \subseteq g[ag]
    PROVE  /\ ReadVoters(f, n, x) \subseteq ReadVoters(g, n, x)
           /\ ReadVoters(g, n, x) \subseteq Agent
           /\ Cardinality(ReadVoters(f, n, x)) \in Nat
           /\ Cardinality(ReadVoters(g, n, x)) \in Nat
           /\ Cardinality(ReadVoters(f, n, x)) <= Cardinality(ReadVoters(g, n, x))
<1>1. ReadVoters(f, n, x) \subseteq ReadVoters(g, n, x)
  BY DEF ReadVoters, Addresses
<1>2. ReadVoters(g, n, x) \subseteq Agent
  BY DEF ReadVoters
<1> QED
  BY <1>1, <1>2, AgentSets

(* The votes one report adds for x.                                        *)
Added(r, x) == Cardinality({c \in r : AddressOf[c] = x})

LEMMA AddedVotes ==
    ASSUME NEW r \in SUBSET Check, NEW x
    PROVE  /\ Added(r, x) \in Nat
           /\ x \in Addresses(r) <=> Added(r, x) >= 1
           /\ (\A c, d \in Check : AddressOf[c] = AddressOf[d] => c = d)
                => Added(r, x) <= 1
<1> DEFINE V == {c \in r : AddressOf[c] = x}
<1>1. IsFiniteSet(V) /\ Cardinality(V) \in Nat
  BY VotesType
<1>2. x \in Addresses(r) <=> V # {}
  BY DEF Addresses
<1>3. Cardinality(V) = 0 <=> V = {}
  BY <1>1, FS_EmptySet
<1>4. ASSUME \A c, d \in Check : AddressOf[c] = AddressOf[d] => c = d
      PROVE  Cardinality(V) <= 1
  <2>1. CASE V = {}
    BY <2>1, <1>1, <1>3
  <2>2. CASE V # {}
    <3>1. PICK c \in V : TRUE
      BY <2>2
    <3>2. V = {c}
      BY <3>1, <1>4
    <3> QED
      BY <3>2, FS_Singleton
  <2> QED
    BY <2>1, <2>2
<1> QED
  BY <1>1, <1>2, <1>3, <1>4 DEF Added

-----------------------------------------------------------------------------
(* The majority of the agents                                              *)

LEMMA NextAtLeast == TypeOK /\ HistoryInv /\ AtLeast /\ [Next]_vars => AtLeast'
<1> SUFFICES ASSUME TypeOK, HistoryInv, AtLeast, [Next]_vars, (pc = "read")',
                    NEW x \in Address
             PROVE  Cardinality(ReadVoters(alwaysHealthy', next', x))
                        <= endpointToHealthy'[x]
  BY DEF AtLeast
<1> DEFINE S == ReadVoters(alwaysHealthy, next, x)
           T == ReadVoters(alwaysHealthy', next', x)
           ag == Agents[next]
<1>1. CASE MonitorStep \/ Environment \/ UNCHANGED vars
  <2>1. /\ UNCHANGED <<pc, next, endpointToHealthy>>
        /\ \A a \in Agent : alwaysHealthy'[a] \subseteq alwaysHealthy[a]
    BY <1>1, OtherSteps
  <2>2. /\ Cardinality(T) <= Cardinality(S)
        /\ Cardinality(T) \in Nat /\ Cardinality(S) \in Nat
    BY <2>1, ReadVotersGrow
  <2>3. Cardinality(S) <= endpointToHealthy[x] /\ endpointToHealthy[x] \in Nat
    BY <2>1 DEF AtLeast, TypeOK
  <2> QED
    BY <2>1, <2>2, <2>3
<1>2. CASE StartSync
  BY <1>2, ReadVotersInitially, FS_EmptySet DEF StartSync, VotesAtStart, NoVotes
<1>3. CASE ReadAgent
  <2> DEFINE r == reports[ag]
  <2>1. next \in 1..Len(Agents) /\ ag \in Agent /\ r \in SUBSET Check
    BY <1>3, ConstantsAssumption DEF ReadAgent, TypeOK
  <2>2. /\ endpointToHealthy[x] \in Nat
        /\ endpointToHealthy'[x] = endpointToHealthy[x] + Added(r, x)
    BY <1>3 DEF ReadAgent, Added, TypeOK
  <2>3. Cardinality(S) \in Nat /\ IsFiniteSet(S)
        /\ Cardinality(S) <= endpointToHealthy[x]
    <3>1. S \in SUBSET Agent
      BY DEF ReadVoters
    <3> QED
      BY <1>3, <3>1, AgentSets DEF AtLeast, ReadAgent
  <2>4. alwaysHealthy' = alwaysHealthy /\ next' = next + 1
    BY <1>3 DEF ReadAgent, history
  <2>5. T \subseteq S \cup {ag}
    BY <2>1, <2>4, ReadBeforeNext DEF ReadVoters
  <2>6. CASE x \in Addresses(r)
    <3>1. Added(r, x) \in Nat /\ Added(r, x) >= 1
      BY <2>1, <2>6, AddedVotes
    <3>2. S \cup {ag} \in SUBSET Agent
      BY <2>1 DEF ReadVoters
    <3>3. Cardinality(T) <= Cardinality(S \cup {ag}) /\ Cardinality(T) \in Nat
      BY <2>5, <3>2, AgentSets
    <3>4. Cardinality(S \cup {ag}) <= Cardinality(S) + 1
      BY <2>3, OneMore
    <3>5. Cardinality(S \cup {ag}) \in Nat
      BY <3>2, AgentSets
    <3> QED
      BY <2>2, <2>3, <3>1, <3>3, <3>4, <3>5
  <2>7. CASE x \notin Addresses(r)
    <3>1. x \notin Addresses(alwaysHealthy'[ag])
      BY <1>3, <2>1, <2>4, <2>7 DEF HistoryInv, Healthy, ReadAgent, Addresses
    <3>2. T \subseteq S
      BY <2>4, <2>5, <3>1 DEF ReadVoters
    <3>3. Cardinality(T) <= Cardinality(S) /\ Cardinality(T) \in Nat
      BY <3>2, AgentSets DEF ReadVoters
    <3>4. Added(r, x) \in Nat
      BY <2>1, AddedVotes
    <3> QED
      BY <2>2, <2>3, <3>3, <3>4
  <2> QED
    BY <2>6, <2>7
<1>4. CASE ReadAgentFails
  <2>1. next \in 1..Len(Agents) /\ ag \in Agent /\ next' = next + 1
    BY <1>4, ConstantsAssumption DEF ReadAgentFails, TypeOK
  <2>2. alwaysHealthy' = [alwaysHealthy EXCEPT ![ag] = {}]
    BY <1>4 DEF ReadAgentFails
  <2>3. alwaysHealthy'[ag] = {}
    BY <2>1, <2>2 DEF TypeOK
  <2>4. T \subseteq S
    <3>1. ASSUME NEW a \in T PROVE a \in S
      <4>1. a \in Agent /\ x \in Addresses(alwaysHealthy'[a])
        BY DEF ReadVoters
      <4>2. a # ag
        BY <2>3, <4>1 DEF Addresses
      <4>3. ReadBefore(next, a)
        BY <2>1, <4>1, <4>2, ReadBeforeNext DEF ReadVoters
      <4>4. alwaysHealthy'[a] = alwaysHealthy[a]
        BY <2>2, <4>1, <4>2 DEF TypeOK
      <4> QED
        BY <4>1, <4>3, <4>4 DEF ReadVoters
    <3> QED
      BY <3>1
  <2>5. /\ Cardinality(T) <= Cardinality(S)
        /\ Cardinality(T) \in Nat /\ Cardinality(S) \in Nat
    BY <2>4, AgentSets DEF ReadVoters
  <2>6. Cardinality(S) <= endpointToHealthy[x]
    BY <1>4 DEF AtLeast, ReadAgentFails
  <2>7. endpointToHealthy' = endpointToHealthy /\ endpointToHealthy[x] \in Nat
    BY <1>4 DEF ReadAgentFails, TypeOK
  <2> QED
    BY <2>5, <2>6, <2>7
<1>5. CASE SendList
  BY <1>5 DEF SendList
<1> QED
  BY <1>1, <1>2, <1>3, <1>4, <1>5 DEF Next, StatusStep

(* Once all agents are read, those read are the configured ones.           *)
LEMMA AllRead ==
    ASSUME TypeOK, next > Len(Agents), NEW f, NEW x
    PROVE  /\ ReadVoters(f, next, x) = Voters(f, x)
           /\ Cardinality(Voters(f, x)) \in Nat
<1>1. DOMAIN Agents = 1..Len(Agents) /\ Len(Agents) \in Nat
  BY ConstantsAssumption
<1>2. \A i \in DOMAIN Agents : i < next
  BY <1>1 DEF TypeOK
<1>3. ReadVoters(f, next, x) = Voters(f, x)
  BY <1>2 DEF ReadVoters, ReadBefore, Voters
<1>4. Voters(f, x) \in SUBSET Agent
  BY DEF Voters
<1> QED
  BY <1>3, <1>4, AgentSets

LEMMA HalfOfAgents ==
    ASSUME NEW n \in Nat
    PROVE  n > Len(Agents) \div 2 <=> 2 * n > Len(Agents)
<1>1. Len(Agents) \in Nat
  BY ConstantsAssumption
<1> QED
  BY <1>1

LEMMA SendListMajorityListed ==
    ASSUME TypeOK, AtLeast, SendList, NEW lb \in LB, NEW c \in Wanted[lb],
           AgentMajority(Voters(alwaysHealthy, AddressOf[c]))
    PROVE  lb \in DOMAIN current' /\ c \in current'[lb]
<1> DEFINE x == AddressOf[c]
<1>1. x \in Address
  BY ConstantsAssumption
<1>2. /\ Cardinality(Voters(alwaysHealthy, x)) <= endpointToHealthy[x]
      /\ Cardinality(Voters(alwaysHealthy, x)) \in Nat
      /\ endpointToHealthy[x] \in Nat
  BY <1>1, AllRead DEF AtLeast, SendList, TypeOK
<1>3. Majority(endpointToHealthy, x)
  <2> DEFINE m == Cardinality(Voters(alwaysHealthy, x))
             v == endpointToHealthy[x]
  <2>1. Len(Agents) \in Nat /\ 2 * m > Len(Agents)
    BY ConstantsAssumption DEF AgentMajority
  <2>2. m <= v /\ m \in Nat /\ v \in Nat
    BY <1>2
  <2> HIDE DEF m, v
  <2>3. v > Len(Agents) \div 2
    BY <2>1, <2>2, HalfOfAgents
  <2> QED
    BY <2>3 DEF Majority, v
<1>4. c \in HealthyEndpoints(lb, endpointToHealthy)
  BY <1>3 DEF HealthyEndpoints
<1> QED
  BY <1>4, LoadbalancersType DEF SendList

(* Every endpoint a majority of the agents reports healthy from the start  *)
(* of a cycle to its end is in the list, however the reports change        *)
(* besides: an agent that cannot be read or is down takes nothing away     *)
(* from the others' votes (the continue in syncStatus).                    *)
THEOREM MajorityListedHolds == Spec => MajorityListed
<1> DEFINE Inv == TypeOK /\ HistoryInv /\ AtLeast
           Step == SendList =>
                     \A lb \in LB : \A c \in Wanted[lb] :
                        AgentMajority(Voters(alwaysHealthy, AddressOf[c])) =>
                            lb \in DOMAIN current' /\ c \in current'[lb]
<1>1. Init => Inv
  BY InitTypeOK, InitHistoryInv DEF Init, AtLeast
<1>2. Inv /\ [Next]_vars => Inv'
  BY NextTypeOK, NextHistoryInv, NextAtLeast
<1>3. Inv => Step
  BY SendListMajorityListed
<1>4. Inv => [Step]_vars
  BY <1>3
<1> QED
  BY <1>1, <1>2, <1>4, PTL DEF Spec, MajorityListed

-----------------------------------------------------------------------------
(* No vote is counted twice                                                *)

(* No agent is configured twice, and no address: not over two protocols,   *)
(* and not for two load balancers.                                         *)
OneVoteEach ==
    /\ \A i, j \in DOMAIN Agents : Agents[i] = Agents[j] => i = j
    /\ \A c, d \in Check : AddressOf[c] = AddressOf[d] => c = d

LEMMA NextAtMost ==
    ASSUME OneVoteEach, TypeOK, HistoryInv, AtMost, [Next]_vars
    PROVE  AtMost'
<1> SUFFICES ASSUME (pc = "read")', NEW x \in Address
             PROVE  endpointToHealthy'[x] <=
                        Cardinality(ReadVoters(everHealthy', next', x))
  BY DEF AtMost
<1> DEFINE S == ReadVoters(everHealthy, next, x)
           T == ReadVoters(everHealthy', next', x)
           ag == Agents[next]
<1>1. CASE MonitorStep \/ Environment \/ UNCHANGED vars
  <2>1. /\ UNCHANGED <<pc, next, endpointToHealthy>>
        /\ \A a \in Agent : everHealthy[a] \subseteq everHealthy'[a]
    BY <1>1, OtherSteps
  <2>2. /\ Cardinality(S) <= Cardinality(T)
        /\ Cardinality(T) \in Nat /\ Cardinality(S) \in Nat
    BY <2>1, ReadVotersGrow
  <2>3. endpointToHealthy[x] <= Cardinality(S) /\ endpointToHealthy[x] \in Nat
    BY <2>1 DEF AtMost, TypeOK
  <2> QED
    BY <2>1, <2>2, <2>3
<1>2. CASE StartSync
  BY <1>2, ReadVotersInitially, FS_EmptySet DEF StartSync, VotesAtStart, NoVotes
<1>3. CASE ReadAgent
  <2> DEFINE r == reports[ag]
  <2>1. next \in 1..Len(Agents) /\ ag \in Agent /\ r \in SUBSET Check
    BY <1>3, ConstantsAssumption DEF ReadAgent, TypeOK
  <2>2. /\ endpointToHealthy[x] \in Nat
        /\ endpointToHealthy'[x] = endpointToHealthy[x] + Added(r, x)
    BY <1>3 DEF ReadAgent, Added, TypeOK
  <2>3. Added(r, x) \in Nat /\ Added(r, x) <= 1
    BY <2>1, AddedVotes DEF OneVoteEach
  <2>4. everHealthy' = everHealthy /\ next' = next + 1
    BY <1>3 DEF ReadAgent, history
  <2>5. S \in SUBSET Agent /\ T \in SUBSET Agent
    BY DEF ReadVoters
  <2>6. S \subseteq T
    BY <2>1, <2>4, ReadBeforeNext DEF ReadVoters
  <2>7. /\ Cardinality(S) \in Nat /\ IsFiniteSet(S)
        /\ Cardinality(S) <= Cardinality(T)
        /\ Cardinality(T) \in Nat
    BY <2>5, <2>6, AgentSets
  <2>8. endpointToHealthy[x] <= Cardinality(S)
    BY <1>3 DEF AtMost, ReadAgent
  <2>9. CASE x \in Addresses(r)
    <3>1. ag \notin S
      BY <2>1, ConstantsAssumption DEF ReadVoters, ReadBefore, OneVoteEach
    <3>2. ag \in T
      <4>1. x \in Addresses(everHealthy[ag])
        BY <1>3, <2>1, <2>9 DEF HistoryInv, Healthy, ReadAgent, Addresses
      <4> QED
        BY <2>1, <2>4, <4>1, ReadBeforeNext DEF ReadVoters
    <3>3. Cardinality(S \cup {ag}) = Cardinality(S) + 1
      BY <2>7, <3>1, OneMore
    <3>4. S \cup {ag} \in SUBSET T
      BY <2>6, <3>2
    <3>5. Cardinality(S \cup {ag}) <= Cardinality(T)
      BY <2>5, <3>4, AgentSets
    <3> QED
      BY <2>2, <2>3, <2>7, <2>8, <3>3, <3>5
  <2>10. CASE x \notin Addresses(r)
    <3>1. Added(r, x) = 0
      BY <2>1, <2>3, <2>10, AddedVotes
    <3> QED
      BY <2>2, <2>7, <2>8, <3>1
  <2> QED
    BY <2>9, <2>10
<1>4. CASE ReadAgentFails
  <2>1. next \in 1..Len(Agents) /\ next' = next + 1
    BY <1>4, ConstantsAssumption DEF ReadAgentFails, TypeOK
  <2>2. everHealthy' = everHealthy /\ endpointToHealthy' = endpointToHealthy
    BY <1>4 DEF ReadAgentFails
  <2>3. S \subseteq T
    BY <2>1, <2>2, ReadBeforeNext DEF ReadVoters
  <2>4. /\ Cardinality(S) <= Cardinality(T)
        /\ Cardinality(T) \in Nat /\ Cardinality(S) \in Nat
    BY <2>3, AgentSets DEF ReadVoters
  <2>5. endpointToHealthy[x] <= Cardinality(S) /\ endpointToHealthy[x] \in Nat
    BY <1>4 DEF AtMost, ReadAgentFails, TypeOK
  <2> QED
    BY <2>2, <2>4, <2>5
<1>5. CASE SendList
  BY <1>5 DEF SendList
<1> QED
  BY <1>1, <1>2, <1>3, <1>4, <1>5 DEF Next, StatusStep

LEMMA SendListMajorityOfAgents ==
    ASSUME TypeOK, AtMost, SendList,
           NEW lb \in DOMAIN current', NEW c \in current'[lb]
    PROVE  AgentMajority(Voters(everHealthy, AddressOf[c]))
<1> DEFINE x == AddressOf[c]
           m == Cardinality(Voters(everHealthy, x))
           v == endpointToHealthy[x]
<1>1. lb \in LB /\ c \in HealthyEndpoints(lb, endpointToHealthy)
  BY LoadbalancersType DEF SendList
<1>2. x \in Address
  BY <1>1, ConstantsAssumption DEF HealthyEndpoints
<1>3. v > Len(Agents) \div 2 /\ Len(Agents) \in Nat
  BY <1>1, ConstantsAssumption DEF HealthyEndpoints, Majority
<1>4. v <= m /\ m \in Nat /\ v \in Nat
  BY <1>2, AllRead DEF AtMost, SendList, TypeOK
<1>5. 2 * v > Len(Agents)
  <2> HIDE DEF v
  <2> QED
    BY <1>3, <1>4, HalfOfAgents
<1>6. 2 * m > Len(Agents)
  <2> HIDE DEF v, m
  <2> QED
    BY <1>3, <1>4, <1>5
<1> QED
  BY <1>6 DEF AgentMajority

(* Every endpoint in a list was reported healthy by a majority of the      *)
(* agents at some time of the cycle, although the reports are read one     *)
(* after the other and change meanwhile - as long as no agent is given     *)
(* twice and no address is checked twice (endpointToHealthy counts checks, *)
(* not agents).                                                            *)
THEOREM MajorityOfAgentsHolds ==
    ASSUME OneVoteEach
    PROVE  Spec => MajorityOfAgents
<1> DEFINE Inv == TypeOK /\ HistoryInv /\ AtMost
           Step == SendList =>
                    \A lb \in DOMAIN current' : \A c \in current'[lb] :
                        AgentMajority(Voters(everHealthy, AddressOf[c]))
<1>1. Init => Inv
  BY InitTypeOK, InitHistoryInv DEF Init, AtMost
<1>2. Inv /\ [Next]_vars => Inv'
  BY NextTypeOK, NextHistoryInv, NextAtMost
<1>3. Inv => Step
  BY SendListMajorityOfAgents
<1>4. Inv => [Step]_vars
  BY <1>3
<1> QED
  BY <1>1, <1>2, <1>4, PTL DEF Spec, MajorityOfAgents

=============================================================================
